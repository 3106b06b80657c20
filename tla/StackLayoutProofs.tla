-------------------------- MODULE StackLayoutProofs --------------------------
(***************************************************************************)
(* Theorems about StackLayout for every size that can be asked for, any    *)
(* choice of backends and any width of size_t.                             *)
(***************************************************************************)
EXTENDS StackLayout, TLAPS

-----------------------------------------------------------------------------
(* The arithmetic.                                                         *)

LEMMA Platforms ==
  ASSUME NEW b \in Backends
  PROVE  Platform[b] \in {Amd64(6), Amd64(28), X86, Aarch64, SetJmp, UContext}
BY LayoutAssumption DEF Platform

\* size_t holds the default sizes, so it is wider than anything that is added.
LEMMA SizeTWide ==
  ASSUME NEW b \in Backends
  PROVE  SizeT \in Nat /\ SizeT > 262144 /\ SizeT % 64 = 0
BY Platforms, LayoutAssumption DEF Amd64, X86, Aarch64, SetJmp, UContext

LEMMA AllocSizeIs ==
  ASSUME NEW b \in Backends, NEW n \in Int
  PROVE  /\ Platform[b].style = "push" => AllocSize(b, n) = AllocSizePush(b, n)
         /\ Platform[b].style = "area" => AllocSize(b, n) = AllocSizeArea(b, n)
         /\ Platform[b].style = "clib" => AllocSize(b, n) = AllocSizeClib(b, n)
BY DEF AllocSize

LEMMA WantedIs ==
  ASSUME NEW b \in Backends, NEW n \in 0 .. SizeT - 1
  PROVE  /\ Wanted(b, n) \in 0 .. SizeT - 1
         /\ Wanted(b, n) % Platform[b].align = 0
         /\ n >= Platform[b].align => Wanted(b, n) <= n
BY Platforms, LayoutAssumption DEF Wanted, RoundDown, Amd64, X86, Aarch64, SetJmp, UContext

\* What is allocated is a multiple of the alignment, and with the save area more
\* than what was wanted, unless the sum passes the end of size_t.
LEMMA AllocSizePushed ==
  ASSUME NEW b \in Backends, NEW n \in 0 .. SizeT - 1, Platform[b].style = "push"
  PROVE  AllocSize(b, n) = Wanted(b, n)
BY AllocSizeIs DEF AllocSizePush

LEMMA AllocSizeAreaIs ==
  ASSUME NEW b \in Backends, NEW n \in 0 .. SizeT - 1, Platform[b].style = "area"
  PROVE  /\ Wanted(b, n) + 256 < SizeT => AllocSize(b, n) = Wanted(b, n) + 256
         /\ Wanted(b, n) + 256 >= SizeT =>
              AllocSize(b, n) = Wanted(b, n) + 256 - SizeT /\ AllocSize(b, n) <= 192
<1>1. Platform[b] = Aarch64
  BY Platforms DEF Amd64, X86, Aarch64, SetJmp, UContext
<1>2. Wanted(b, n) \in 0 .. SizeT - 64
  BY <1>1, WantedIs, SizeTWide DEF Aarch64
<1> QED BY <1>2, AllocSizeIs, SizeTWide DEF AllocSizeArea

\* n in a size_t.  The lemmas about it leave the remainder unexpanded, which the
\* provers handle badly for a divisor that is not a number.
Wrapped(n) == n % SizeT

LEMMA WrappedIs ==
  ASSUME NEW b \in Backends, NEW n \in 0 .. 2 * SizeT - 1
  PROVE  Wrapped(n) = IF n < SizeT THEN n ELSE n - SizeT
<1>1. CASE n < SizeT BY <1>1, SizeTWide DEF Wrapped
<1>2. CASE n >= SizeT
  <2>1. n - SizeT \in 0 .. SizeT - 1 BY <1>2, SizeTWide
  <2>2. (n - SizeT) % SizeT = n - SizeT BY <2>1, SizeTWide
  <2> QED BY <1>2, <2>1, <2>2, SizeTWide DEF Wrapped
<1> QED BY <1>1, <1>2, SizeTWide

LEMMA RoundUpIs ==
  ASSUME NEW b \in Backends, NEW n \in 0 .. SizeT - 1, n % 64 = 8
  PROVE  RoundUp(n, 64) = IF n + 56 < SizeT THEN n + 56 ELSE n + 56 - SizeT
<1>1. n + 56 \in 0 .. 2 * SizeT - 1 /\ n + 64 - 8 = n + 56 BY SizeTWide
<1>2. RoundUp(n, 64) = Wrapped(n + 56) BY <1>1 DEF RoundUp, Wrapped
<1> QED BY <1>1, <1>2, WrappedIs, SizeTWide

\* A jump buffer or context ends 8 bytes behind an alignment, so rounding the sum
\* up adds 56, before or behind the end of size_t.
LEMMA ClibSum ==
  ASSUME NEW b \in Backends, NEW w \in 0 .. SizeT - 64, w % 64 = 0, NEW area \in {200, 968}
  PROVE  RoundUp(Wrapped(w + area), 64) =
           IF w + area + 56 < SizeT THEN w + area + 56 ELSE w + area + 56 - SizeT
<1> DEFINE n == Wrapped(w + area)
<1>1. SizeT \in Nat /\ SizeT > 262144 /\ SizeT % 64 = 0 BY SizeTWide
<1>2. w + area \in 0 .. 2 * SizeT - 1 BY <1>1
<1>3. n = IF w + area < SizeT THEN w + area ELSE w + area - SizeT
  BY <1>1, <1>2, WrappedIs
<1> HIDE DEF n
<1>4. n \in 0 .. SizeT - 1 /\ n % 64 = 8 BY <1>1, <1>2, <1>3
<1>5. RoundUp(n, 64) = IF n + 56 < SizeT THEN n + 56 ELSE n + 56 - SizeT
  BY <1>4, RoundUpIs
<1>6. RoundUp(n, 64) = IF w + area + 56 < SizeT THEN w + area + 56 ELSE w + area + 56 - SizeT
  BY <1>1, <1>3, <1>5
<1> QED BY <1>6 DEF n

LEMMA ClibBackend ==
  ASSUME NEW b \in Backends, Platform[b].style = "clib"
  PROVE  /\ Platform[b].align = 64
         /\ Platform[b].area \in {200, 968}
         /\ StackOffset(b) = Platform[b].area + 56
<1>1. Platform[b] \in {SetJmp, UContext}
  BY Platforms DEF Amd64, X86, Aarch64, SetJmp, UContext
<1>2. /\ Platform[b].align = 64
      /\ Platform[b].area \in {200, 968}
  BY <1>1 DEF SetJmp, UContext
<1>3. 256 % SizeT = 256 /\ 1024 % SizeT = 1024 BY SizeTWide
<1> QED BY <1>2, <1>3 DEF StackOffset, RoundUp

LEMMA AllocSizeClibIs ==
  ASSUME NEW b \in Backends, NEW n \in 0 .. SizeT - 1, Platform[b].style = "clib"
  PROVE  /\ Wanted(b, n) + StackOffset(b) < SizeT =>
              AllocSize(b, n) = Wanted(b, n) + StackOffset(b)
         /\ Wanted(b, n) + StackOffset(b) >= SizeT =>
              /\ AllocSize(b, n) = Wanted(b, n) + StackOffset(b) - SizeT
              /\ AllocSize(b, n) < StackOffset(b)
<1>1. Wanted(b, n) \in 0 .. SizeT - 64 /\ Wanted(b, n) % 64 = 0
  BY ClibBackend, WantedIs, SizeTWide
<1>2. AllocSize(b, n) = RoundUp(Wrapped(Wanted(b, n) + Platform[b].area), 64)
  BY ClibBackend, AllocSizeIs DEF AllocSizeClib, Wrapped
<1>3. AllocSize(b, n) = IF Wanted(b, n) + Platform[b].area + 56 < SizeT
                          THEN Wanted(b, n) + Platform[b].area + 56
                          ELSE Wanted(b, n) + Platform[b].area + 56 - SizeT
  BY <1>1, <1>2, ClibBackend, ClibSum
<1> QED BY <1>1, <1>3, ClibBackend, SizeTWide

LEMMA AllocSizeRange ==
  ASSUME NEW b \in Backends, NEW n \in 0 .. SizeT - 1
  PROVE  AllocSize(b, n) \in 0 .. SizeT - 1
<1>1. Platform[b].style \in {"push", "area", "clib"}
  BY Platforms DEF Amd64, X86, Aarch64, SetJmp, UContext
<1> QED
  BY <1>1, WantedIs, AllocSizePushed, AllocSizeAreaIs, AllocSizeClibIs, ClibBackend, SizeTWide

\* ss_size: a difference that wraps if the buffer is smaller than what lies below.
LEMMA StackSizeIs ==
  ASSUME NEW b \in Backends, NEW n \in 0 .. SizeT - 1, Platform[b].style = "clib"
  PROVE  StackSize(b, n) = IF n >= StackOffset(b) THEN n - StackOffset(b)
                                                  ELSE n - StackOffset(b) + SizeT
<1>1. StackOffset(b) \in 1 .. SizeT - 1 /\ SizeT \in Nat BY ClibBackend, SizeTWide
<1>2. CASE n >= StackOffset(b)
  <2>1. n - StackOffset(b) \in 0 .. SizeT - 1 BY <1>1, <1>2
  <2> QED BY <1>1, <1>2, <2>1 DEF StackSize
<1>3. CASE n < StackOffset(b)
  <2>1. n - StackOffset(b) \in -SizeT .. -1 BY <1>1, <1>3
  <2> QED BY <1>1, <1>3, <2>1 DEF StackSize
<1> QED BY <1>1, <1>2, <1>3

-----------------------------------------------------------------------------
(* The invariant.                                                          *)

LEMMA LayoutInit == Init => IInv
BY LayoutAssumption, SizeTWide DEF Init, IInv, TypeOK, LayoutInv, p

LEMMA LayoutStep == IInv /\ [Next]_vars => IInv'
<1> SUFFICES ASSUME IInv, [Next]_vars PROVE IInv' OBVIOUS
<1> USE LayoutAssumption DEF IInv, TypeOK, LayoutInv, p
<1>1. CASE SizeRequested
  <2>1. AllocSize(backend, request) \in 0 .. SizeT - 1 BY AllocSizeRange
  <2> QED BY <1>1, <2>1 DEF SizeRequested, SizeKnown
<1>2. CASE SpanGiven
  BY <1>2 DEF SpanGiven, SizeKnown
<1>3. CASE RefuseSpan
  BY <1>3 DEF RefuseSpan
<1>4. CASE WrapperGiven
  <2>1. Platform[backend].main \in 0 .. SizeT - 1 /\ Platform[backend].area \in Int
    BY Platforms, SizeTWide DEF Amd64, X86, Aarch64, SetJmp, UContext
  <2> QED BY <1>4, <2>1 DEF WrapperGiven, WrapperKnown
<1>5. CASE AllocStack
  BY <1>5 DEF AllocStack, SizeKnown
<1>6. CASE AllocFails
  BY <1>6 DEF AllocFails
<1>7. CASE PreparePush
  <2>1. high' \in Int /\ low' \in Int /\ sp' \in Int /\ room' \in 0 .. SizeT - 1
    BY <1>7, Platforms, SizeTWide
    DEF PreparePush, FrameTop, FrameWords, RoundDown, Amd64, X86, Aarch64, SetJmp, UContext
  <2> QED BY <1>7, <2>1 DEF PreparePush, SizeKnown, FrameKnown
<1>8. CASE PrepareArea
  <2>1. Platform[backend].area \in Nat
    BY Platforms DEF Amd64, X86, Aarch64, SetJmp, UContext
  <2> QED BY <1>8, <2>1 DEF PrepareArea, SizeKnown, FrameKnown
<1>9. CASE PrepareClib
  <2>1. /\ StackSize(backend, size) \in 0 .. SizeT - 1
        /\ StackOffset(backend) \in Int
        /\ Platform[backend].area \in Int
    BY <1>9, ClibBackend, SizeTWide DEF PrepareClib, StackSize
  <2> QED BY <1>9, <2>1 DEF PrepareClib, SizeKnown, FrameKnown
<1>10. CASE Done \/ UNCHANGED vars
  BY <1>10 DEF Done, vars, SizeKnown, FrameKnown, WrapperKnown
<1> QED
  BY <1>1, <1>2, <1>3, <1>4, <1>5, <1>6, <1>7, <1>8, <1>9, <1>10 DEF Next
-----------------------------------------------------------------------------
(* What follows for a stack that is ready, for each way of laying it out.  *)

LEMMA Styles ==
  ASSUME NEW b \in Backends
  PROVE  /\ Platform[b].style \in {"push", "area", "clib"}
         /\ Platform[b].style = "push" => Platform[b] \in {Amd64(6), Amd64(28), X86}
         /\ Platform[b].style = "area" => Platform[b] = Aarch64
BY Platforms DEF Amd64, X86, Aarch64, SetJmp, UContext

\* The backends that lay the first frame out themselves have whole alignments.
LEMMA SizeAligned ==
  ASSUME IInv, Ready, route # "wrapper", p.style # "clib"
  PROVE  size \in 0 .. SizeT - 1 /\ size % p.align = 0
<1>1. SizeKnown /\ size \in 0 .. SizeT - 1 /\ backend \in Backends /\ request \in 0 .. SizeT - 1
  BY LayoutAssumption DEF IInv, TypeOK, LayoutInv, Ready
<1>2. CASE route = "span"
  BY <1>1, <1>2 DEF SizeKnown, ValidStackSize, p
<1>3. CASE route = "size" /\ p.style = "push"
  BY <1>1, <1>3, WantedIs, AllocSizePushed DEF SizeKnown, p
<1>4. CASE route = "size" /\ p.style = "area"
  <2>1. p.align = 64 BY <1>1, <1>4, Styles DEF p, Aarch64
  <2>2. Wanted(backend, request) \in 0 .. SizeT - 1 /\ Wanted(backend, request) % 64 = 0
    BY <1>1, <2>1, WantedIs DEF p
  <2>3. size \in {Wanted(backend, request) + 256, Wanted(backend, request) + 256 - SizeT}
    BY <1>1, <1>4, <2>2, AllocSizeAreaIs, SizeTWide DEF SizeKnown, p
  <2> QED BY <1>1, <2>1, <2>2, <2>3, SizeTWide
<1> QED BY <1>1, <1>2, <1>3, <1>4, Styles DEF SizeKnown, p

\* A pushed frame starts at its top, so that it takes what it needs twice.
LEMMA FitsPush ==
  ASSUME IInv, Ready, route # "wrapper", p.style = "push"
  PROVE  /\ Inside <=> size >= LeastSize(backend)
         /\ sp = size - p.word * (FrameWords(backend) + 1)
         /\ Inside => room = sp
         /\ (sp + p.word) % 16 = 0
<1>1. FrameKnown /\ backend \in Backends
  BY DEF IInv, TypeOK, LayoutInv, Ready
<1>2. p \in {Amd64(6), Amd64(28), X86} BY <1>1, Styles DEF p
<1>3. size \in Nat /\ size % 16 = 0
  BY <1>2, SizeAligned, SizeTWide DEF Amd64, X86
<1>4. FrameTop(backend, size) = size - p.word * FrameWords(backend)
  BY <1>3 DEF FrameTop, RoundDown, p
<1>5. p.word * FrameWords(backend) \in {80, 256, 32} /\ p.word \in {4, 8}
      /\ p.word * (FrameWords(backend) + 1) = p.word * FrameWords(backend) + p.word
  BY <1>2 DEF Amd64, X86, FrameWords, p
<1>6. LeastSize(backend) = 2 * (p.word * FrameWords(backend))
  BY <1>2 DEF LeastSize, Amd64, X86, FrameWords, p
<1> QED
  BY <1>1, <1>3, <1>4, <1>5, <1>6 DEF FrameKnown, Inside

\* A save area is not a whole number of alignments, but the size is.
LEMMA FitsArea ==
  ASSUME IInv, Ready, route # "wrapper", p.style = "area"
  PROVE  /\ Inside <=> size >= LeastSize(backend)
         /\ LeastSize(backend) = 192
         /\ Inside => room = size - 176
         /\ sp % 16 = 0
<1>1. FrameKnown /\ backend \in Backends
  BY DEF IInv, TypeOK, LayoutInv, Ready
<1>2. p = Aarch64 BY <1>1, Styles DEF p
<1>3. size \in Nat /\ size % 64 = 0
  BY <1>2, SizeAligned, SizeTWide DEF Aarch64
<1>4. LeastSize(backend) = 192
  BY <1>1, <1>2, SizeTWide DEF LeastSize, StackOffset, RoundUp, Aarch64, p
<1> QED BY <1>1, <1>2, <1>3, <1>4 DEF FrameKnown, Inside, Aarch64

\* A buffer below the offset shows in ss_size, which has wrapped.
LEMMA FitsClib ==
  ASSUME IInv, Ready, route # "wrapper", p.style = "clib"
  PROVE  /\ Inside <=> size >= LeastSize(backend)
         /\ LeastSize(backend) = StackOffset(backend)
         /\ Inside => room = size - StackOffset(backend)
<1>1. FrameKnown /\ backend \in Backends /\ size \in 0 .. SizeT - 1
  BY DEF IInv, TypeOK, LayoutInv, Ready
<1>2. p.area \in 0 .. StackOffset(backend) - 1 /\ StackOffset(backend) \in {256, 1024}
  BY <1>1, ClibBackend DEF p
<1>3. LeastSize(backend) = StackOffset(backend) BY DEF LeastSize, p
<1> QED BY <1>1, <1>2, <1>3, StackSizeIs, SizeTWide DEF FrameKnown, Inside, p

LEMMA FitsWrapper ==
  ASSUME IInv, Ready, route = "wrapper"
  PROVE  Inside
<1>1. WrapperKnown /\ backend \in Backends
  BY DEF IInv, TypeOK, LayoutInv, Ready
<1> QED BY <1>1, Platforms DEF WrapperKnown, Inside, p, Amd64, X86, Aarch64, SetJmp, UContext

LEMMA LayoutAlways == Spec => []IInv
BY LayoutInit, LayoutStep, PTL DEF Spec

\* Every variable keeps its type: no size leaves the range of a size_t.
THEOREM LayoutTyped == Spec => []TypeOK
<1>1. IInv => TypeOK BY DEF IInv
<1> QED BY <1>1, LayoutAlways, PTL

\* For every size, in a size_t of any width: the first frame stays inside a stack
\* that has the least size.
THEOREM FrameFits == Spec => []EnoughFits
<1>1. IInv => EnoughFits
  BY FitsPush, FitsArea, FitsClib, FitsWrapper, Styles
  DEF EnoughFits, IInv, TypeOK, p
<1> QED BY <1>1, LayoutAlways, PTL

\* ... and leaves every smaller one, none of which the code refuses for being too
\* small: no stack below the least size happens to be good enough.
THEOREM TooSmallMisfits ==
  Spec => [](Ready /\ route # "wrapper" /\ size < LeastSize(backend) => ~Inside)
<1>1. ASSUME IInv, Ready, route # "wrapper", size < LeastSize(backend)
      PROVE  ~Inside
  <2>1. Inside <=> size >= LeastSize(backend)
    BY <1>1, FitsPush, FitsArea, FitsClib, Styles DEF IInv, TypeOK, p
  <2>2. size \in Nat /\ LeastSize(backend) \in Int
    <3>1. backend \in Backends /\ size \in Nat
      BY <1>1, SizeTWide DEF IInv, TypeOK
    <3>2. LeastSize(backend) \in Int
      BY <3>1, Platforms, ClibBackend, SizeTWide
      DEF LeastSize, StackOffset, RoundUp, FrameWords, Amd64, X86, Aarch64, SetJmp, UContext
    <3> QED BY <3>1, <3>2
  <2> QED BY <1>1, <2>1, <2>2
<1> QED BY <1>1, LayoutAlways, PTL

\* The stack pointer on entry has the alignment of the platform's calling
\* convention.
THEOREM FrameAligned == Spec => []EntryAligned
<1>1. IInv => EntryAligned
  BY FitsPush, FitsArea, Styles DEF EntryAligned, IInv, TypeOK, p
<1> QED BY <1>1, LayoutAlways, PTL

-----------------------------------------------------------------------------
(* The room in it.                                                         *)

LEMMA RepresentableIs ==
  ASSUME NEW b \in Backends, NEW n \in Int
  PROVE  /\ Platform[b].style = "push" => Representable(b, n)
         /\ Platform[b].style = "area" => (Representable(b, n) <=> Wanted(b, n) + 256 < SizeT)
         /\ Platform[b].style = "clib" =>
              (Representable(b, n) <=> Wanted(b, n) + StackOffset(b) < SizeT)
BY DEF Representable

\* What is known of the sizes once a stack has been allocated.
LEMMA AllocatedIs ==
  ASSUME IInv, Ready, route = "size"
  PROVE  /\ backend \in Backends /\ request \in 0 .. SizeT - 1
         /\ size = AllocSize(backend, request)
         /\ Wanted(backend, request) \in 0 .. SizeT - 1
BY LayoutAssumption, WantedIs DEF IInv, TypeOK, LayoutInv, Ready, SizeKnown

\* The sizes that are not rounded down.
LEMMA WantedWhole ==
  ASSUME NEW b \in Backends, NEW n \in 0 .. SizeT - 1, n % Platform[b].align = 0
  PROVE  Wanted(b, n) = IF n = 0 THEN Platform[b].default ELSE n
BY Platforms DEF Wanted, RoundDown, Amd64, X86, Aarch64, SetJmp, UContext

\* A client that asks for a multiple of the alignment finds the room it asked for
\* in an allocated stack, unless the sum with the bonus space has wrapped.
THEOREM RoomSound == Spec => []RoomAsRequested
<1>1. IInv => RoomAsRequested
  <2> SUFFICES ASSUME IInv, Ready, route = "size", request % p.align = 0,
                      Representable(backend, request)
               PROVE  room >= RoomAsked
    BY DEF RoomAsRequested
  <2>1. Wanted(backend, request) = SizeAsked
    BY AllocatedIs, WantedWhole DEF SizeAsked, p
  <2>2. CASE p.style = "push"
    <3>1. FrameKnown BY DEF IInv, LayoutInv, Ready
    <3>2. RoomAsked = size - p.word * (FrameWords(backend) + 1)
      BY AllocatedIs, <2>1, <2>2, AllocSizePushed DEF RoomAsked, p
    <3>3. sp = RoomAsked /\ sp \in Int
      BY <2>2, <3>2, FitsPush DEF IInv, TypeOK
    <3> QED BY <2>2, <3>1, <3>3 DEF FrameKnown
  <2>3. CASE p.style = "area"
    <3>1. RoomAsked = SizeAsked BY AllocatedIs, <2>1, <2>3 DEF RoomAsked, p
    <3>2. size = SizeAsked + 256
      BY AllocatedIs, <2>1, <2>3, AllocSizeAreaIs, RepresentableIs DEF p
    <3>3. SizeAsked \in Nat BY AllocatedIs, <2>1, SizeTWide
    <3> QED BY <2>3, <3>1, <3>2, <3>3, FitsArea
  <2>4. CASE p.style = "clib"
    <3>1. size = SizeAsked + StackOffset(backend)
      BY AllocatedIs, <2>1, <2>4, AllocSizeClibIs, RepresentableIs DEF p
    <3>2. RoomAsked = SizeAsked BY AllocatedIs, <2>1, <2>4 DEF RoomAsked, p
    <3>3. SizeAsked \in Nat /\ StackOffset(backend) \in Nat
      BY AllocatedIs, <2>1, <2>4, ClibBackend, SizeTWide DEF p
    <3> QED BY <2>4, <3>1, <3>2, <3>3, FitsClib
  <2> QED BY AllocatedIs, <2>2, <2>3, <2>4, Styles DEF p
<1> QED BY <1>1, LayoutAlways, PTL

\* An allocated stack is at most 1024 bytes larger than asked for.
THEOREM RoomModest == Spec => []SizeNotExcessive
<1>1. IInv => SizeNotExcessive
  <2> SUFFICES ASSUME IInv, Ready, route = "size", request >= p.align
               PROVE  size <= request + 1024
    BY DEF SizeNotExcessive
  <2>1. Wanted(backend, request) <= request BY AllocatedIs, WantedIs DEF p
  <2>2. CASE p.style = "push"
    BY AllocatedIs, <2>1, <2>2, AllocSizePushed DEF p
  <2>3. CASE p.style = "area"
    BY AllocatedIs, <2>1, <2>3, AllocSizeAreaIs, SizeTWide DEF p
  <2>4. CASE p.style = "clib"
    BY AllocatedIs, <2>1, <2>4, AllocSizeClibIs, ClibBackend, SizeTWide DEF p
  <2> QED BY AllocatedIs, <2>2, <2>3, <2>4, Styles DEF p
<1> QED BY <1>1, LayoutAlways, PTL
=============================================================================
