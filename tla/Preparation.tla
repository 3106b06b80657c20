---------------------------- MODULE Preparation ----------------------------
(***************************************************************************)
(* What a constructor and the first switch promise each other, with none   *)
(* of the detours by which an entry point gets onto a new stack.           *)
(*                                                                         *)
(* A construction happens all at once or fails without a trace; the first  *)
(* switch to a cothread begins the entry point that this very cothread was *)
(* constructed with, once.  An entry point is named by its cothread.       *)
(*                                                                         *)
(* Modules UContextRegistry and SetJmpPrepare, whose detours go through a  *)
(* map shared by the whole process and through a signal, implement it.     *)
(***************************************************************************)
CONSTANTS
  Cothreads,  \* each constructed at most once
  Null        \* no entry point

VARIABLES
  stage,      \* of each cothread
  began       \* the entry point that the cothread's stack has begun

Init ==
  /\ stage = [c \in Cothreads |-> "absent"]
  /\ began = [c \in Cothreads |-> Null]

Moves(c, s) == stage' = [stage EXCEPT ![c] = s]

Construct(c) == stage[c] = "absent" /\ Moves(c, "ready") /\ UNCHANGED began

Fail(c) == stage[c] = "absent" /\ Moves(c, "failed") /\ UNCHANGED began

Begin(c) ==
  /\ stage[c] = "ready"
  /\ Moves(c, "begun")
  /\ began' = [began EXCEPT ![c] = c]

Destroy(c) == stage[c] \in {"ready", "begun"} /\ Moves(c, "gone") /\ UNCHANGED began

Step(c) == Construct(c) \/ Fail(c) \/ Begin(c) \/ Destroy(c)

Next == \E c \in Cothreads : Step(c)

Spec == Init /\ [][Next]_<<stage, began>>
=============================================================================
