----------------------------- MODULE Coroutines -----------------------------
(***************************************************************************)
(* What libcommunism promises its client, with no mechanism in it.         *)
(*                                                                         *)
(* A flow is one stack of execution.  Every kernel thread is born running  *)
(* a flow of its own, named by the thread itself; every Cothread object    *)
(* adds one more.  At every moment a kernel thread executes exactly one    *)
(* flow, a flow is executed by at most one kernel thread, and control only *)
(* moves by an explicit, atomic transfer.  An entry point begins once.     *)
(* The program is only taken down after some entry point has returned.     *)
(*                                                                         *)
(* Module Cothread is the detailed system; it implements Spec under        *)
(*    on <- running,  life <- life,  up <- (outcome = "running").          *)
(***************************************************************************)
CONSTANTS
  Threads,    \* kernel ("physical") threads
  Cothreads,  \* Cothread objects created by the client
  Null        \* no flow

VARIABLES
  on,         \* flow that each kernel thread executes, Null once it ended
  life,       \* stage each flow has reached
  up          \* FALSE once the program has been brought down

vars == <<on, life, up>>

Flows == Threads \cup Cothreads

\* Flows that no kernel thread is executing.
Idle(o) == \A t \in Threads : on[t] # o

Begun == {"body", "handler"}

Init ==
  /\ on   = [t \in Threads |-> t]
  /\ life = [o \in Flows |-> "absent"]
  /\ up   = TRUE

\* A handle for the flow comes into being: a new cothread, whose entry point
\* has not begun, or a handle on a kernel thread's own flow, which has.
Appear(o) ==
  /\ life[o] = "absent"
  /\ life' = [life EXCEPT ![o] = IF o \in Cothreads THEN "fresh" ELSE "body"]
  /\ UNCHANGED <<on, up>>

\* Kernel thread t leaves its flow where it is and takes up flow o where o
\* last stood; a fresh flow begins its entry point, and it does so only here.
Transfer(t, o) ==
  /\ on[t] # Null
  /\ Idle(o)
  /\ life[o] \in Begun \cup {"fresh"}
  /\ on'   = [on EXCEPT ![t] = o]
  /\ life' = [life EXCEPT ![o] = IF @ = "fresh" THEN "body" ELSE @]
  /\ UNCHANGED up

\* The entry point of the cothread that t executes returns: from now on the
\* flow only runs the return handler.
Return(t) ==
  /\ on[t] \in Cothreads
  /\ life[on[t]] = "body"
  /\ life' = [life EXCEPT ![on[t]] = "handler"]
  /\ UNCHANGED <<on, up>>

\* A kernel thread ends, on its own flow.
Retire(t) ==
  /\ on[t] = t
  /\ on'   = [on EXCEPT ![t] = Null]
  /\ life' = [life EXCEPT ![t] = IF @ = "absent" THEN @ ELSE "ended"]
  /\ UNCHANGED up

\* A handle is destroyed while nobody executes its flow.
Remove(o) ==
  /\ Idle(o)
  /\ life[o] \notin {"absent", "gone"}
  /\ life' = [life EXCEPT ![o] = "gone"]
  /\ UNCHANGED <<on, up>>

\* The library brings the program down, and only on account of a cothread
\* whose entry point has returned.
Abort(t) ==
  /\ on[t] \in Cothreads
  /\ life[on[t]] = "handler"
  /\ up' = FALSE
  /\ UNCHANGED <<on, life>>

Next ==
  /\ up
  /\ \/ \E o \in Flows : Appear(o) \/ Remove(o)
     \/ \E t \in Threads : Return(t) \/ Retire(t) \/ Abort(t)
     \/ \E t \in Threads, o \in Flows : Transfer(t, o)

Spec == Init /\ [][Next]_vars
=============================================================================
