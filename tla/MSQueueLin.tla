---------------------------- MODULE MSQueueLin ----------------------------
(***************************************************************************)
(* One MSQueue whose threads call enqueue and dequeue implements DequeSpec *)
(* as a queue: an enqueue is Push("R"), a dequeue Pop("L").  An enqueue    *)
(* takes effect when its node is linked, a dequeue when head_ moves; the   *)
(* frame stays as it is left until the operation has returned.             *)
(***************************************************************************)
EXTENDS MSQueue

VARIABLES
  op,       \* the current or last operation of every thread
  sawEmpty  \* history variable of DequeSpec

linVars == <<queueVars, pc, op, sawEmpty>>

LinAssumption == MSQueueAssumption /\ Queues = {1} /\ IsFiniteSet(Threads)

\* The operation o; a thread calls enqueue as long as it has nodes.
Call(t, o) ==
  /\ pc[t] = "idle"
  /\ op' = [op EXCEPT ![t] = o]
  /\ \/ o.kind = "push" /\ made[t] < NumNodes /\ StartEnqueue(t, 1, o.val, "return")
     \/ o.kind = "pop" /\ StartDequeue(t, 1, "return")

Return(t) ==
  /\ pc[t] = "return"
  /\ frame' = [frame EXCEPT ![t] = NoFrame]
  /\ Goto(t, "idle")
  /\ UNCHANGED <<head_, tail_, next, value, made>>

Step(t) == (QueueStep(t) \/ Return(t)) /\ UNCHANGED op

QueueOperations == { Push("R", v) : v \in Values } \cup { Pop("L") }

Init ==
  /\ QueueInit
  /\ pc = [t \in Threads |-> "idle"]
  /\ op = [t \in Threads |-> Pop("L")]
  /\ sawEmpty = {}
-----------------------------------------------------------------------------
(* What DequeSpec sees. *)

Status == [t \in Threads |->
  CASE pc[t] = "idle" -> "idle" [] pc[t] \in {"swing", "return"} -> "done" [] OTHER -> "pending"]

Reply == [t \in Threads |->
  IF Status[t] # "done" THEN Empty ELSE IF op[t].kind = "push" THEN op[t].val ELSE Item(t)]

PendingPops == { t \in Threads : Status[t] = "pending" /\ op[t].kind = "pop" }

WatchEmpty == sawEmpty' = { t \in PendingPops' : t \in sawEmpty \/ Contents(1)' = <<>> }

Next ==
  /\ \E t \in Threads : Step(t) \/ \E o \in QueueOperations : Call(t, o)
  /\ WatchEmpty

Spec == Init /\ [][Next]_linVars

Abstract == INSTANCE DequeSpec
  WITH contents <- Contents(1), status <- Status, request <- op, reply <- Reply

\* Every enqueue and dequeue takes effect once, between its call and its return, in an
\* order in which a queue would give the same answers, and a dequeue that finds nothing
\* was called before a moment at which there was nothing (ms_queue.h).
Linearizable == Abstract!Spec
=============================================================================
