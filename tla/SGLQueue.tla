------------------------------ MODULE SGLQueue ------------------------------
(***************************************************************************)
(* SGLQueue (src/cpp_harness/SGLQueue.cpp): a std::list under a lock that  *)
(* holds the tid of its owner, -1 when it is free.                         *)
(*                                                                         *)
(* The list is read in one step and written in another, as in SGLDeque.    *)
(* enqueue is the push on the right of DequeOps and dequeue the pop on the *)
(* left.                                                                   *)
(***************************************************************************)
EXTENDS DequeOps

SGLQueueAssumption == Threads \subseteq Nat

VARIABLES
  q,       \* the std::list
  lk,      \* the owner of the lock, or -1
  pc,      \* where each thread is
  seen,    \* what its critical section read of q
  v,       \* the local v of a dequeue
  op,      \* the operation each thread has called last
  failed   \* an assertion has failed

vars == <<q, lk, pc, seen, v, op, failed>>

QueueOperations == {Push("R", x) : x \in Values} \cup {Pop("L")}

Init ==
  /\ q = <<>>
  /\ lk = -1
  /\ pc = [t \in Threads |-> "idle"]
  /\ seen = [t \in Threads |-> <<>>]
  /\ v = [t \in Threads |-> Empty]
  /\ op = [t \in Threads |-> Pop("L")]
  /\ failed = FALSE

Goto(t, l) == pc' = [pc EXCEPT ![t] = l]
Assert(cond) == failed' = (failed \/ ~cond)

Call(t, o) ==
  /\ pc[t] = "idle"
  /\ op' = [op EXCEPT ![t] = o]
  /\ v' = [v EXCEPT ![t] = Empty]
  /\ Goto(t, "acquire")
  /\ UNCHANGED <<q, lk, seen, failed>>

\* compare_exchange_strong, repeated until the lock was free.
Acquire(t) ==
  /\ pc[t] = "acquire"
  /\ lk = -1
  /\ lk' = t
  /\ Goto(t, "check")
  /\ UNCHANGED <<q, seen, v, op, failed>>

Check(t) ==
  /\ pc[t] = "check"
  /\ Assert(lk = t)
  /\ Goto(t, "read")
  /\ UNCHANGED <<q, lk, seen, v, op>>

Read(t) ==
  /\ pc[t] = "read"
  /\ seen' = [seen EXCEPT ![t] = q]
  /\ Goto(t, "update")
  /\ UNCHANGED <<q, lk, v, op, failed>>

Update(t) ==
  /\ pc[t] = "update"
  /\ \/ /\ op[t].kind = "push"
        /\ q' = Append(seen[t], op[t].val)
        /\ UNCHANGED v
     \/ /\ op[t].kind = "pop" /\ seen[t] # <<>>
        /\ v' = [v EXCEPT ![t] = Head(seen[t])]
        /\ q' = Tail(seen[t])
     \/ /\ op[t].kind = "pop" /\ seen[t] = <<>>
        /\ UNCHANGED <<q, v>>
  /\ Goto(t, "owner")
  /\ UNCHANGED <<lk, seen, op, failed>>

\* The assertion of lockRelease, then the store.
Owner(t) ==
  /\ pc[t] = "owner"
  /\ Assert(lk = t)
  /\ Goto(t, "release")
  /\ UNCHANGED <<q, lk, seen, v, op>>

Release(t) ==
  /\ pc[t] = "release"
  /\ lk' = -1
  /\ seen' = [seen EXCEPT ![t] = <<>>]
  /\ Goto(t, "return")
  /\ UNCHANGED <<q, v, op, failed>>

Return(t) ==
  /\ pc[t] = "return"
  /\ Goto(t, "idle")
  /\ UNCHANGED <<q, lk, seen, v, op, failed>>

Step(t) == \/ Acquire(t) \/ Check(t) \/ Read(t) \/ Update(t)
           \/ Owner(t) \/ Release(t) \/ Return(t)

Next == \E t \in Threads : Step(t) \/ \E o \in QueueOperations : Call(t, o)

Spec == Init /\ [][Next]_vars
-----------------------------------------------------------------------------
\* Type invariant.
TypeOK ==
  /\ q \in Seq(Values)
  /\ lk \in Threads \cup {-1}
  /\ pc \in [Threads -> {"idle", "acquire", "check", "read", "update", "owner",
                         "release", "return"}]
  /\ seen \in [Threads -> Seq(Values)]
  /\ v \in [Threads -> Values \cup {Empty}]
  /\ op \in [Threads -> QueueOperations]
  /\ failed \in BOOLEAN

\* The assertions of lockAcquire and lockRelease hold: the lock names the thread
\* in the critical section from the moment it is taken until it is released.
OwnerHoldsLock == ~failed
-----------------------------------------------------------------------------
(* What DequeSpec sees of it: an operation takes effect at Update, under the lock. *)

Status == [t \in Threads |->
  IF pc[t] = "idle" THEN "idle"
  ELSE IF pc[t] \in {"owner", "release", "return"} THEN "done" ELSE "pending"]

Reply == [t \in Threads |->
  IF Status[t] # "done" THEN Empty
  ELSE IF op[t].kind = "push" THEN op[t].val ELSE v[t]]
=============================================================================
