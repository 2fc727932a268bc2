------------------------------ MODULE SGLDeque ------------------------------
(***************************************************************************)
(* SGLDeque<T> (src/deque/SGLDeque.hpp): a std::deque under one            *)
(* test-and-test-and-set lock.                                             *)
(*                                                                         *)
(* std::deque is not thread safe: the model reads it in one step and       *)
(* writes it in another, so that only the lock keeps operations apart.     *)
(***************************************************************************)
EXTENDS DequeOps

VARIABLES
  m_deque,  \* the std::deque
  m_nLock,  \* the lock: 0 or 1
  pc,       \* where each thread is
  seen,     \* what its critical section read of m_deque
  value,    \* the local value of a pop
  op        \* the operation each thread has called last

vars == <<m_deque, m_nLock, pc, seen, value, op>>

Init ==
  /\ m_deque = <<>>
  /\ m_nLock = 0
  /\ pc = [t \in Threads |-> "idle"]
  /\ seen = [t \in Threads |-> <<>>]
  /\ value = [t \in Threads |-> Empty]
  /\ op = [t \in Threads |-> Pop("L")]

Goto(t, l) == pc' = [pc EXCEPT ![t] = l]

\* left_push, right_push, left_pop and right_pop are called.
Call(t, o) ==
  /\ pc[t] = "idle"
  /\ op' = [op EXCEPT ![t] = o]
  /\ value' = [value EXCEPT ![t] = Empty]
  /\ Goto(t, "lock")
  /\ UNCHANGED <<m_deque, m_nLock, seen>>

\* __sync_lock_test_and_set: whoever finds 0 has the lock.
Lock(t) ==
  /\ pc[t] = "lock"
  /\ m_nLock' = 1
  /\ Goto(t, IF m_nLock = 0 THEN "read" ELSE "spin")
  /\ UNCHANGED <<m_deque, seen, value, op>>

Spin(t) ==
  /\ pc[t] = "spin"
  /\ m_nLock = 0
  /\ Goto(t, "lock")
  /\ UNCHANGED <<m_deque, m_nLock, seen, value, op>>

Read(t) ==
  /\ pc[t] = "read"
  /\ seen' = [seen EXCEPT ![t] = m_deque]
  /\ Goto(t, "update")
  /\ UNCHANGED <<m_deque, m_nLock, value, op>>

\* push_front, push_back, or the pop of a deque that is not empty.
Update(t) ==
  LET s == op[t].side IN
  /\ pc[t] = "update"
  /\ \/ /\ op[t].kind = "push"
        /\ m_deque' = AtEnd(s, op[t].val, seen[t])
        /\ UNCHANGED value
     \/ /\ op[t].kind = "pop" /\ seen[t] # <<>>
        /\ value' = [value EXCEPT ![t] = EndOf(s, seen[t])]
        /\ m_deque' = WithoutEnd(s, seen[t])
     \/ /\ op[t].kind = "pop" /\ seen[t] = <<>>
        /\ UNCHANGED <<m_deque, value>>
  /\ Goto(t, "unlock")
  /\ UNCHANGED <<m_nLock, seen, op>>

Unlock(t) ==
  /\ pc[t] = "unlock"
  /\ m_nLock' = 0
  /\ seen' = [seen EXCEPT ![t] = <<>>]
  /\ Goto(t, "return")
  /\ UNCHANGED <<m_deque, value, op>>

Return(t) ==
  /\ pc[t] = "return"
  /\ Goto(t, "idle")
  /\ UNCHANGED <<m_deque, m_nLock, seen, value, op>>

Step(t) == Lock(t) \/ Spin(t) \/ Read(t) \/ Update(t) \/ Unlock(t) \/ Return(t)

Next == \E t \in Threads : Step(t) \/ \E o \in Operations : Call(t, o)

Spec == Init /\ [][Next]_vars
-----------------------------------------------------------------------------
\* Type invariant.
TypeOK ==
  /\ m_deque \in Seq(Values)
  /\ m_nLock \in {0, 1}
  /\ pc \in [Threads -> {"idle", "lock", "spin", "read", "update", "unlock", "return"}]
  /\ seen \in [Threads -> Seq(Values)]
  /\ value \in [Threads -> Values \cup {Empty}]
  /\ op \in [Threads -> Operations]

\* What one thread has read of the deque is still true when it writes: nobody
\* else is in its critical section, and the lock is free exactly when nobody is.
Exclusive ==
  /\ \A t \in Threads : pc[t] = "update" => seen[t] = m_deque
  /\ m_nLock = 1 <=> \E t \in Threads : pc[t] \in {"read", "update", "unlock"}
-----------------------------------------------------------------------------
(* What DequeSpec sees of it: an operation takes effect at Update, under the lock. *)

Status == [t \in Threads |->
  IF pc[t] = "idle" THEN "idle" ELSE IF pc[t] \in {"unlock", "return"} THEN "done" ELSE "pending"]

Reply == [t \in Threads |->
  IF Status[t] # "done" THEN Empty
  ELSE IF op[t].kind = "push" THEN op[t].val ELSE value[t]]
=============================================================================
