----------------------- MODULE QueueVerificationTest -----------------------
(***************************************************************************)
(* QueueVerificationTest (src/deque/Tests.cpp): threads push on the right  *)
(* of a deque and pop on the left; every thread checks that the counts it  *)
(* finds for one pusher grow.                                              *)
(*                                                                         *)
(* The deque is a correct one: an operation is one step (DequeSpec).  The  *)
(* finish time may come at any moment, and a pop of an empty deque changes *)
(* nothing.                                                                *)
(***************************************************************************)
EXTENDS UIDGenerator, Sequences

CONSTANT MaxLen  \* bound: the values in the deque at one time

QueueTestAssumption == MaxLen \in Nat

VARIABLES
  contents,   \* the deque, leftmost first
  pc,         \* where each thread is
  inserting,  \* the next UID each thread pushes
  found,      \* per thread, the last count it has found for each thread
  passed      \* the verdict

vars == <<contents, pc, inserting, found, passed>>

Init ==
  /\ contents = <<>>
  /\ pc = [t \in Tids |-> "run"]
  /\ inserting = [t \in Tids |-> initial(t)]
  /\ found = [t \in Tids |-> [i \in Tids |-> 0]]
  /\ passed = TRUE

\* The finish time is over.
Leave(t) ==
  /\ pc[t] = "run"
  /\ pc' = [pc EXCEPT ![t] = "done"]
  /\ UNCHANGED <<contents, inserting, found, passed>>

\* A push; a thread whose UIDs are used up leaves the test.
PushRight(t) ==
  /\ pc[t] = "run" /\ Len(contents) < MaxLen
  /\ contents' = Append(contents, inserting[t])
  /\ inserting' = [inserting EXCEPT ![t] = next(@)]
  /\ pc' = IF inserting'[t] = 0 THEN [pc EXCEPT ![t] = "done"] ELSE pc
  /\ UNCHANGED <<found, passed>>

\* A value is popped and compared with the last one of the same pusher.
PopLeft(t) ==
  /\ pc[t] = "run" /\ contents # <<>>
  /\ LET removed == Head(contents) IN
       /\ passed' = (passed /\ count(removed) > found[t][id(removed)])
       /\ found' = [found EXCEPT ![t][id(removed)] =
                      IF count(removed) > @ THEN count(removed) ELSE @]
  /\ contents' = Tail(contents)
  /\ UNCHANGED <<pc, inserting>>

Step(t) == Leave(t) \/ PushRight(t) \/ PopLeft(t)

Next == \E t \in Tids : Step(t)

Spec == Init /\ [][Next]_vars
-----------------------------------------------------------------------------
\* Type invariant.
TypeOK ==
  /\ contents \in Seq(1 .. UINT_MAX) /\ Len(contents) <= MaxLen
  /\ passed \in BOOLEAN
  /\ pc \in [Tids -> {"run", "done"}]
  /\ inserting \in [Tids -> 0 .. UINT_MAX]
  /\ found \in [Tids -> [Tids -> 0 .. UINT_MAX]]

\* No false alarm: on a deque that is a queue when it is used as one the test
\* passes, with any number of pushers and poppers and until the UIDs are used up.
NoFalseAlarm == passed

\* No two threads ever push the same UID, and a value names its pusher: what is in
\* the deque is all different, and each pusher's part of it is in counting order.
UIDsUnique ==
  \A i, j \in 1 .. Len(contents) : i < j =>
    /\ contents[i] # contents[j]
    /\ id(contents[i]) = id(contents[j]) => count(contents[i]) < count(contents[j])
=============================================================================
