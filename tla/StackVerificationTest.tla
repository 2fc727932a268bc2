----------------------- MODULE StackVerificationTest -----------------------
(***************************************************************************)
(* StackVerificationTest (src/deque/Tests.cpp): phases in which all        *)
(* threads push on the right of a deque alternate with phases in which all *)
(* pop there until it is empty; every thread checks that the counts it     *)
(* finds for one pusher decrease.  Four barriers separate the phases.      *)
(*                                                                         *)
(* The deque is a correct one: an operation is one step (DequeSpec).  The  *)
(* finish time may have come whenever thread 0 asks.                       *)
(***************************************************************************)
EXTENDS UIDGenerator, Sequences, FiniteSets

CONSTANTS
  opsPerPhase,  \* 5000 in the code
  MaxPhase      \* bound: the finish time has come by this phase

StackTestAssumption == opsPerPhase \in Nat \ {0} /\ MaxPhase \in Nat

VARIABLES
  contents,    \* the deque, leftmost first
  pc,          \* where each thread is
  arrived,     \* the threads that wait at the barrier
  phase,       \* the locals of each thread: its phase,
  empty,       \*   whether it has found the deque empty,
  count_,      \*   its operations in this phase,
  found,       \*   the last count it has found for each thread,
  inserting,   \*   and the next UID it pushes
  phaseCount,  \* the operations of all threads in a phase
  done,        \* thread 0 has found the time up
  failed       \* a thread has found a wrong order

vars == <<contents, pc, arrived, phase, empty, count_, found, inserting, phaseCount,
          done, failed>>
locals == <<phase, empty, count_, found, inserting>>

Init ==
  /\ contents = <<>>
  /\ pc = [t \in Tids |-> "loop"]
  /\ arrived = {}
  /\ phase = [t \in Tids |-> 0]
  /\ empty = [t \in Tids |-> TRUE]
  /\ count_ = [t \in Tids |-> opsPerPhase]
  /\ found = [t \in Tids |-> [i \in Tids |-> 0]]
  /\ inserting = [t \in Tids |-> initial(t)]
  /\ phaseCount = 0
  /\ done = FALSE
  /\ failed = FALSE

Goto(t, l) == pc' = [pc EXCEPT ![t] = l]

Pushing(t) == phase[t] % 2 = 1

PhaseOver(t) == IF Pushing(t) THEN count_[t] >= opsPerPhase ELSE empty[t]

\* The thread is through with its phase.
EndPhase(t) ==
  /\ pc[t] = "loop" /\ PhaseOver(t)
  /\ found' = [found EXCEPT ![t] = [i \in Tids |-> 0]]
  /\ Goto(t, "b1")
  /\ UNCHANGED <<contents, arrived, phase, empty, count_, inserting, phaseCount, done, failed>>

\* A push; a thread whose UIDs are used up leaves the loop there and then.
PushRight(t) ==
  /\ pc[t] = "loop" /\ ~PhaseOver(t) /\ Pushing(t)
  /\ contents' = Append(contents, inserting[t])
  /\ inserting' = [inserting EXCEPT ![t] = next(@)]
  /\ IF inserting'[t] = 0
       THEN Goto(t, "left") /\ UNCHANGED <<empty, count_>>
       ELSE /\ empty' = [empty EXCEPT ![t] = FALSE]
            /\ count_' = [count_ EXCEPT ![t] = @ + 1]
            /\ UNCHANGED pc
  /\ UNCHANGED <<arrived, phase, found, phaseCount, done, failed>>

PopEmpty(t) ==
  /\ pc[t] = "loop" /\ ~PhaseOver(t) /\ ~Pushing(t) /\ contents = <<>>
  /\ empty' = [empty EXCEPT ![t] = TRUE]
  /\ UNCHANGED <<contents, pc, arrived, phase, count_, found, inserting, phaseCount, done,
                 failed>>

PopRight(t) ==
  /\ pc[t] = "loop" /\ ~PhaseOver(t) /\ ~Pushing(t) /\ contents # <<>>
  /\ LET removed == contents[Len(contents)] cnt == count(removed) last == found[t][id(removed)] IN
       IF last # 0 /\ cnt >= last
         THEN failed' = TRUE /\ UNCHANGED found
         ELSE found' = [found EXCEPT ![t][id(removed)] = cnt] /\ UNCHANGED failed
  /\ contents' = SubSeq(contents, 1, Len(contents) - 1)
  /\ count_' = [count_ EXCEPT ![t] = @ + 1]
  /\ UNCHANGED <<pc, arrived, phase, empty, inserting, phaseCount, done>>

-----------------------------------------------------------------------------
\* Where a thread goes on after each barrier.
After == [b1 |-> "add", b2 |-> "report", b3 |-> "check", b4 |-> "loop"]

\* Mutant of Barrier: the third barrier is missing.
BarrierNot3(t) ==
  \/ /\ pc[t] = "b3" /\ Goto(t, "check")
     /\ UNCHANGED <<contents, locals, arrived, phaseCount, done, failed>>
  \/ /\ pc[t] \in {"b1", "b2", "b4"} /\ t \notin arrived
     /\ IF Cardinality(arrived) = taskNum - 1
          THEN arrived' = {} /\ pc' = [u \in Tids |-> IF u \in arrived \cup {t} THEN After[pc[u]] ELSE pc[u]]
          ELSE arrived' = arrived \cup {t} /\ UNCHANGED pc
     /\ UNCHANGED <<contents, locals, phaseCount, done, failed>>

\* pthread_barrier_wait: the last of taskNum threads releases all.
Barrier(t) ==
  /\ pc[t] \in DOMAIN After /\ t \notin arrived
  /\ IF Cardinality(arrived) = taskNum - 1
       THEN arrived' = {} /\ pc' = [u \in Tids |-> IF u \in arrived \cup {t} THEN After[pc[u]] ELSE pc[u]]
       ELSE arrived' = arrived \cup {t} /\ UNCHANGED pc
  /\ UNCHANGED <<contents, locals, phaseCount, done, failed>>

Add(t) ==
  /\ pc[t] = "add"
  /\ phaseCount' = phaseCount + count_[t]
  /\ Goto(t, "b2")
  /\ UNCHANGED <<contents, arrived, locals, done, failed>>

\* Thread 0 reports, resets the count and decides whether to stop.
Report(t) ==
  /\ pc[t] = "report"
  /\ IF t = 0
       THEN /\ phaseCount' = 0
            /\ \E up \in BOOLEAN : (phase[0] >= MaxPhase => up) /\ done' = (empty[0] /\ up)
       ELSE UNCHANGED <<phaseCount, done>>
  /\ count_' = [count_ EXCEPT ![t] = 0]
  /\ phase' = [phase EXCEPT ![t] = @ + 1]
  /\ Goto(t, "b3")
  /\ UNCHANGED <<contents, arrived, empty, found, inserting, failed>>

Check(t) ==
  /\ pc[t] = "check"
  /\ Goto(t, IF done THEN "left" ELSE "b4")
  /\ UNCHANGED <<contents, arrived, locals, phaseCount, done, failed>>

Step(t) == \/ EndPhase(t) \/ PushRight(t) \/ PopEmpty(t) \/ PopRight(t)
           \/ Barrier(t) \/ Add(t) \/ Report(t) \/ Check(t)

Next == \E t \in Tids : Step(t)

Spec == Init /\ [][Next]_vars
-----------------------------------------------------------------------------
\* Type invariant.
TypeOK ==
  /\ contents \in Seq(1 .. UINT_MAX)
  /\ pc \in [Tids -> {"loop", "b1", "add", "b2", "report", "b3", "check", "b4", "left"}]
  /\ arrived \subseteq Tids
  /\ phase \in [Tids -> 0 .. MaxPhase + 2]
  /\ empty \in [Tids -> BOOLEAN]
  /\ count_ \in [Tids -> 0 .. taskNum * opsPerPhase]
  /\ found \in [Tids -> [Tids -> 0 .. UINT_MAX]]
  /\ inserting \in [Tids -> 0 .. UINT_MAX]
  /\ phaseCount \in 0 .. taskNum * opsPerPhase
  /\ done \in BOOLEAN /\ failed \in BOOLEAN

\* No false alarm: a deque that is a stack when it is used as one passes.
NoFalseAlarm == ~failed

\* What the assertion commented out at Tests.cpp:246 says: in every phase the threads
\* together have done opsPerPhase operations each, so no value was lost or doubled
\* and nobody was still at work when thread 0 counted.
PhaseCountRight == pc[0] = "report" => phaseCount = taskNum * opsPerPhase

\* No thread pushes while another one still pops: LIFO order can only be judged then.
PhasesApart == \A t, u \in Tids :
  pc[t] = "loop" /\ pc[u] = "loop" => phase[t] = phase[u]

\* The threads leave the test together, unless one has used up its UIDs: nobody is
\* left waiting at a barrier for a thread that is gone.
LeaveTogether == \A t, u \in Tids :
  pc[t] = "left" /\ inserting[t] # 0 => pc[u] \in {"check", "left"} /\ done
=============================================================================
