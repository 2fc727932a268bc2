------------------------------ MODULE FCDeque ------------------------------
(***************************************************************************)
(* FCDeque<T> (src/deque/FCDeque.hpp), flat combining: a thread publishes  *)
(* its request and waits until it is complete; whoever finds the lock free *)
(* takes it and serves the requests of all threads on a sequential deque,  *)
(* pushes as it meets them, then the left pops, then the right pops.       *)
(*                                                                         *)
(* One action per access to a shared word.  The deque is touched by the    *)
(* holder of the lock only; a push is served in one action with the load   *)
(* of the request, which does not change while it waits.                   *)
(***************************************************************************)
EXTENDS DequeOps

CONSTANT m_nThreadCount

ASSUME FCDequeAssumption ==
  m_nThreadCount \in Nat \ {0} /\ Threads = 0 .. m_nThreadCount - 1

VARIABLES
  m_deque,   \* the sequential deque
  m_nLock,   \* the lock
  requests,  \* m_pThreadRequests: value and status per thread
  pc,        \* where each thread is
  loc,       \* its locals while it combines: the loop index and the two lists of pops
  op         \* the operation each thread has called last

vars == <<m_deque, m_nLock, requests, pc, loc, op>>

-----------------------------------------------------------------------------
Statuses == {"LEFT_PUSH", "RIGHT_PUSH", "LEFT_POP", "RIGHT_POP", "COMPLETE"}

NoLocals == [i |-> 0, leftPoppers |-> <<>>, rightPoppers |-> <<>>]

Init ==
  /\ m_deque = <<>>
  /\ m_nLock = 0
  /\ requests = [t \in Threads |-> [value |-> Empty, status |-> "COMPLETE"]]
  /\ pc = [t \in Threads |-> "idle"]
  /\ loc = [t \in Threads |-> NoLocals]
  /\ op = [t \in Threads |-> Pop("L")]

Goto(t, l) == pc' = [pc EXCEPT ![t] = l]
Complete(t) == requests[t].status = "COMPLETE"

\* The request an operation publishes: a pop leaves the value of the last one.
Published(o, old) ==
  IF o.kind = "push"
    THEN [value |-> o.val, status |-> IF o.side = "L" THEN "LEFT_PUSH" ELSE "RIGHT_PUSH"]
    ELSE [value |-> old, status |-> IF o.side = "L" THEN "LEFT_POP" ELSE "RIGHT_POP"]

\* left_push, right_push, left_pop and right_pop are called.
Call(t, o) ==
  /\ pc[t] = "idle"
  /\ op' = [op EXCEPT ![t] = o]
  /\ requests' = [requests EXCEPT ![t] = Published(o, @.value)]
  /\ Goto(t, "wait")
  /\ UNCHANGED <<m_deque, m_nLock, loc>>

\* The loop of the waiting thread: is the request complete?
Wait(t) ==
  /\ pc[t] = "wait"
  /\ Goto(t, IF Complete(t) THEN "return" ELSE "look")
  /\ UNCHANGED <<m_deque, m_nLock, requests, loc, op>>

IsLocked(t) ==
  /\ pc[t] = "look"
  /\ Goto(t, IF m_nLock # 0 THEN "wait" ELSE "lock")
  /\ UNCHANGED <<m_deque, m_nLock, requests, loc, op>>

\* Mutant of TryLock: the old value of the lock is ignored.
TryLockAlways(t) ==
  /\ pc[t] = "lock"
  /\ m_nLock' = 1
  /\ Goto(t, "combine")
  /\ loc' = [loc EXCEPT ![t] = NoLocals]
  /\ UNCHANGED <<m_deque, requests, op>>

TryLock(t) ==
  /\ pc[t] = "lock"
  /\ m_nLock' = 1
  /\ Goto(t, IF m_nLock = 0 THEN "combine" ELSE "wait")
  /\ loc' = [loc EXCEPT ![t] = NoLocals]
  /\ UNCHANGED <<m_deque, requests, op>>

\* A request is completed with the value v.
Answer(u, v) == requests' = [requests EXCEPT ![u] = [value |-> v, status |-> "COMPLETE"]]

\* The loop of stage one goes on.
NextRequest(t, left, right) ==
  loc' = [loc EXCEPT ![t] = [i |-> @.i + 1, leftPoppers |-> left, rightPoppers |-> right]]

CombinePush(t, u) ==
  /\ requests[u].status \in {"LEFT_PUSH", "RIGHT_PUSH"}
  /\ m_deque' = IF requests[u].status = "LEFT_PUSH"
                  THEN <<requests[u].value>> \o m_deque
                  ELSE Append(m_deque, requests[u].value)
  /\ Answer(u, requests[u].value)
  /\ NextRequest(t, loc[t].leftPoppers, loc[t].rightPoppers)

CombinePop(t, u) ==
  /\ requests[u].status \in {"LEFT_POP", "RIGHT_POP"}
  /\ IF requests[u].status = "LEFT_POP"
       THEN NextRequest(t, Append(loc[t].leftPoppers, u), loc[t].rightPoppers)
       ELSE NextRequest(t, loc[t].leftPoppers, Append(loc[t].rightPoppers, u))
  /\ UNCHANGED <<m_deque, requests>>

CombineNone(t, u) ==
  /\ Complete(u)
  /\ NextRequest(t, loc[t].leftPoppers, loc[t].rightPoppers)
  /\ UNCHANGED <<m_deque, requests>>

\* Mutant of LastRequest: the loop ends one request early.
LastRequestEarly == m_nThreadCount - 2

LastRequest == m_nThreadCount - 1

\* Stage one of doCombining.  The loop over rounds is left after the first: the scan has
\* passed the combiner's own request.
Combine(t) ==
  /\ pc[t] = "combine" /\ loc[t].i <= LastRequest
  /\ CombinePush(t, loc[t].i) \/ CombinePop(t, loc[t].i) \/ CombineNone(t, loc[t].i)
  /\ UNCHANGED <<m_nLock, pc, op>>

\* Stage two, left: the first of the left pops takes the front, or EMPTY.
ServeLeft(t) ==
  LET q == loc[t].leftPoppers IN
  /\ pc[t] = "combine" /\ loc[t].i > LastRequest
  /\ q # <<>>
  /\ IF m_deque # <<>>
       THEN Answer(Head(q), Head(m_deque)) /\ m_deque' = Tail(m_deque)
       ELSE Answer(Head(q), Empty) /\ UNCHANGED m_deque
  /\ loc' = [loc EXCEPT ![t].leftPoppers = Tail(q)]
  /\ UNCHANGED <<m_nLock, pc, op>>

\* Mutant of ServeRight: a right pop is served at the front.
ServeRightAtFront(t) ==
  LET q == loc[t].rightPoppers IN
  /\ pc[t] = "combine" /\ loc[t].i > LastRequest
  /\ loc[t].leftPoppers = <<>> /\ q # <<>>
  /\ IF m_deque # <<>>
       THEN Answer(Head(q), Head(m_deque)) /\ m_deque' = Tail(m_deque)
       ELSE Answer(Head(q), Empty) /\ UNCHANGED m_deque
  /\ loc' = [loc EXCEPT ![t].rightPoppers = Tail(q)]
  /\ UNCHANGED <<m_nLock, pc, op>>

\* Stage two, right.
ServeRight(t) ==
  LET q == loc[t].rightPoppers IN
  /\ pc[t] = "combine" /\ loc[t].i > LastRequest
  /\ loc[t].leftPoppers = <<>> /\ q # <<>>
  /\ IF m_deque # <<>>
       THEN /\ Answer(Head(q), m_deque[Len(m_deque)])
            /\ m_deque' = SubSeq(m_deque, 1, Len(m_deque) - 1)
       ELSE Answer(Head(q), Empty) /\ UNCHANGED m_deque
  /\ loc' = [loc EXCEPT ![t].rightPoppers = Tail(q)]
  /\ UNCHANGED <<m_nLock, pc, op>>

Unlock(t) ==
  /\ pc[t] = "combine" /\ loc[t].i > LastRequest
  /\ loc[t].leftPoppers = <<>> /\ loc[t].rightPoppers = <<>>
  /\ m_nLock' = 0
  /\ Goto(t, "wait")
  /\ loc' = [loc EXCEPT ![t] = NoLocals]
  /\ UNCHANGED <<m_deque, requests, op>>

Return(t) ==
  /\ pc[t] = "return"
  /\ Goto(t, "idle")
  /\ UNCHANGED <<m_deque, m_nLock, requests, loc, op>>

Step(t) ==
  \/ Wait(t) \/ IsLocked(t) \/ TryLock(t) \/ Combine(t) \/ ServeLeft(t) \/ ServeRight(t)
  \/ Unlock(t) \/ Return(t)

Next == \E t \in Threads : Step(t) \/ \E o \in Operations : Call(t, o)

Spec == Init /\ [][Next]_vars
-----------------------------------------------------------------------------
\* The variables have their types.
TypeOK ==
  /\ m_deque \in Seq(Values)
  /\ m_nLock \in {0, 1}
  /\ requests \in [Threads -> [value : Values \cup {Empty}, status : Statuses]]
  /\ pc \in [Threads -> {"idle", "wait", "look", "lock", "combine", "return"}]
  /\ loc \in [Threads -> [i : Nat, leftPoppers : Seq(Threads), rightPoppers : Seq(Threads)]]
  /\ op \in [Threads -> Operations]

\* What the combiner has noted holds when it serves it: there is one combiner, the pops it
\* has in its lists are waiting pops of that side, and none is there twice.
NotedPopsWait ==
  \A t \in Threads : pc[t] = "combine" =>
    /\ m_nLock = 1
    /\ \A u \in Threads : pc[u] = "combine" => u = t
    /\ LET l == loc[t].leftPoppers r == loc[t].rightPoppers IN
       /\ \A k \in DOMAIN l : requests[l[k]].status = "LEFT_POP"
       /\ \A k \in DOMAIN r : requests[r[k]].status = "RIGHT_POP"
       /\ \A k \in DOMAIN l, j \in DOMAIN l : l[k] = l[j] => k = j
       /\ \A k \in DOMAIN r, j \in DOMAIN r : r[k] = r[j] => k = j
       /\ \A k \in DOMAIN l : l[k] < loc[t].i
       /\ \A k \in DOMAIN r : r[k] < loc[t].i

\* Every operation returns: a request the combiner has passed by is served by another
\* combiner, or by the thread itself.
Answered == \A t \in Threads : pc[t] # "idle" ~> pc[t] = "idle"
-----------------------------------------------------------------------------
(* FCDeque implements DequeSpec: an operation takes effect when a combiner  *)
(* serves it.  sawEmpty is the history variable of DequeSpec.               *)

VARIABLE sawEmpty

Status == [t \in Threads |-> IF pc[t] = "idle" THEN "idle"
                             ELSE IF Complete(t) THEN "done" ELSE "pending"]

Reply == [t \in Threads |-> IF Status[t] = "done" THEN requests[t].value ELSE Empty]

PendingPops == { t \in Threads : Status[t] = "pending" /\ op[t].kind = "pop" }

LinInit == Init /\ sawEmpty = {}

WatchEmpty ==
  sawEmpty' = { t \in PendingPops' : t \in sawEmpty \/ m_deque' = <<>> }

LinNext == Next /\ WatchEmpty

linVars == <<vars, sawEmpty>>

LinSpec == LinInit /\ [][LinNext]_linVars

Abstract == INSTANCE DequeSpec
  WITH contents <- m_deque, status <- Status, request <- op, reply <- Reply

\* Every call takes effect once, between its call and its return, in an order in
\* which a sequential deque would give the same answers (RDeque's interface).
Linearizable == Abstract!Spec
=============================================================================
