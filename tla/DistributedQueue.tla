-------------------------- MODULE DistributedQueue --------------------------
(***************************************************************************)
(* DistributedQueue (scal-master/src/datastructures/distributed_queue.h):  *)
(* a pool over several MSQueues.  A balancer chooses the queue a put goes  *)
(* to and the queue a get starts at; a get that finds all queues empty     *)
(* makes sure that nothing was put meanwhile.  put is Push("R"), get is    *)
(* Pop("L").                                                               *)
(***************************************************************************)
EXTENDS MSQueue, DequeHistory

CONSTANTS
  LocalFirst,  \* built with GET_TRY_LOCAL_FIRST, over BalancerLocalLinearizability
  PutIds       \* the ids the balancer may give a thread that puts: Balancer1Random gives
               \* any, BalancerLocalLinearizability one to every thread

num_queues_ == Cardinality(Queues)

DistributedQueueAssumption ==
  /\ Queues = 1 .. num_queues_
  /\ PutIds \in [Threads -> SUBSET Queues] /\ LocalFirst \in BOOLEAN

VARIABLES
  op,   \* the operation each thread has called last
  item, \* what a get will return
  loc   \* local variables of get

vars == <<queueVars, pc, history, op, item, loc>>
control == <<history, op, item>>

NoLocals == [start |-> 1, i |-> 0, tails |-> [q \in Queues |-> 0]]

Init ==
  /\ QueueInit /\ HistoryInit
  /\ pc = [t \in Threads |-> "idle"]
  /\ op = [t \in Threads |-> Pop("L")]
  /\ item = [t \in Threads |-> Empty]
  /\ loc = [t \in Threads |-> NoLocals]

\* The i-th queue from start on.
Index(l) == ((l.start - 1 + l.i) % num_queues_) + 1
-----------------------------------------------------------------------------
\* Mutant of put: any queue.
putAnywhere(t, o) ==
  /\ pc[t] = "idle" /\ o.kind = "push"
  /\ op' = [op EXCEPT ![t] = o]
  /\ Called(t)
  /\ \E q \in Queues : StartEnqueue(t, q, o.val, "return")
  /\ UNCHANGED <<item, loc>>

put(t, o) ==
  /\ pc[t] = "idle" /\ o.kind = "push"
  /\ op' = [op EXCEPT ![t] = o]
  /\ Called(t)
  /\ \E q \in PutIds[t] : StartEnqueue(t, q, o.val, "return")
  /\ UNCHANGED <<item, loc>>

\* With GET_TRY_LOCAL_FIRST the thread's own queue is tried before the others.
get(t, o) ==
  /\ pc[t] = "idle" /\ o.kind = "pop"
  /\ op' = [op EXCEPT ![t] = o]
  /\ Called(t)
  /\ IF LocalFirst
       THEN \E q \in PutIds[t] : StartDequeue(t, q, "local")
       ELSE Goto(t, "start") /\ UNCHANGED queueVars
  /\ UNCHANGED <<item, loc>>

Local(t) ==
  /\ pc[t] = "local"
  /\ item' = [item EXCEPT ![t] = Item(t)]
  /\ Goto(t, IF Item(t) # Empty THEN "return" ELSE "start")
  /\ UNCHANGED <<queueVars, history, op, loc>>

Start(t) ==
  /\ pc[t] = "start"
  /\ \E q \in Queues : loc' = [loc EXCEPT ![t].start = q]
  /\ Goto(t, "try")
  /\ UNCHANGED <<queueVars, control>>

\* The first loop: get_return_put_state on every queue.
Try(t) ==
  /\ pc[t] = "try"
  /\ StartDequeue(t, Index(loc[t]), "tried")
  /\ UNCHANGED <<control, loc>>

Tried(t) ==
  LET l == loc[t] IN
  /\ pc[t] = "tried"
  /\ item' = [item EXCEPT ![t] = Item(t)]
  /\ \/ Item(t) # Empty /\ Goto(t, "return") /\ UNCHANGED loc
     \/ /\ Item(t) = Empty
        /\ loc' = [loc EXCEPT ![t].tails[Index(l)] = PutState(t), ![t].i = (@ + 1) % num_queues_]
        /\ Goto(t, IF l.i + 1 < num_queues_ THEN "try" ELSE "compare")
  /\ UNCHANGED <<queueVars, history, op>>

\* Mutant of Compare: the states are not compared (NON_LINEARIZABLE_EMPTY).
CompareNothing(t) ==
  /\ pc[t] = "compare"
  /\ Goto(t, "return")
  /\ UNCHANGED <<queueVars, control, loc>>

\* The second loop: put_state of every queue is still the same, or the get goes on from there.
Compare(t) ==
  LET l == loc[t]
      index == Index(l)
  IN
  /\ pc[t] = "compare"
  /\ \/ /\ put_state(index) # l.tails[index]
        /\ loc' = [loc EXCEPT ![t].start = index, ![t].i = 0]
        /\ Goto(t, "try")
     \/ /\ put_state(index) = l.tails[index]
        /\ loc' = [loc EXCEPT ![t].i = @ + 1]
        /\ Goto(t, IF l.i + 1 < num_queues_ THEN "compare" ELSE "return")
  /\ UNCHANGED <<queueVars, control>>

Return(t) ==
  /\ pc[t] = "return"
  /\ Goto(t, "idle")
  /\ Returned(t, op[t], item[t])
  /\ item' = [item EXCEPT ![t] = Empty]
  /\ loc' = [loc EXCEPT ![t] = NoLocals]
  /\ frame' = [frame EXCEPT ![t] = NoFrame]
  /\ UNCHANGED <<head_, tail_, next, value, made, op>>

Call(t, o) == put(t, o) \/ get(t, o)

Step(t) ==
  \/ QueueStep(t) /\ UNCHANGED <<control, loc>>
  \/ Local(t) \/ Start(t) \/ Try(t) \/ Tried(t) \/ Compare(t) \/ Return(t)
-----------------------------------------------------------------------------
\* Type invariant.
TypeOK ==
  /\ QueueTypeOK
  /\ op \in [Threads -> Operations]
  /\ item \in [Threads -> Values \cup {Empty}]
  /\ \A t \in Threads : loc[t].start \in Queues /\ loc[t].i \in 0 .. num_queues_

Quiet == \A t \in Threads : pc[t] = "idle"

\* A get says that the pool is empty only if there was a moment when it was, although the
\* queues are looked at one after the other.
EmptyWhenEmpty == Quiet => EmptyExplained

Finished == UNION { { <<t, k>> : k \in DOMAIN finished[t] } : t \in Threads }
Op(c) == finished[c[1]][c[2]].op
Reply(c) == finished[c[1]][c[2]].reply

\* What has been put has been got or is in one of the queues, once.
NothingLost == Quiet => \A v \in Values :
  LET put_ == { c \in Finished : Op(c).kind = "push" /\ Op(c).val = v }
      got  == { c \in Finished : Op(c).kind = "pop" /\ Reply(c) = v }
      held == UNION { { <<q, k>> : k \in { j \in DOMAIN Contents(q) : Contents(q)[j] = v } } : q \in Queues }
  IN Cardinality(put_) = Cardinality(got) + Cardinality(held)

\* Local linearizability: with a queue of its own for every thread, what one thread has put
\* is got in that order, by whichever threads.
LocallyOrdered == Quiet => \A c, d \in Finished :
  LET cBeforeD == finished[d[1]][d[2]].after[c[1]] >= c[2]
      putLater == \E a, b \in Finished : a[1] = b[1] /\ a[2] < b[2] /\ Op(a).kind = "push" /\ Op(b).kind = "push"
                                         /\ Op(a).val = Reply(d) /\ Op(b).val = Reply(c)
  IN Op(c).kind = "pop" /\ Op(d).kind = "pop" /\ cBeforeD => ~putLater
=============================================================================
