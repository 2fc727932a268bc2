------------------------ MODULE DynDistributedQueue ------------------------
(***************************************************************************)
(* DynamicDistributedQueue (scal-master/src/datastructures/                *)
(* dyn_distributed_queue.h): a pool with an MSQueue for every thread that  *)
(* puts.  A thread announces its node under a lock; the node of a thread   *)
(* that has terminated is taken out again, by whoever finds it empty.      *)
(* put is Push("R"), get is Pop("L").                                      *)
(*                                                                         *)
(* p_, ds_state_, alive and the array backends_ are plain variables which  *)
(* get and Terminate read without the lock: every access to one of them is *)
(* a step, in the order of the source.                                     *)
(***************************************************************************)
EXTENDS MSQueue, DequeHistory

CONSTANTS
  MaxNodes,  \* max_nodes_
  Announced  \* the sequence of threads that have announced a node at the start

DynDistributedQueueAssumption ==
  /\ Queues = 1 .. Cardinality(Queues) /\ MaxNodes \in Nat \ {0}
  /\ Announced \in Seq(Threads) /\ Len(Announced) < MaxNodes

Slots == 0 .. MaxNodes - 1
NoNode == 0  \* NULL, for a ProducerNode; the others are named after their MSQueue

VARIABLES
  backends_, p_, ds_state_, segment_lock_,
  alive,    \* of every node
  created,  \* how many nodes have been made
  local,    \* the node in the ThreadContext of each thread
  op, item, \* the operation each thread has called last, what its get will return
  loc       \* local variables

nodes == <<backends_, p_, ds_state_>>
control == <<history, op, item>>
vars == <<queueVars, pc, nodes, segment_lock_, alive, created, local, control, loc>>

Terminate == [kind |-> "terminate", side |-> "L", val |-> Empty]
PoolOperations == Operations \cup {Terminate}

NoLocals == [i |-> 0, len |-> 0, start |-> 0, old_ds_state |-> 0, tails |-> [i \in Slots |-> -1],
             node |-> NoNode, index |-> 0,
             then |-> "none"]  \* where to go on after CleanupThread

Init ==
  /\ QueueInit /\ HistoryInit
  /\ pc = [t \in Threads |-> "idle"]
  /\ backends_ = [i \in Slots |-> IF i < Len(Announced) THEN i + 1 ELSE NoNode]
  /\ p_ = Len(Announced) /\ ds_state_ = p_ /\ created = p_
  /\ segment_lock_ = FALSE
  /\ alive = [q \in Queues |-> TRUE]
  /\ local = [t \in Threads |-> IF \E i \in DOMAIN Announced : Announced[i] = t
                                THEN CHOOSE i \in DOMAIN Announced : Announced[i] = t ELSE NoNode]
  /\ op = [t \in Threads |-> Pop("L")]
  /\ item = [t \in Threads |-> Empty]
  /\ loc = [t \in Threads |-> NoLocals]
-----------------------------------------------------------------------------
\* GetLocalNode: a thread that has no node yet makes one and announces it.
put(t, o) ==
  /\ pc[t] = "idle" /\ o.kind = "push"
  /\ op' = [op EXCEPT ![t] = o]
  /\ Called(t)
  /\ IF local[t] # NoNode
       THEN StartEnqueue(t, local[t], o.val, "return") /\ UNCHANGED <<created, local, loc>>
       ELSE /\ created' = created + 1
            /\ local' = [local EXCEPT ![t] = created']
            /\ loc' = [loc EXCEPT ![t].node = created']
            /\ Goto(t, "announce")
            /\ UNCHANGED queueVars
  /\ UNCHANGED <<nodes, segment_lock_, alive, item>>

Acquire(t) ==
  /\ pc[t] \in {"announce", "clean"} /\ ~segment_lock_
  /\ segment_lock_' = TRUE
  /\ Goto(t, IF pc[t] = "clean" THEN "cleanup" ELSE IF p_ + 1 = MaxNodes THEN "recover" ELSE "slot")
  /\ UNCHANGED <<queueVars, nodes, alive, created, local, control, loc>>

\* Nodes of terminated threads are taken out when the array is full; if none can be the
\* program aborts.
Recover(t) ==
  LET l == loc[t]
      n == backends_[l.i]
  IN
  /\ \/ /\ pc[t] = "recover" /\ l.i < p_ /\ ~alive[n]
        /\ StartEmpty(t, n, "recover empty")
        /\ UNCHANGED loc
     \/ /\ pc[t] = "recover" /\ l.i < p_ /\ alive[n]
        /\ loc' = [loc EXCEPT ![t].i = @ + 1]
        /\ UNCHANGED <<queueVars, pc>>
     \/ /\ pc[t] = "recover" /\ l.i >= p_
        /\ Goto(t, IF p_ + 1 = MaxNodes THEN "abort" ELSE "slot")
        /\ UNCHANGED <<queueVars, loc>>
     \/ /\ pc[t] = "recover empty"
        /\ loc' = [loc EXCEPT ![t].i = @ + 1, ![t].index = l.i, ![t].then = "recover"]
        /\ Goto(t, IF NoItem(t) THEN "cleanup" ELSE "recover")
        /\ UNCHANGED queueVars
  /\ UNCHANGED <<nodes, segment_lock_, alive, created, local, control>>

\* Mutant of Announce: p_ is increased first.
AnnounceCounted(t) ==
  /\ \/ /\ pc[t] = "slot"
        /\ p_' = p_ + 1
        /\ Goto(t, "grow")
        /\ UNCHANGED <<backends_, ds_state_>>
     \/ /\ pc[t] = "grow"
        /\ backends_' = [backends_ EXCEPT ![p_] = loc[t].node]
        /\ Goto(t, "announced")
        /\ UNCHANGED <<p_, ds_state_>>
     \/ /\ pc[t] = "announced"
        /\ ds_state_' = ds_state_ + 1
        /\ Goto(t, "unlock")
        /\ UNCHANGED <<backends_, p_>>
  /\ UNCHANGED <<queueVars, segment_lock_, alive, created, local, control, loc>>

Announce(t) ==
  /\ \/ /\ pc[t] = "slot"
        /\ backends_' = [backends_ EXCEPT ![p_] = loc[t].node]
        /\ Goto(t, "grow")
        /\ UNCHANGED <<p_, ds_state_>>
     \/ /\ pc[t] = "grow"
        /\ p_' = p_ + 1
        /\ Goto(t, "announced")
        /\ UNCHANGED <<backends_, ds_state_>>
     \/ /\ pc[t] = "announced"
        /\ ds_state_' = ds_state_ + 1
        /\ Goto(t, "unlock")
        /\ UNCHANGED <<backends_, p_>>
  /\ UNCHANGED <<queueVars, segment_lock_, alive, created, local, control, loc>>

AnnounceThread(t) == op[t].kind = "push" /\ (Acquire(t) \/ Recover(t) \/ Announce(t))

\* CleanupThreadUnlocked: an empty node of a terminated thread is replaced by the last one.
Cleanup(t) ==
  LET l == loc[t]
      n == backends_[l.index]
      done == IF l.then = "recover" THEN "recover" ELSE "unlock"
  IN
  /\ \/ /\ pc[t] = "cleanup"
        /\ IF n = NoNode \/ alive[n] THEN Goto(t, done) /\ UNCHANGED queueVars
                                     ELSE StartEmpty(t, n, "cleanup empty")
        /\ UNCHANGED nodes
     \/ /\ pc[t] = "cleanup empty"
        /\ Goto(t, IF NoItem(t) THEN "move" ELSE done)
        /\ UNCHANGED <<queueVars, nodes>>
     \/ /\ pc[t] = "move"
        /\ backends_' = [backends_ EXCEPT ![l.index] = backends_[p_ - 1]]
        /\ Goto(t, "clear")
        /\ UNCHANGED <<queueVars, p_, ds_state_>>
     \/ /\ pc[t] = "clear"
        /\ backends_' = [backends_ EXCEPT ![p_ - 1] = NoNode]
        /\ Goto(t, "shrink")
        /\ UNCHANGED <<queueVars, p_, ds_state_>>
     \/ /\ pc[t] = "shrink"
        /\ p_' = p_ - 1
        /\ Goto(t, "cleaned")
        /\ UNCHANGED <<queueVars, backends_, ds_state_>>
     \/ /\ pc[t] = "cleaned"
        /\ ds_state_' = ds_state_ + 1
        /\ Goto(t, done)
        /\ UNCHANGED <<queueVars, backends_, p_>>
  /\ UNCHANGED <<segment_lock_, alive, created, local, control, loc>>

\* The lock is released: a put goes on with its enqueue, the others where they were.
Release(t) ==
  /\ pc[t] = "unlock"
  /\ segment_lock_' = FALSE
  /\ loc' = [loc EXCEPT ![t] = NoLocals]
  /\ IF op[t].kind = "push"
       THEN StartEnqueue(t, loc[t].node, op[t].val, "return")
       ELSE Goto(t, loc[t].then) /\ UNCHANGED queueVars
  /\ UNCHANGED <<nodes, alive, created, local, control>>
-----------------------------------------------------------------------------
\* get: the thread's own queue first.
get(t, o) ==
  /\ pc[t] = "idle" /\ o.kind = "pop"
  /\ op' = [op EXCEPT ![t] = o]
  /\ Called(t)
  /\ IF local[t] # NoNode THEN StartDequeue(t, local[t], "local") ELSE Goto(t, "len") /\ UNCHANGED queueVars
  /\ UNCHANGED <<nodes, segment_lock_, alive, created, local, item, loc>>

Local(t) ==
  /\ pc[t] = "local"
  /\ item' = [item EXCEPT ![t] = Item(t)]
  /\ Goto(t, IF Item(t) # Empty THEN "return" ELSE "len")
  /\ UNCHANGED <<queueVars, nodes, segment_lock_, alive, created, local, history, op, loc>>

LoadLen(t) ==
  /\ pc[t] = "len"
  /\ loc' = [loc EXCEPT ![t].len = p_]
  /\ Goto(t, IF p_ = 0 THEN "return" ELSE "start")
  /\ UNCHANGED <<queueVars, nodes, segment_lock_, alive, created, local, control>>

\* A random start, then the state of the array.
LoadState(t) ==
  /\ pc[t] = "start"
  /\ \E s \in 0 .. loc[t].len - 1 :
       loc' = [loc EXCEPT ![t] = [NoLocals EXCEPT !.len = loc[t].len, !.start = s, !.old_ds_state = ds_state_]]
  /\ Goto(t, "try")
  /\ UNCHANGED <<queueVars, nodes, segment_lock_, alive, created, local, control>>

Index(l) == (l.start + l.i) % l.len

\* On to the next queue with the locals l, or after the last one to the label last.
NextQueue(t, l, loop, last) ==
  /\ loc' = [loc EXCEPT ![t] = [l EXCEPT !.i = IF l.i + 1 < l.len THEN l.i + 1 ELSE 0, !.node = NoNode]]
  /\ Goto(t, IF l.i + 1 < l.len THEN loop ELSE last)

Try(t) ==
  LET n == backends_[Index(loc[t])] IN
  /\ pc[t] = "try"
  /\ IF n = NoNode
       THEN NextQueue(t, loc[t], "try", "same state") /\ UNCHANGED queueVars
       ELSE StartDequeue(t, n, "tried") /\ loc' = [loc EXCEPT ![t].node = n]
  /\ UNCHANGED <<nodes, segment_lock_, alive, created, local, control>>

\* An item has been found, or the node is empty and dead, or empty.
Tried(t) ==
  LET l == loc[t] IN
  /\ pc[t] = "tried"
  /\ item' = [item EXCEPT ![t] = Item(t)]
  /\ \/ Item(t) # Empty /\ Goto(t, "return") /\ UNCHANGED loc
     \/ /\ Item(t) = Empty /\ ~alive[l.node]
        /\ loc' = [loc EXCEPT ![t].index = Index(l), ![t].then = "len"]
        /\ Goto(t, "clean")
     \/ /\ Item(t) = Empty /\ alive[l.node]
        /\ NextQueue(t, [l EXCEPT !.tails[l.i] = PutState(t)], "try", "same state")
  /\ UNCHANGED <<queueVars, nodes, segment_lock_, alive, created, local, history, op>>

SameState(t) ==
  /\ pc[t] = "same state"
  /\ Goto(t, IF loc[t].old_ds_state # ds_state_ THEN "len" ELSE "compare")
  /\ UNCHANGED <<queueVars, nodes, segment_lock_, alive, created, local, control, loc>>

\* put_state of every node is compared with tails[i], which was not written if there was no
\* node in the slot: then both outcomes are possible.
Compare(t) ==
  LET l == loc[t]
      n == backends_[Index(l)]
  IN
  /\ \/ /\ pc[t] = "compare" /\ n = NoNode
        /\ NextQueue(t, l, "compare", "return")
     \/ /\ pc[t] = "compare" /\ n # NoNode
        /\ loc' = [loc EXCEPT ![t].node = n]
        /\ Goto(t, "put state")
     \/ /\ pc[t] = "put state" /\ l.tails[l.i] # put_state(l.node)
        /\ Goto(t, "len") /\ UNCHANGED loc
     \/ /\ pc[t] = "put state" /\ l.tails[l.i] \in {put_state(l.node), -1}
        /\ NextQueue(t, l, "compare", "return")
  /\ UNCHANGED <<queueVars, nodes, segment_lock_, alive, created, local, control>>

CleanupThread(t) == op[t].kind # "push" /\ Acquire(t)
-----------------------------------------------------------------------------
\* Terminate: the thread gives its node up; it is taken out at once if it is empty.
terminate(t, o) ==
  /\ pc[t] = "idle" /\ o.kind = "terminate" /\ local[t] # NoNode
  /\ op' = [op EXCEPT ![t] = o]
  /\ local' = [local EXCEPT ![t] = NoNode]
  /\ loc' = [loc EXCEPT ![t].node = local[t]]
  /\ Goto(t, "dead")
  /\ UNCHANGED <<queueVars, nodes, segment_lock_, alive, created, history, item>>

GiveUp(t) ==
  LET l == loc[t]
      Leave_ == Goto(t, "idle") /\ loc' = [loc EXCEPT ![t] = NoLocals]
  IN
  /\ \/ /\ pc[t] = "dead"
        /\ alive' = [alive EXCEPT ![l.node] = FALSE]
        /\ StartEmpty(t, l.node, "given up")
        /\ UNCHANGED loc
     \/ /\ pc[t] = "given up"
        /\ IF NoItem(t) THEN Goto(t, "search") /\ UNCHANGED loc ELSE Leave_
        /\ UNCHANGED <<queueVars, alive>>
     \/ /\ pc[t] = "search" /\ l.i < p_
        /\ IF backends_[l.i] = l.node
             THEN loc' = [loc EXCEPT ![t].index = l.i, ![t].then = "idle"] /\ Goto(t, "clean")
             ELSE loc' = [loc EXCEPT ![t].i = @ + 1] /\ UNCHANGED pc
        /\ UNCHANGED <<queueVars, alive>>
     \/ /\ pc[t] = "search" /\ l.i >= p_
        /\ Leave_
        /\ UNCHANGED <<queueVars, alive>>
  /\ UNCHANGED <<nodes, segment_lock_, created, local, control>>

Return(t) ==
  /\ pc[t] = "return"
  /\ Goto(t, "idle")
  /\ Returned(t, op[t], item[t])
  /\ item' = [item EXCEPT ![t] = Empty]
  /\ loc' = [loc EXCEPT ![t] = NoLocals]
  /\ frame' = [frame EXCEPT ![t] = NoFrame]
  /\ UNCHANGED <<head_, tail_, next, value, made, nodes, segment_lock_, alive, created, local, op>>

Call(t, o) == put(t, o) \/ get(t, o) \/ terminate(t, o)

Step(t) ==
  \/ QueueStep(t) /\ UNCHANGED <<nodes, segment_lock_, alive, created, local, control, loc>>
  \/ AnnounceThread(t) \/ CleanupThread(t) \/ Cleanup(t) \/ Release(t)
  \/ Local(t) \/ LoadLen(t) \/ LoadState(t) \/ Try(t) \/ Tried(t) \/ SameState(t) \/ Compare(t)
  \/ GiveUp(t) \/ Return(t)
-----------------------------------------------------------------------------
\* Type invariant.
TypeOK ==
  /\ QueueTypeOK
  /\ backends_ \in [Slots -> Queues \cup {NoNode}]
  /\ p_ \in 0 .. MaxNodes - 1 /\ ds_state_ \in Nat /\ segment_lock_ \in BOOLEAN
  /\ alive \in [Queues -> BOOLEAN] /\ created \in 0 .. Cardinality(Queues)
  /\ local \in [Threads -> Queues \cup {NoNode}]
  /\ op \in [Threads -> PoolOperations] /\ item \in [Threads -> Values \cup {Empty}]
  /\ \A t \in Threads : loc[t].i \in 0 .. MaxNodes /\ loc[t].index \in Slots

Announced_ == { backends_[i] : i \in 0 .. p_ - 1 }

\* Whenever the lock is free the first p_ slots hold a node each, no two the same, and the
\* others none: what a get goes through is all there is.
SlotsDense == ~segment_lock_ =>
  /\ \A i \in Slots : (backends_[i] # NoNode) <=> (i < p_)
  /\ Cardinality(Announced_) = p_

\* An item is never left in a node that has been taken out: when the lock is free every
\* queue that holds something is found through the array.
NothingLost == ~segment_lock_ =>
  \A q \in Queues : Contents(q) # <<>> => q \in Announced_

Quiet == \A t \in Threads : pc[t] = "idle"

\* A get says that the pool is empty only if there was a moment when it was.
EmptyWhenEmpty == Quiet => EmptyExplained
=============================================================================
