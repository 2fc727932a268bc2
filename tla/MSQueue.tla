------------------------------ MODULE MSQueue ------------------------------
(***************************************************************************)
(* MSQueue (scal-master/src/datastructures/ms_queue.h): queues of linked   *)
(* nodes after Michael and Scott.  The operations are written as           *)
(* procedures on one of several queues, which end at the label a thread    *)
(* has in back, so that the distributed queues can call them on their      *)
(* backends.                                                               *)
(*                                                                         *)
(* Nodes come from ThreadLocalMemory and are never freed.  try_enqueue and *)
(* try_dequeue have no caller.                                             *)
(***************************************************************************)
EXTENDS DequeOps, FiniteSets

CONSTANTS
  Queues,   \* the queues
  NumNodes  \* bound: nodes per thread

MSQueueAssumption == 0 \notin Threads \cup Queues /\ NumNodes \in Nat

\* Nodes are named after their thread; every queue starts with one of its own.
SentinelOf(q) == <<0, q>>
Node == (Threads \X (1 .. NumNodes)) \cup { SentinelOf(q) : q \in Queues }
Null == <<0, 0>>

\* TaggedValue: a pointer with a tag of 16 bits, compared and exchanged as one word.
TagRange == 65536
Tags == 0 .. TagRange - 1
NodePtr(node, tag) == [value |-> node, tag |-> tag % TagRange]

VARIABLES
  head_, tail_,  \* of every queue
  next,          \* next of every node
  value,         \* the value in every node
  made,          \* how many nodes each thread has made
  pc,            \* where each thread is
  frame          \* local variables of the procedures

queueVars == <<head_, tail_, next, value, made, frame>>

NoFrame == [q |-> 0, proc |-> "none", back |-> "none", node |-> Null,
            head_old |-> NodePtr(Null, 0), tail_old |-> NodePtr(Null, 0), next |-> NodePtr(Null, 0)]

QueueInit ==
  /\ head_ = [q \in Queues |-> NodePtr(SentinelOf(q), 0)]
  /\ tail_ = head_
  /\ next = [n \in Node |-> NodePtr(Null, 0)]
  /\ value = [n \in Node |-> Empty]
  /\ made = [t \in Threads |-> 0]
  /\ frame = [t \in Threads |-> NoFrame]

Goto(t, l) == pc' = [pc EXCEPT ![t] = l]

\* The procedure of t is left, with its locals; the caller takes what follows.
Leave(t) == Goto(t, frame[t].back)

\* enqueue(v) on queue q, with the new node; and the procedures that start at the head.
StartEnqueue(t, q, v, back) ==
  LET node == <<t, made[t] + 1>> IN
  /\ made' = [made EXCEPT ![t] = @ + 1]
  /\ value' = [value EXCEPT ![node] = v]
  /\ frame' = [frame EXCEPT ![t] = [NoFrame EXCEPT !.q = q, !.proc = "enqueue", !.back = back, !.node = node]]
  /\ Goto(t, "tail")
  /\ UNCHANGED <<head_, tail_, next>>

StartAtHead(t, proc, q, back) ==
  /\ frame' = [frame EXCEPT ![t] = [NoFrame EXCEPT !.q = q, !.proc = proc, !.back = back]]
  /\ Goto(t, "head")
  /\ UNCHANGED <<head_, tail_, next, value, made>>

StartDequeue(t, q, back) == StartAtHead(t, "dequeue", q, back)
StartEmpty(t, q, back) == StartAtHead(t, "empty", q, back)

put_state(q) == tail_[q].tag
-----------------------------------------------------------------------------
LoadHead(t) ==
  /\ pc[t] = "head"
  /\ frame' = [frame EXCEPT ![t].head_old = head_[frame[t].q]]
  /\ Goto(t, "tail")
  /\ UNCHANGED <<head_, tail_, next, value, made>>

LoadTail(t) ==
  /\ pc[t] = "tail"
  /\ frame' = [frame EXCEPT ![t].tail_old = tail_[frame[t].q]]
  /\ Goto(t, "next")
  /\ UNCHANGED <<head_, tail_, next, value, made>>

LoadNext(t) ==
  LET f == frame[t] IN
  /\ pc[t] = "next"
  /\ frame' = [frame EXCEPT ![t].next = next[(IF f.proc = "enqueue" THEN f.tail_old ELSE f.head_old).value]]
  /\ Goto(t, "check")
  /\ UNCHANGED <<head_, tail_, next, value, made>>

CheckTail(t) ==
  LET f == frame[t] IN
  /\ pc[t] = "check" /\ f.proc = "enqueue"
  /\ Goto(t, IF f.tail_old # tail_[f.q] THEN "tail" ELSE IF f.next.value = Null THEN "link" ELSE "help")
  /\ UNCHANGED queueVars

\* Mutant of Link: a store, not a swap.
LinkStore(t) ==
  LET f == frame[t] IN
  /\ pc[t] = "link"
  /\ next' = [next EXCEPT ![f.tail_old.value] = NodePtr(f.node, f.next.tag + 1)]
  /\ Goto(t, "swing")
  /\ UNCHANGED <<head_, tail_, value, made, frame>>

\* The node is appended behind the last one.
Link(t) ==
  LET f == frame[t]
      last == f.tail_old.value
  IN
  /\ pc[t] = "link"
  /\ IF next[last] = f.next
       THEN next' = [next EXCEPT ![last] = NodePtr(f.node, f.next.tag + 1)] /\ Goto(t, "swing")
       ELSE UNCHANGED next /\ Goto(t, "tail")
  /\ UNCHANGED <<head_, tail_, value, made, frame>>

\* tail_ is moved to the node n unless it has changed.
Advance(t, n) ==
  LET f == frame[t] IN
  tail_' = [tail_ EXCEPT ![f.q] = IF @ = f.tail_old THEN NodePtr(n, f.tail_old.tag + 1) ELSE @]

Swing(t) ==
  /\ pc[t] = "swing"
  /\ Advance(t, frame[t].node)
  /\ Leave(t)
  /\ UNCHANGED <<head_, next, value, made, frame>>

\* The tail is not the last node: it is moved on for the enqueue that left it behind.
Help(t) ==
  /\ pc[t] = "help"
  /\ Advance(t, frame[t].next.value)
  /\ Goto(t, IF frame[t].proc = "enqueue" THEN "tail" ELSE "head")
  /\ UNCHANGED <<head_, next, value, made, frame>>

\* Nothing has been found, or the queue is empty.
NoItem(t) == frame[t].next.value = Null /\ frame[t].head_old.value = frame[t].tail_old.value

CheckHead(t) ==
  LET f == frame[t] IN
  /\ pc[t] = "check" /\ f.proc # "enqueue"
  /\ IF f.head_old # head_[f.q] THEN Goto(t, "head")
     ELSE IF f.proc = "empty" \/ NoItem(t) THEN Leave(t)
     ELSE Goto(t, IF f.head_old.value = f.tail_old.value THEN "help" ELSE "remove")
  /\ UNCHANGED queueVars

\* The first node becomes the sentinel.
Remove(t) ==
  LET f == frame[t] IN
  /\ pc[t] = "remove"
  /\ IF head_[f.q] = f.head_old
       THEN head_' = [head_ EXCEPT ![f.q] = NodePtr(f.next.value, f.head_old.tag + 1)] /\ Leave(t)
       ELSE UNCHANGED head_ /\ Goto(t, "head")
  /\ UNCHANGED <<tail_, next, value, made, frame>>

\* What the dequeue that has been left returns: its item or Empty, and its put_state.
Item(t) == IF NoItem(t) THEN Empty ELSE value[frame[t].next.value]
PutState(t) == IF NoItem(t) THEN frame[t].tail_old.tag ELSE frame[t].head_old.tag

QueueStep(t) ==
  \/ LoadHead(t) \/ LoadTail(t) \/ LoadNext(t) \/ CheckTail(t) \/ Link(t) \/ Swing(t) \/ Help(t)
  \/ CheckHead(t) \/ Remove(t)
-----------------------------------------------------------------------------
\* The nodes from the one named first, in the order of the links; Null behind the last.
Walk(first, links) ==
  LET node[k \in 0 .. Cardinality(Node)] ==
        IF k = 0 THEN first ELSE IF node[k - 1] = Null THEN Null ELSE links[node[k - 1]].value
  IN node

\* The nodes behind the one named first.
Behind(first, links) ==
  LET n == Cardinality(Node)
      node == Walk(first, links)
      len == CHOOSE k \in 0 .. n : node[k] # Null /\ (k = n \/ node[k + 1] = Null)
  IN [k \in 1 .. len |-> node[k]]

\* The nodes behind the head, first to last.
Path(q) == Behind(head_[q].value, next)

Contents(q) == [k \in DOMAIN Path(q) |-> value[Path(q)[k]]]

Ptrs == [value : Node \cup {Null}, tag : Tags]

QueueTypeOK ==
  /\ \A q \in Queues : {head_[q], tail_[q]} \subseteq [value : Node, tag : Tags]
  /\ next \in [Node -> Ptrs]
  /\ value \in [Node -> Values \cup {Empty}]
  /\ made \in [Threads -> 0 .. NumNodes]
  /\ \A t \in Threads : frame[t].q \in Queues \cup {0} /\ frame[t].node \in Node \cup {Null}

\* The tail is never before the head, and it is the last node or the one before: a
\* dequeue never removes the node the tail points to, and an enqueue that stopped
\* halfway is helped before the next one.
TailNearEnd == \A q \in Queues :
  LET p == <<head_[q].value>> \o Path(q) IN
  \E k \in DOMAIN p : tail_[q].value = p[k] /\ Len(p) - k <= 1
=============================================================================
