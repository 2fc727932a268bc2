-------------------------- MODULE BoundedSizeKFifo --------------------------
(***************************************************************************)
(* BoundedSizeKFifo (scal-master/src/datastructures/boundedsize_kfifo.h):  *)
(* a queue in a ring of segments with k slots each, in which the items     *)
(* have no order.  enqueue is Push("R"), dequeue Pop("L").  Every load and *)
(* compare-exchange is a step.                                             *)
(***************************************************************************)
EXTENDS DequeHistory, FiniteSets

CONSTANTS
  k,            \* the slots of a segment
  num_segments  \* the segments of the ring

BoundedKFifoAssumption == k \in Nat \ {0} /\ num_segments \in Nat \ {0}

queue_size_ == k * num_segments
Slot == 0 .. queue_size_ - 1
Segment == { k * j : j \in 0 .. num_segments - 1 }

\* TaggedValue, of the first slot of a segment or an item; the tags have 16 bits.
Tagged(v, tag) == [value |-> v, tag |-> tag % 65536]

NextSegment(ptr) == Tagged((ptr.value + k) % queue_size_, ptr.tag + 1)
Cleared(item) == Tagged(Empty, item.tag + 1)

VARIABLES
  head_, tail_,
  queue_,
  pc, op,
  result,  \* what dequeue has found, or the item enqueue has stored: Empty for false
  loc,     \* local variables
  turned   \* history variable: the tail has come round, or looked so to a commit

shared == <<head_, tail_, queue_>>
control == <<op, result, history>>
vars == <<shared, pc, control, loc, turned>>

NoLocals == [head_old |-> Tagged(0, 0), tail_old |-> Tagged(0, 0),
             old |-> Tagged(Empty, 0), new |-> Tagged(Empty, 0),
             i |-> 0, random |-> 0, item_index |-> 0, found |-> FALSE,
             tail_current |-> Tagged(0, 0)]

Init ==
  /\ HistoryInit
  /\ head_ = Tagged(0, 0) /\ tail_ = Tagged(0, 0)
  /\ queue_ = [i \in Slot |-> Tagged(Empty, 0)]
  /\ pc = [t \in Threads |-> "idle"]
  /\ op = [t \in Threads |-> Pop("L")]
  /\ result = [t \in Threads |-> Empty]
  /\ loc = [t \in Threads |-> NoLocals]
  /\ turned = FALSE

Goto(t, l) == pc' = [pc EXCEPT ![t] = l]

\* A step that changes the locals of t only.
Local(t, at, l, to) ==
  /\ pc[t] = at
  /\ loc' = [loc EXCEPT ![t] = l]
  /\ Goto(t, to)
  /\ UNCHANGED <<shared, control>>

Enqueuing(t) == op[t].kind = "push"
Again(t) == IF Enqueuing(t) THEN "enqueue" ELSE "dequeue"
-----------------------------------------------------------------------------
Call(t, o) ==
  /\ pc[t] = "idle"
  /\ op' = [op EXCEPT ![t] = o]
  /\ Called(t)
  /\ Goto(t, IF o.kind = "push" THEN "enqueue" ELSE "dequeue")
  /\ UNCHANGED <<shared, result, loc, turned>>

\* find_index: the slots of the segment in turn, from a random one on.
FindStart(t) == \E r \in 0 .. k - 1 : Local(t, "find", [loc[t] EXCEPT !.random = r], "look")

Look(t) ==
  LET l == loc[t]
      start == (IF Enqueuing(t) THEN l.tail_old ELSE l.head_old).value
      index == (start + ((l.random + l.i) % k)) % queue_size_
      hit == (queue_[index].value = Empty) <=> Enqueuing(t)
      rest == ~hit /\ l.i + 1 < k
  IN Local(t, "look", [l EXCEPT !.old = queue_[index], !.found = hit, !.item_index = index,
                                !.i = IF rest THEN @ + 1 ELSE 0],
           IF rest THEN "look" ELSE IF Enqueuing(t) THEN "check tail" ELSE "check head")

find_index(t) == FindStart(t) \/ Look(t)

\* advance_head and advance_tail; the caller does not ask whether they succeed.
advance_head(t) ==
  /\ pc[t] = "advance head"
  /\ head_' = IF head_ = loc[t].head_old THEN NextSegment(head_) ELSE head_
  /\ Goto(t, IF Enqueuing(t) THEN "advance tail" ELSE "dequeue")
  /\ UNCHANGED <<tail_, queue_, control, loc>>

advance_tail(t) ==
  /\ pc[t] = "advance tail"
  /\ tail_' = IF tail_ = loc[t].tail_old THEN NextSegment(tail_) ELSE tail_
  /\ Goto(t, IF Enqueuing(t) THEN "enqueue" ELSE "swap item")
  /\ UNCHANGED <<head_, queue_, control, loc>>

\* The slot found is exchanged; after committed the item may be withdrawn.
SwapItem(t) ==
  LET l == loc[t]
      done == queue_[l.item_index] = l.old
  IN
  /\ pc[t] = "swap item"
  /\ queue_' = IF done THEN [queue_ EXCEPT ![l.item_index] = l.new] ELSE queue_
  /\ result' = IF done THEN [result EXCEPT ![t] = IF Enqueuing(t) THEN @ ELSE l.old.value] ELSE result
  /\ Goto(t, IF ~done THEN Again(t) ELSE IF Enqueuing(t) THEN "committed" ELSE "return")
  /\ UNCHANGED <<head_, tail_, op, history, loc>>
-----------------------------------------------------------------------------
\* enqueue.
EnqueueLoads(t) ==
  LET l == loc[t] IN
  \/ Local(t, "enqueue", [NoLocals EXCEPT !.tail_old = tail_], "load head")
  \/ Enqueuing(t) /\ Local(t, "load head", [l EXCEPT !.head_old = head_], "find")
  \/ Local(t, "check tail", [l EXCEPT !.new = Tagged(op[t].val, l.old.tag + 1)],
           IF tail_ # l.tail_old THEN "enqueue" ELSE IF l.found THEN "swap item" ELSE "queue full")

\* queue_full.
QueueFull(t) ==
  LET l == loc[t] IN
  Local(t, "queue full", l,
        IF NextSegment(l.tail_old).value = l.head_old.value /\ head_.value = l.head_old.value
          THEN "segment not empty" ELSE "advance tail")

\* segment_not_empty: enqueue fails if the head has an item and is still the head.
SegmentNotEmpty(t) ==
  LET l == loc[t] IN
  \/ Local(t, "segment not empty", [l EXCEPT !.i = @ + 1],
           IF queue_[(l.head_old.value + l.i) % queue_size_].value # Empty THEN "full again"
           ELSE IF l.i + 1 < k THEN "segment not empty" ELSE "advance head")
  \/ Local(t, "full again", l, IF head_.value = l.head_old.value THEN "return" ELSE "advance head")

in_valid_region(tail_old, tail_current, head_current) ==
  IF tail_current >= head_current
    THEN head_current < tail_old /\ tail_old <= tail_current
    ELSE head_current < tail_old \/ tail_old <= tail_current

not_in_valid_region(tail_old, tail_current, head_current) ==
  IF tail_current >= head_current
    THEN tail_old < tail_current \/ head_current < tail_old
    ELSE tail_old < tail_current /\ head_current < tail_old

\* The item stays.
Stored(t) == result' = [result EXCEPT ![t] = op[t].val] /\ Goto(t, "return")

\* committed: the item has been taken, or is in the region of the queue; or must be taken
\* back; or is in the head, which is made to change.
CommitLoads(t) ==
  LET l == loc[t]
      in_valid == in_valid_region(l.tail_old.value, l.tail_current.value, head_.value)
      not_in_valid == not_in_valid_region(l.tail_old.value, l.tail_current.value, head_.value)
  IN
  \/ /\ queue_[l.item_index] = l.new
     /\ Local(t, "committed", l, "commit tail")
  \/ /\ pc[t] = "committed" /\ queue_[l.item_index] # l.new
     /\ Stored(t)
     /\ UNCHANGED <<shared, op, history, loc>>
  \/ Local(t, "commit tail", [l EXCEPT !.tail_current = tail_], "commit head")
  \/ /\ pc[t] = "commit head" /\ in_valid
     /\ Stored(t)
     /\ UNCHANGED <<shared, op, history, loc>>
  \/ /\ ~in_valid
     /\ Local(t, "commit head", [l EXCEPT !.head_old = head_],
              IF not_in_valid THEN "take back" ELSE "bump head")

BumpHead(t) ==
  LET same == head_ = loc[t].head_old IN
  /\ pc[t] = "bump head"
  /\ head_' = IF same THEN Tagged(head_.value, head_.tag + 1) ELSE head_
  /\ IF same THEN Stored(t) ELSE Goto(t, "take back") /\ UNCHANGED result
  /\ UNCHANGED <<tail_, queue_, op, history, loc>>

TakeBack(t) ==
  LET l == loc[t]
      there == queue_[l.item_index] = l.new
  IN
  /\ pc[t] = "take back"
  /\ queue_' = IF there THEN [queue_ EXCEPT ![l.item_index] = Cleared(l.new)] ELSE queue_
  /\ IF there THEN Goto(t, "enqueue") /\ UNCHANGED result ELSE Stored(t)
  /\ UNCHANGED <<head_, tail_, op, history, loc>>

committed(t) == CommitLoads(t) \/ BumpHead(t) \/ TakeBack(t)

enqueue(t) == EnqueueLoads(t) \/ QueueFull(t) \/ SegmentNotEmpty(t) \/ committed(t)
-----------------------------------------------------------------------------
\* dequeue.
DequeueLoads(t) ==
  LET l == loc[t]
      last == l.head_old.value = l.tail_old.value
  IN
  \/ Local(t, "dequeue", [NoLocals EXCEPT !.head_old = head_], "load tail")
  \/ Local(t, "load tail", [l EXCEPT !.tail_old = tail_], "find")
  \/ Local(t, "check head", [l EXCEPT !.new = Cleared(l.old)],
           IF head_ # l.head_old THEN "dequeue"
           ELSE IF l.found THEN IF last THEN "advance tail" ELSE "swap item"
           ELSE IF last THEN "no item" ELSE "advance head")
  \/ Local(t, "no item", l, IF tail_.value = l.tail_old.value THEN "return" ELSE "advance head")

\* A refused enqueue leaves no trace in the history.
Return(t) ==
  /\ pc[t] = "return"
  /\ Goto(t, "idle")
  /\ IF Enqueuing(t) /\ result[t] = Empty THEN UNCHANGED history ELSE Returned(t, op[t], result[t])
  /\ result' = [result EXCEPT ![t] = Empty]
  /\ loc' = [loc EXCEPT ![t] = NoLocals]
  /\ UNCHANGED <<shared, op>>

\* The tail is moved to the first segment again; or committed takes the ring for one that
\* has wrapped around (wrap_around), which a tail older than the head makes it do, too.
WatchTurn(t) ==
  turned' = \/ turned
            \/ tail_' # tail_ /\ tail_'.value = 0
            \/ pc[t] = "commit head" /\ loc[t].tail_current.value < head_.value

Step(t) ==
  /\ \/ find_index(t) \/ advance_head(t) \/ advance_tail(t) \/ SwapItem(t)
     \/ enqueue(t) \/ DequeueLoads(t) \/ Return(t)
  /\ WatchTurn(t)
-----------------------------------------------------------------------------
Quiet == \A t \in Threads : pc[t] = "idle"

\* The segments from the head to the tail.
InRegion(s) ==
  IF head_.value <= tail_.value THEN head_.value <= s /\ s <= tail_.value
                                ELSE head_.value <= s \/ s <= tail_.value

\* Type invariant.
TypeOK ==
  /\ head_ \in [value : Segment, tag : 0 .. 65535] /\ tail_ \in [value : Segment, tag : 0 .. 65535]
  /\ queue_ \in [Slot -> [value : Values \cup {Empty}, tag : 0 .. 65535]]
  /\ op \in [Threads -> Operations] /\ result \in [Threads -> Values \cup {Empty}]
  /\ \A t \in Threads : loc[t].item_index \in Slot /\ loc[t].i \in 0 .. k /\ loc[t].random \in 0 .. k - 1

\* Every item is between the head and the tail, but for those an enqueue has not committed.
\* In a ring that has come round, or was taken for one that has, this fails: the branches of
\* committed then let an item stay that lies outside.
InReach == \A i \in Slot :
  queue_[i].value # Empty /\ ~InRegion(k * (i \div k)) =>
    \E t \in Threads : /\ pc[t] \in {"committed", "commit tail", "commit head", "bump head", "take back"}
                       /\ loc[t].item_index = i /\ loc[t].new = queue_[i]

\* How often v has been got, and how often it lies in the ring.
Got(v) ==
  LET answers == UNION { { <<t, o>> : o \in { i \in DOMAIN finished[t] :
                             finished[t][i].op.kind = "pop" /\ finished[t][i].reply = v } }
                           : t \in Threads }
  IN Cardinality(answers) + Cardinality({ t \in Threads : ~Enqueuing(t) /\ result[t] = v })
Lies(v) == Cardinality({ i \in Slot : queue_[i].value = v })

\* However often the ring turns, an item that has been enqueued is in one slot, until one
\* dequeue takes it; the values differ.
Kept == \A t \in Threads : \A o \in DOMAIN finished[t] :
  finished[t][o].op.kind = "push" => Got(finished[t][o].reply) + Lies(finished[t][o].reply) = 1

NothingLost == Kept /\ (turned \/ InReach)

\* When all operations have returned, and the ring has not turned, there is an order of
\* them in which every dequeue takes one of the k oldest items, and answers false only when
\* there was none.
OutOfOrderUpToK == Quiet /\ ~turned => OutOfOrder(k)
=============================================================================
