------------------------- MODULE UnboundedSizeKFifo -------------------------
(***************************************************************************)
(* UnboundedSizeKFifo (scal-master/src/datastructures/                     *)
(* unboundedsize_kfifo.h): a queue of segments with k slots each, in which *)
(* the items have no order.  enqueue is Push("R"), dequeue Pop("L").       *)
(*                                                                         *)
(* Segments are never reused, and a segment that has been linked is never  *)
(* freed; they are named by their position.  Every load and                *)
(* compare-exchange is a step.                                             *)
(***************************************************************************)
EXTENDS DequeHistory, FiniteSets

CONSTANTS
  k,                    \* the slots of a segment
  NumSegments,          \* bound: the segments
  LocallyLinearizable   \* built with LOCALLY_LINEARIZABLE

KFifoAssumption ==
  k \in Nat \ {0} /\ NumSegments \in Nat \ {0} /\ LocallyLinearizable \in BOOLEAN

KSegment == 1 .. NumSegments
NULL == 0
Index == 0 .. k - 1

\* TaggedValue, of a segment or an item; the tags have 16 bits.
SegmentPtr(segment, tag) == [value |-> segment, tag |-> tag % 65536]
Item(v, tag) == [value |-> v, tag |-> tag % 65536]
EmptyItem == Item(Empty, 0)

VARIABLES
  head_, tail_,
  next_,     \* of every segment
  items_,    \* of every segment
  deleted_,  \* the segments with deleted_ set
  markers,   \* with LOCALLY_LINEARIZABLE: where each thread has enqueued last
  pc, op, result,
  loc        \* local variables

shared == <<head_, tail_, next_, items_, deleted_, markers>>
control == <<op, result, history>>
vars == <<shared, pc, control, loc>>

NoPtr == SegmentPtr(NULL, 0)

NoLocals == [head_old |-> NoPtr, tail_old |-> NoPtr, old |-> EmptyItem, new |-> EmptyItem,
             i |-> 0, index |-> 0, found |-> FALSE,      \* of find_index
             head_current |-> NoPtr, tail_current |-> NoPtr,
             next_ksegment |-> NoPtr, head_next |-> NoPtr,
             back |-> "none"]                            \* where advance_tail returns to

Init ==
  /\ HistoryInit
  /\ head_ = SegmentPtr(1, 0) /\ tail_ = SegmentPtr(1, 0)
  /\ next_ = [s \in KSegment |-> NoPtr]
  /\ items_ = [s \in KSegment |-> [i \in Index |-> EmptyItem]]
  /\ deleted_ = {}
  /\ markers = [t \in Threads |-> NoPtr]
  /\ pc = [t \in Threads |-> "idle"]
  /\ op = [t \in Threads |-> Pop("L")]
  /\ result = [t \in Threads |-> Empty]
  /\ loc = [t \in Threads |-> NoLocals]

Goto(t, l) == pc' = [pc EXCEPT ![t] = l]

\* A step that changes the locals of t only.
Local(t, at, l, to) ==
  /\ pc[t] = at
  /\ loc' = [loc EXCEPT ![t] = l]
  /\ Goto(t, to)
  /\ UNCHANGED <<shared, control>>

Enqueuing(t) == op[t].kind = "push"
-----------------------------------------------------------------------------
Call(t, o) ==
  /\ pc[t] = "idle"
  /\ op' = [op EXCEPT ![t] = o]
  /\ Called(t)
  /\ Goto(t, IF o.kind = "push" THEN "enqueue" ELSE "dequeue")
  /\ UNCHANGED <<shared, result, loc>>

\* find_index: the slots of the segment in turn, from a random one on.
FindStart(t) ==
  \E r \in Index : Local(t, "find", [loc[t] EXCEPT !.index = r, !.i = 0, !.found = FALSE], "look")

Look(t) ==
  LET l == loc[t]
      s == (IF Enqueuing(t) THEN l.tail_old ELSE l.head_old).value
      old == items_[s][l.index]
      hit == (old.value = Empty) <=> Enqueuing(t)
      rest == ~hit /\ l.i + 1 < k
  IN Local(t, "look", [l EXCEPT !.old = old, !.found = hit, !.i = IF rest THEN @ + 1 ELSE 0,
                                !.index = IF rest THEN (@ + 1) % k ELSE @],
           IF rest THEN "look" ELSE IF Enqueuing(t) THEN "check tail" ELSE "load tail")

find_index(t) == FindStart(t) \/ Look(t)

\* advance_tail(tail_old): on to the next segment, or a new one.
AdvanceTailLoads(t) ==
  LET l == loc[t] IN
  \/ Local(t, "advance tail", [l EXCEPT !.tail_current = tail_],
           IF tail_ = l.tail_old THEN "tail next" ELSE l.back)
  \/ Local(t, "tail next", [l EXCEPT !.next_ksegment = next_[l.tail_old.value]], "tail again")
  \/ Local(t, "tail again", l, IF tail_ # l.tail_old THEN l.back
                               ELSE IF l.next_ksegment.value # NULL THEN "help tail" ELSE "add segment")

\* The tag of the helped tail is that of the next pointer.
HelpTail(t) ==
  LET l == loc[t] IN
  /\ pc[t] = "help tail"
  /\ tail_' = IF tail_ = l.tail_old THEN SegmentPtr(l.next_ksegment.value, l.next_ksegment.tag + 1) ELSE tail_
  /\ Goto(t, l.back)
  /\ UNCHANGED <<head_, next_, items_, deleted_, markers, control, loc>>

AddSegment(t) ==
  LET l == loc[t]
      s == l.tail_old.value
  IN
  /\ pc[t] = "add segment" /\ s < NumSegments
  /\ IF next_[s] = l.next_ksegment
       THEN next_' = [next_ EXCEPT ![s] = SegmentPtr(s + 1, l.next_ksegment.tag + 1)] /\ Goto(t, "move tail")
       ELSE UNCHANGED next_ /\ Goto(t, l.back)
  /\ UNCHANGED <<head_, tail_, items_, deleted_, markers, control, loc>>

MoveTail(t) ==
  LET l == loc[t] IN
  /\ pc[t] = "move tail"
  /\ tail_' = IF tail_ = l.tail_old THEN SegmentPtr(l.tail_old.value + 1, l.tail_old.tag + 1) ELSE tail_
  /\ Goto(t, l.back)
  /\ UNCHANGED <<head_, next_, items_, deleted_, markers, control, loc>>

advance_tail(t) == AdvanceTailLoads(t) \/ HelpTail(t) \/ AddSegment(t) \/ MoveTail(t)
-----------------------------------------------------------------------------
\* enqueue: with LOCALLY_LINEARIZABLE never twice into the same segment.
LoadTail(t) ==
  LET l == [loc[t] EXCEPT !.tail_old = tail_, !.back = "enqueue"] IN
  Local(t, "enqueue", l, IF LocallyLinearizable /\ markers[t] = tail_ THEN "advance tail" ELSE "find")

CheckTail(t) ==
  LET l == loc[t] IN
  Local(t, "check tail", [l EXCEPT !.new = Item(op[t].val, l.old.tag + 1)],
        IF tail_ # l.tail_old THEN "enqueue" ELSE IF l.found THEN "insert" ELSE "advance tail")

\* An item slot of t's segment is exchanged.
Exchange(s, i, old, new) == items_' = [items_ EXCEPT ![s][i] = IF @ = old THEN new ELSE @]

Insert(t) ==
  LET l == loc[t]
      s == l.tail_old.value
  IN
  /\ pc[t] = "insert"
  /\ Exchange(s, l.index, l.old, l.new)
  /\ Goto(t, IF items_[s][l.index] = l.old THEN "committed" ELSE "enqueue")
  /\ UNCHANGED <<head_, tail_, next_, deleted_, markers, control, loc>>

\* committed: the item has been taken already, or is safe because its segment is not
\* the head and not deleted; or the head must be changed, or the item taken back.
CommitLoads(t) ==
  LET l == loc[t]
      s == l.tail_old.value
  IN
  \/ Local(t, "committed", l, IF items_[s][l.index] # l.new THEN "mark" ELSE "commit head")
  \/ Local(t, "commit head", [l EXCEPT !.head_current = head_], "deleted")
  \/ Local(t, "deleted", l, IF s \in deleted_ THEN "take back"
                            ELSE IF s = l.head_current.value THEN "bump head" ELSE "deleted again")
  \/ Local(t, "deleted again", l, IF s \in deleted_ THEN "take back" ELSE "mark")

BumpHead(t) ==
  LET l == loc[t] IN
  /\ pc[t] = "bump head"
  /\ IF head_ = l.head_current
       THEN head_' = SegmentPtr(head_.value, head_.tag + 1) /\ Goto(t, "mark")
       ELSE UNCHANGED head_ /\ Goto(t, "take back")
  /\ UNCHANGED <<tail_, next_, items_, deleted_, markers, control, loc>>

TakeBack(t) ==
  LET l == loc[t]
      s == l.tail_old.value
  IN
  /\ pc[t] = "take back"
  /\ Exchange(s, l.index, l.new, EmptyItem)
  /\ Goto(t, IF items_[s][l.index] = l.new THEN "enqueue" ELSE "mark")
  /\ UNCHANGED <<head_, tail_, next_, deleted_, markers, control, loc>>

committed(t) == CommitLoads(t) \/ BumpHead(t) \/ TakeBack(t)

\* SetLastSegment.
Mark(t) ==
  /\ pc[t] = "mark"
  /\ markers' = IF LocallyLinearizable THEN [markers EXCEPT ![t] = loc[t].tail_old] ELSE markers
  /\ Goto(t, "return")
  /\ UNCHANGED <<head_, tail_, next_, items_, deleted_, control, loc>>

enqueue(t) == LoadTail(t) \/ CheckTail(t) \/ Insert(t) \/ committed(t) \/ Mark(t)
-----------------------------------------------------------------------------
\* Mutant of DequeueLoads: there is no item when the head has none.
DequeueLoadsHasty(t) ==
  LET l == loc[t] IN
  \/ Local(t, "dequeue", [l EXCEPT !.head_old = head_, !.back = "take"], "find")
  \/ Local(t, "load tail", [l EXCEPT !.tail_old = tail_], "check head")
  \/ Local(t, "check head", l, IF l.found THEN "take" ELSE "return")

\* dequeue.
DequeueLoads(t) ==
  LET l == loc[t]
      last == l.head_old.value = l.tail_old.value
  IN
  \/ Local(t, "dequeue", [l EXCEPT !.head_old = head_, !.back = "take"], "find")
  \/ Local(t, "load tail", [l EXCEPT !.tail_old = tail_], "check head")
  \/ Local(t, "check head", l, IF head_ # l.head_old THEN "dequeue"
                               ELSE IF l.found THEN IF last THEN "advance tail" ELSE "take"
                               ELSE IF last THEN "no item" ELSE "advance head")
  \/ Local(t, "no item", l, IF tail_ = l.tail_old THEN "return" ELSE "advance head")

Take(t) ==
  LET l == loc[t]
      s == l.head_old.value
  IN
  /\ pc[t] = "take"
  /\ Exchange(s, l.index, l.old, Item(Empty, l.old.tag + 1))
  /\ IF items_[s][l.index] = l.old
       THEN result' = [result EXCEPT ![t] = l.old.value] /\ Goto(t, "return")
       ELSE UNCHANGED result /\ Goto(t, "dequeue")
  /\ UNCHANGED <<head_, tail_, next_, deleted_, markers, op, history, loc>>

\* advance_head(head_old).
AdvanceHeadLoads(t) ==
  LET l == loc[t]
      last == l.head_current.value = l.tail_current.value
  IN
  \/ Local(t, "advance head", [l EXCEPT !.head_current = head_], IF head_ = l.head_old THEN "head tail" ELSE "dequeue")
  \/ Local(t, "head tail", [l EXCEPT !.tail_current = tail_], "head tail next")
  \/ Local(t, "head tail next", [l EXCEPT !.next_ksegment = next_[l.tail_current.value]], "head next")
  \/ Local(t, "head next", [l EXCEPT !.head_next = next_[l.head_current.value]], "head again")
  \/ Local(t, "head again", l, IF head_ # l.head_current \/ (last /\ l.next_ksegment.value = NULL) THEN "dequeue"
                               ELSE IF last THEN "head tail again" ELSE "delete")
  \/ Local(t, "head tail again", l, IF tail_ = l.tail_current THEN "push tail" ELSE "delete")

PushTail(t) ==
  LET l == loc[t] IN
  /\ pc[t] = "push tail"
  /\ tail_' = IF tail_ = l.tail_current THEN SegmentPtr(l.next_ksegment.value, tail_.tag + 1) ELSE tail_
  /\ Goto(t, "delete")
  /\ UNCHANGED <<head_, next_, items_, deleted_, markers, control, loc>>

Delete(t) ==
  /\ pc[t] = "delete"
  /\ deleted_' = deleted_ \cup {loc[t].head_old.value}
  /\ Goto(t, "move head")
  /\ UNCHANGED <<head_, tail_, next_, items_, markers, control, loc>>

MoveHead(t) ==
  LET l == loc[t] IN
  /\ pc[t] = "move head"
  /\ head_' = IF head_ = l.head_old THEN SegmentPtr(l.head_next.value, l.head_old.tag + 1) ELSE head_
  /\ Goto(t, "dequeue")
  /\ UNCHANGED <<tail_, next_, items_, deleted_, markers, control, loc>>

advance_head(t) == AdvanceHeadLoads(t) \/ PushTail(t) \/ Delete(t) \/ MoveHead(t)

dequeue(t) == DequeueLoads(t) \/ Take(t) \/ advance_head(t)

Return(t) ==
  /\ pc[t] = "return"
  /\ Goto(t, "idle")
  /\ Returned(t, op[t], result[t])
  /\ result' = [result EXCEPT ![t] = Empty]
  /\ loc' = [loc EXCEPT ![t] = NoLocals]
  /\ UNCHANGED <<shared, op>>

Step(t) == find_index(t) \/ advance_tail(t) \/ enqueue(t) \/ dequeue(t) \/ Return(t)
-----------------------------------------------------------------------------
SegmentPtrs == [value : KSegment, tag : 0 .. 65535]
Quiet == \A t \in Threads : pc[t] = "idle"

\* Type invariant.
TypeOK ==
  /\ head_ \in SegmentPtrs /\ tail_ \in SegmentPtrs
  /\ \A s \in KSegment : next_[s].value \in {NULL, s + 1}
  /\ items_ \in [KSegment -> [Index -> [value : Values \cup {Empty}, tag : 0 .. 65535]]]
  /\ deleted_ \subseteq KSegment
  /\ op \in [Threads -> Operations] /\ result \in [Threads -> Values \cup {Empty}]
  /\ \A t \in Threads : loc[t].index \in Index /\ loc[t].i \in Index

\* The head never overtakes the tail, and every segment it has left is marked as deleted:
\* an enqueue that finds its segment neither the head nor deleted relies on it.
LeftAreDeleted ==
  /\ head_.value <= tail_.value
  /\ \A s \in KSegment : s < head_.value => s \in deleted_

\* An item that an enqueue has committed is never in a segment the head has left.
NothingLost == \A s \in KSegment, i \in Index :
  s < head_.value /\ items_[s][i].value # Empty =>
    \E t \in Threads : /\ pc[t] \in {"committed", "commit head", "deleted", "deleted again", "bump head", "take back"}
                       /\ loc[t].tail_old.value = s /\ loc[t].index = i /\ loc[t].new = items_[s][i]

\* When all operations have returned there is an order of them in which every dequeue
\* takes one of the k oldest items, and answers false only when there was none.
OutOfOrderUpToK == Quiet => OutOfOrder(k)
=============================================================================
