------------------------------- MODULE KStack -------------------------------
(***************************************************************************)
(* KStack (scal-master/src/datastructures/kstack.h): a stack of segments   *)
(* with k slots each, in which the items have no order.  push is           *)
(* Push("R"), pop Pop("R").                                                *)
(*                                                                         *)
(* Segments are not reused: one that has been on the stack is never freed, *)
(* and is named by how many came before it.  Every shared access is a      *)
(* step, but next is set for good before a segment is reached, and the two *)
(* plain loads of remove in committed are the one load an optimising       *)
(* compiler makes of them.                                                 *)
(***************************************************************************)
EXTENDS DequeHistory, FiniteSets

CONSTANTS
  k,                    \* the slots of a segment
  NumSegments,          \* bound: the segments
  LocallyLinearizable   \* built with LOCALLY_LINEARIZABLE

KStackAssumption ==
  k \in Nat \ {0} /\ NumSegments \in Nat \ {0} /\ LocallyLinearizable \in BOOLEAN

KSegment == 1 .. NumSegments
NULL == 0
Index == 0 .. k - 1

\* TaggedValue, of a segment or an item; the tags have 16 bits.
SegmentPtr(segment, tag) == [value |-> segment, tag |-> tag % 65536]
Item(v, tag) == [value |-> v, tag |-> tag % 65536]

VARIABLES
  top_,
  made,     \* the segments made so far
  next,     \* of every segment
  items,    \* of every segment
  remove,   \* of every segment: how many threads are trying to remove it, in 8 bits
  markers,  \* with LOCALLY_LINEARIZABLE: which threads have pushed into a segment
  pc, op, result,
  loc       \* local variables

shared == <<top_, made, next, items, remove, markers>>
control == <<op, result, history>>
vars == <<shared, pc, control, loc>>

NoItems == [i \in Index |-> Item(Empty, 0)]

NoLocals == [top_old |-> SegmentPtr(NULL, 0), old |-> Item(Empty, 0), new |-> Item(Empty, 0),
             i |-> 0, index |-> 0, found |-> FALSE,     \* of find_index and is_empty
             old_records |-> NoItems, next |-> NULL]

Init ==
  /\ HistoryInit
  /\ top_ = SegmentPtr(1, 0)
  /\ made = 1
  /\ next = [s \in KSegment |-> NULL]
  /\ items = [s \in KSegment |-> NoItems]
  /\ remove = [s \in KSegment |-> 0]
  /\ markers = [s \in KSegment |-> {}]
  /\ pc = [t \in Threads |-> "idle"]
  /\ op = [t \in Threads |-> Pop("R")]
  /\ result = [t \in Threads |-> Empty]
  /\ loc = [t \in Threads |-> NoLocals]

Goto(t, l) == pc' = [pc EXCEPT ![t] = l]

\* A step that changes the locals of t only.
Local(t, at, l, to) ==
  /\ pc[t] = at
  /\ loc' = [loc EXCEPT ![t] = l]
  /\ Goto(t, to)
  /\ UNCHANGED <<shared, control>>

Pushing(t) == op[t].kind = "push"
Again(t) == IF Pushing(t) THEN "push" ELSE "pop"

\* An item slot is exchanged.
Exchange(s, i, old, new) == items' = [items EXCEPT ![s][i] = IF @ = old THEN new ELSE @]
-----------------------------------------------------------------------------
Call(t, o) ==
  /\ pc[t] = "idle"
  /\ op' = [op EXCEPT ![t] = o]
  /\ Called(t)
  /\ Goto(t, IF o.kind = "push" THEN "push" ELSE "pop")
  /\ UNCHANGED <<shared, result, loc>>

\* With LOCALLY_LINEARIZABLE a thread pushes once into a segment.
LoadTop(t) ==
  Local(t, Again(t), [NoLocals EXCEPT !.top_old = top_],
        IF LocallyLinearizable /\ Pushing(t) /\ t \in markers[top_.value] THEN "add" ELSE "find")

\* find_index: the slots of the segment in turn, from a random one on.
FindStart(t) == \E r \in Index : Local(t, "find", [loc[t] EXCEPT !.index = r], "look")

Look(t) ==
  LET l == loc[t]
      old == items[l.top_old.value][l.index]
      hit == (old.value = Empty) <=> Pushing(t)
      rest == ~hit /\ l.i + 1 < k
  IN Local(t, "look", [l EXCEPT !.old = old, !.found = hit, !.i = IF rest THEN @ + 1 ELSE 0,
                                !.index = IF rest THEN (@ + 1) % k ELSE @],
           IF rest THEN "look" ELSE "check top")

CheckTop(t) ==
  LET l == loc[t] IN
  Local(t, "check top", [l EXCEPT !.new = IF Pushing(t) THEN Item(op[t].val, l.old.tag + 1)
                                                        ELSE Item(Empty, l.old.tag + 1)],
        IF top_ # l.top_old THEN Again(t)
        ELSE IF l.found THEN "swap item"
        ELSE IF Pushing(t) THEN "add"
        ELSE IF next[l.top_old.value] = NULL THEN "empty" ELSE "next")

\* The item is put into the slot found, or taken out of it.
SwapItem(t) ==
  LET l == loc[t]
      s == l.top_old.value
      done == items[s][l.index] = l.old
  IN
  /\ pc[t] = "swap item"
  /\ Exchange(s, l.index, l.old, l.new)
  /\ result' = IF done /\ ~Pushing(t) THEN [result EXCEPT ![t] = l.old.value] ELSE result
  /\ Goto(t, IF ~done THEN Again(t) ELSE IF Pushing(t) THEN "committed" ELSE "return")
  /\ UNCHANGED <<top_, made, next, remove, markers, op, history, loc>>
-----------------------------------------------------------------------------
\* try_add_new_ksegment: a new segment with the item in it.
TryAdd(t) == Local(t, "add", loc[t], IF top_ = loc[t].top_old THEN "add segment" ELSE "push")

AddSegment(t) ==
  LET s == made + 1 IN
  /\ pc[t] = "add segment" /\ made < NumSegments
  /\ IF top_ = loc[t].top_old
       THEN /\ top_' = SegmentPtr(s, top_.tag + 1)
            /\ made' = s
            /\ next' = [next EXCEPT ![s] = top_.value]
            /\ items' = [items EXCEPT ![s][0] = Item(op[t].val, 0)]
            /\ markers' = IF LocallyLinearizable THEN [markers EXCEPT ![s] = {t}] ELSE markers
            /\ Goto(t, "return")
       ELSE UNCHANGED <<top_, made, next, items, markers>> /\ Goto(t, "push")
  /\ UNCHANGED <<remove, control, loc>>

try_add_new_ksegment(t) == TryAdd(t) \/ AddSegment(t)

\* Mutant of CommitLoads: an item that is there is committed.
CommitLoadsTrusting(t) == Local(t, "committed", loc[t], "mark")

\* committed: the item has been taken already, or nobody is removing the segment; or the
\* removal must be made to fail, or the item taken back.
CommitLoads(t) ==
  LET l == loc[t]
      s == l.top_old.value
  IN
  \/ Local(t, "committed", l, IF items[s][l.index] # l.new THEN "mark" ELSE "commit remove")
  \/ Local(t, "commit remove", l, IF remove[s] = 0 THEN "mark" ELSE "commit top")
  \/ Local(t, "commit top", l, IF top_ # l.top_old THEN "take back" ELSE "bump top")

BumpTop(t) ==
  /\ pc[t] = "bump top"
  /\ IF top_ = loc[t].top_old
       THEN top_' = SegmentPtr(top_.value, top_.tag + 1) /\ Goto(t, "mark")
       ELSE UNCHANGED top_ /\ Goto(t, "take back")
  /\ UNCHANGED <<made, next, items, remove, markers, control, loc>>

TakeBack(t) ==
  LET l == loc[t]
      s == l.top_old.value
  IN
  /\ pc[t] = "take back"
  /\ Exchange(s, l.index, l.new, Item(Empty, l.new.tag + 1))
  /\ Goto(t, IF items[s][l.index] = l.new THEN "push" ELSE "mark")
  /\ UNCHANGED <<top_, made, next, remove, markers, control, loc>>

committed(t) == CommitLoads(t) \/ BumpTop(t) \/ TakeBack(t)

Mark(t) ==
  /\ pc[t] = "mark"
  /\ markers' = IF LocallyLinearizable THEN [markers EXCEPT ![loc[t].top_old.value] = @ \cup {t}] ELSE markers
  /\ Goto(t, "return")
  /\ UNCHANGED <<top_, made, next, items, remove, control, loc>>
-----------------------------------------------------------------------------
\* is_empty: every slot is looked at twice.
EmptyStart(t) ==
  \E r \in Index : Local(t, "empty", [loc[t] EXCEPT !.index = r, !.i = 0], "first look")

\* pop asks of the last segment, try_remove_ksegment of another one.
IfEmpty(t)    == IF loc[t].next = NULL THEN "last check" ELSE "remove segment"
IfNotEmpty(t) == IF loc[t].next = NULL THEN "pop" ELSE "sub remove"

FirstLook(t) ==
  LET l == loc[t]
      item_old == items[l.top_old.value][l.index]
      more == l.i + 1 < k
  IN Local(t, "first look", [l EXCEPT !.old_records[l.index] = item_old, !.i = IF more THEN @ + 1 ELSE 0,
                                      !.index = (@ + 1) % k],
           IF item_old.value # Empty THEN IfNotEmpty(t)
           ELSE IF more THEN "first look" ELSE "second look")

SecondLook(t) ==
  LET l == loc[t]
      more == l.i + 1 < k
  IN Local(t, "second look", [l EXCEPT !.i = IF more THEN @ + 1 ELSE 0, !.index = (@ + 1) % k],
           IF items[l.top_old.value][l.index] # l.old_records[l.index] THEN IfNotEmpty(t)
           ELSE IF more THEN "second look" ELSE IfEmpty(t))

is_empty(t) == EmptyStart(t) \/ FirstLook(t) \/ SecondLook(t)

LastCheck(t) == Local(t, "last check", loc[t], IF top_ = loc[t].top_old THEN "return" ELSE "pop")

\* try_remove_ksegment: those who try are counted while they do.
RemoveLoads(t) ==
  LET l == loc[t] IN
  \/ Local(t, "next", [l EXCEPT !.next = next[top_.value]], "remove check")
  \/ Local(t, "remove check", l, IF top_ = l.top_old /\ l.next # NULL THEN "add remove" ELSE "pop")

Count(t, d, at, to) ==
  /\ pc[t] = at
  /\ remove' = [remove EXCEPT ![loc[t].top_old.value] = (@ + d) % 256]
  /\ Goto(t, to)
  /\ UNCHANGED <<top_, made, next, items, markers, control, loc>>

AddRemove(t) == Count(t, 1, "add remove", "empty")
SubRemove(t) == Count(t, 255, "sub remove", "pop")

RemoveSegment(t) ==
  LET l == loc[t] IN
  /\ pc[t] = "remove segment"
  /\ IF top_ = l.top_old
       THEN top_' = SegmentPtr(l.next, top_.tag + 1) /\ Goto(t, "pop")
       ELSE UNCHANGED top_ /\ Goto(t, "sub remove")
  /\ UNCHANGED <<made, next, items, remove, markers, control, loc>>

try_remove_ksegment(t) == RemoveLoads(t) \/ AddRemove(t) \/ RemoveSegment(t) \/ SubRemove(t)
-----------------------------------------------------------------------------
Return(t) ==
  /\ pc[t] = "return"
  /\ Goto(t, "idle")
  /\ Returned(t, op[t], result[t])
  /\ result' = [result EXCEPT ![t] = Empty]
  /\ loc' = [loc EXCEPT ![t] = NoLocals]
  /\ UNCHANGED <<shared, op>>

find_index(t) == FindStart(t) \/ Look(t)

push(t) == try_add_new_ksegment(t) \/ committed(t) \/ Mark(t)
pop(t)  == is_empty(t) \/ LastCheck(t) \/ try_remove_ksegment(t)

Step(t) ==
  \/ LoadTop(t) \/ find_index(t) \/ CheckTop(t) \/ SwapItem(t)
  \/ push(t) \/ pop(t) \/ Return(t)
-----------------------------------------------------------------------------
Quiet == \A t \in Threads : pc[t] = "idle"

\* The segments below s, with s.
Below(s) == LET below[r \in KSegment] == {r} \cup (IF next[r] = NULL THEN {} ELSE below[next[r]]) IN below[s]
OnStack == Below(top_.value)

\* Type invariant.
TypeOK ==
  /\ top_.value \in 1 .. made /\ top_.tag \in 0 .. 65535
  /\ \A s \in KSegment : next[s] \in 0 .. s - 1
  /\ items \in [KSegment -> [Index -> [value : Values \cup {Empty}, tag : 0 .. 65535]]]
  /\ remove \in [KSegment -> 0 .. 255] /\ markers \in [KSegment -> SUBSET Threads]
  /\ op \in [Threads -> Operations] /\ result \in [Threads -> Values \cup {Empty}]
  /\ \A t \in Threads : loc[t].index \in Index /\ loc[t].i \in Index

\* A segment is removed only with nothing in it but items whose pushes will see that and
\* take them back.
NothingLost == \A s \in 1 .. made \ OnStack, i \in Index :
  items[s][i].value # Empty =>
    \E t \in Threads : /\ pc[t] \in {"committed", "commit remove", "commit top", "bump top", "take back"}
                       /\ loc[t].top_old.value = s /\ loc[t].index = i /\ loc[t].new = items[s][i]

\* When all operations have returned there is an order of them in which every pop takes
\* one of the k newest items, and answers false only when there was none.
OutOfOrderUpToK == Quiet => OutOfOrder(k)

\* Built with LOCALLY_LINEARIZABLE no segment holds two items of one thread, so that each
\* thread's items leave newest first.
PushedBy(t) ==
  { finished[t][j].op.val : j \in { h \in DOMAIN finished[t] : finished[t][h].op.kind = "push" } }
  \cup (IF Pushing(t) THEN {op[t].val} ELSE {})

OneOfEach == \A s \in KSegment, t \in Threads :
  Cardinality({ i \in Index : items[s][i].value \in PushedBy(t) }) <= 1
=============================================================================
