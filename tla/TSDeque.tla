------------------------------ MODULE TSDeque ------------------------------
(***************************************************************************)
(* TSDeque and TSDequeBuffer (scal-master/src/datastructures/ts_deque.h,   *)
(* ts_deque_buffer.h): every thread inserts into a buffer of its own, a    *)
(* doubly linked list, and stamps the item afterwards; a pop looks at all  *)
(* buffers for the outermost item by their stamps and takes it by setting  *)
(* taken.  Items are unlinked lazily and never used again.                 *)
(*                                                                         *)
(* An item is named by its thread and its insertion index: negative for    *)
(* one inserted at the left, 0 for the sentinel.  The code of the two      *)
(* sides is the same but for the mirror image, and for the second removal  *)
(* attempt of try_remove_left; here one side is a parameter s.             *)
(***************************************************************************)
EXTENDS DequeHistory, TimeStamping, FiniteSets

CONSTANTS
  Starts,     \* the random buffers a removal may start with
  NumItems    \* bound: items per thread

TSDequeAssumption ==
  /\ Threads = 0 .. Cardinality(Threads) - 1
  /\ Starts \subseteq Threads

Items   == Threads \X (-NumItems .. NumItems)
Index(item) == item[2]
NoItem  == <<-1, 0>>

Far(s) == IF s = "L" THEN "R" ELSE "L"

VARIABLES
  ends,         \* left2_ and right2_, per side and thread: item and cntr
  link,         \* left and right of every item, per side
  taken,        \* the items with taken set
  data,         \* the value in every item
  timestamp,    \* the stamp of every item
  next_index,   \* next_index2_
  emptiness_check, \* emptiness_check_left2_ and emptiness_check_right2_
  pc, op,       \* where each thread is, in which operation
  result,       \* what it will return
  loc           \* its local variables

vars == <<ends, link, taken, data, timestamp, next_index, emptiness_check, clock, pc, op,
          result, loc, history>>
lists == <<ends, link, next_index>>
items == <<taken, data, timestamp>>

ItemPtr(item, cntr) == [item |-> item, cntr |-> cntr]
NoPtr == ItemPtr(NoItem, 0)

NoLocals == [item |-> NoItem,          \* new_item, or the item found
             at |-> NoItem,            \* where the walk along a list is
             old |-> NoPtr,            \* old_left of an insertion, tmp_left of a removal
             other |-> NoPtr,          \* the pointer of the other end
             threshold |-> 0,
             i |-> 0, start |-> 0, empty |-> TRUE, again |-> FALSE,
             ts |-> Sentinel,          \* item_timestamp
             best |-> NoItem, best_old |-> NoPtr, best_buffer |-> 0, best_ts |-> Sentinel,
             invocation_time |-> Sentinel, start_time |-> Sentinel]

Init ==
  LET sentinel(t) == <<t, 0>> IN
  /\ ends = [s \in Sides |-> [t \in Threads |-> ItemPtr(sentinel(t), 0)]]
  /\ link = [s \in Sides |-> [item \in Items |-> item]]
  /\ taken = { sentinel(t) : t \in Threads }
  /\ data = [item \in Items |-> Empty]
  /\ timestamp = [item \in Items |-> IF item \in taken THEN Sentinel ELSE Top]
  /\ next_index = [t \in Threads |-> 1]
  /\ emptiness_check = [s \in Sides |-> [t \in Threads |-> [u \in Threads |-> NoPtr]]]
  /\ clock = 1
  /\ pc = [t \in Threads |-> "idle"]
  /\ op = [t \in Threads |-> Pop("L")]
  /\ result = [t \in Threads |-> Empty]
  /\ loc = [t \in Threads |-> NoLocals]
  /\ HistoryInit

Goto(t, l) == pc' = [pc EXCEPT ![t] = l]
Side(t) == op[t].side
Buffer(t) == (loc[t].start + loc[t].i) % Cardinality(Threads)

inserted_left(item)  == Index(item) < 0
inserted_right(item) == Index(item) > 0
InsertedAt(s, item) == IF s = "L" THEN inserted_left(item) ELSE inserted_right(item)

is_more_left(item1, timestamp1, item2, timestamp2) ==
  IF inserted_left(item2) THEN inserted_left(item1) /\ is_later(timestamp1, timestamp2)
                          ELSE inserted_left(item1) \/ is_later(timestamp2, timestamp1)
is_more_right(item1, timestamp1, item2, timestamp2) ==
  IF inserted_right(item2) THEN inserted_right(item1) /\ is_later(timestamp1, timestamp2)
                           ELSE inserted_right(item1) \/ is_later(timestamp2, timestamp1)

More(s, item1, timestamp1, item2, timestamp2) ==
  IF s = "L" THEN is_more_left(item1, timestamp1, item2, timestamp2)
             ELSE is_more_right(item1, timestamp1, item2, timestamp2)
-----------------------------------------------------------------------------
(* Insertion at side s of the thread's own list. *)

\* left_push, right_push: a new item, which only its thread knows.
CallPush(t, o) ==
  LET item == <<t, IF o.side = "L" THEN -next_index[t] ELSE next_index[t]>> IN
  /\ pc[t] = "idle" /\ o.kind = "push"
  /\ op' = [op EXCEPT ![t] = o]
  /\ data' = [data EXCEPT ![item] = o.val]
  /\ next_index' = [next_index EXCEPT ![t] = @ + 1]
  /\ loc' = [loc EXCEPT ![t].item = item]
  /\ Called(t)
  /\ Goto(t, "end")
  /\ UNCHANGED <<ends, link, taken, timestamp, emptiness_check, clock, result>>

LoadEnd(t) ==
  /\ pc[t] = "end"
  /\ loc' = [loc EXCEPT ![t].old = ends[Side(t)][t], ![t].at = ends[Side(t)][t].item]
  /\ Goto(t, "walk")
  /\ UNCHANGED <<lists, items, emptiness_check, clock, op, result, history>>

\* To the outermost item that has not been taken; only this thread writes the links.
Walk(t) ==
  LET at == loc[t].at
      next == link[Far(Side(t))][at]
  IN
  /\ pc[t] = "walk"
  /\ IF next # at /\ at \in taken
       THEN loc' = [loc EXCEPT ![t].at = next] /\ UNCHANGED pc
       ELSE Goto(t, "last") /\ UNCHANGED loc
  /\ UNCHANGED <<lists, items, emptiness_check, clock, op, result, history>>

\* Is the list empty?  Then the item goes next to the one the pointer has.
Last(t) ==
  LET at == loc[t].at
      start == loc[t].old.item
  IN
  /\ pc[t] = "last"
  /\ IF at \in taken /\ link[Far(Side(t))][at] = at
       THEN /\ loc' = [loc EXCEPT ![t].at = start]
            /\ link' = [link EXCEPT ![Far(Side(t))][start] = start]
            /\ Goto(t, "other")
       ELSE Goto(t, "link") /\ UNCHANGED <<loc, link>>
  /\ UNCHANGED <<ends, next_index, items, emptiness_check, clock, op, result, history>>

LoadOther(t) ==
  /\ pc[t] = "other"
  /\ loc' = [loc EXCEPT ![t].other = ends[Far(Side(t))][t]]
  /\ Goto(t, "cut")
  /\ UNCHANGED <<lists, items, emptiness_check, clock, op, result, history>>

\* The counter keeps removals that are still going on from setting the other pointer.
StoreOther(t) ==
  /\ pc[t] = "cut"
  /\ ends' = [ends EXCEPT ![Far(Side(t))][t] = ItemPtr(loc[t].at, loc[t].other.cntr + 1)]
  /\ loc' = [loc EXCEPT ![t].other = NoPtr]
  /\ Goto(t, "link")
  /\ UNCHANGED <<link, next_index, items, emptiness_check, clock, op, result, history>>

Link(t) ==
  LET s == Side(t) IN
  /\ pc[t] = "link"
  /\ link' = [link EXCEPT ![Far(s)][loc[t].item] = loc[t].at, ![s][loc[t].at] = loc[t].item]
  /\ Goto(t, "publish")
  /\ UNCHANGED <<ends, next_index, items, emptiness_check, clock, op, loc, result, history>>

Publish(t) ==
  /\ pc[t] = "publish"
  /\ ends' = [ends EXCEPT ![Side(t)][t] = ItemPtr(loc[t].item, loc[t].old.cntr + 1)]
  /\ loc' = [loc EXCEPT ![t].at = NoItem, ![t].old = NoPtr]
  /\ Goto(t, "acquire")
  /\ UNCHANGED <<link, next_index, items, emptiness_check, clock, op, result, history>>

Inserting(t, s) ==
  Side(t) = s /\ (LoadEnd(t) \/ Walk(t) \/ Last(t) \/ LoadOther(t) \/ StoreOther(t) \/ Link(t) \/ Publish(t))

insert_left(t)  == Inserting(t, "L")
insert_right(t) == Inserting(t, "R")

\* set_timestamp: a stamp is acquired, then assigned to the item; an interval has two.
Acquire(t) ==
  /\ pc[t] \in {"acquire", "acquire2"}
  /\ Tick
  /\ loc' = [loc EXCEPT ![t].ts = Now]
  /\ Goto(t, IF pc[t] = "acquire" THEN "assign" ELSE "assign2")
  /\ UNCHANGED <<lists, items, emptiness_check, op, result, history>>

Assign(t) ==
  LET item == loc[t].item
      two == TwoWords /\ pc[t] = "assign"
  IN
  /\ pc[t] \in {"assign", "assign2"}
  /\ timestamp' = [timestamp EXCEPT ![item] =
       IF two THEN <<loc[t].ts[1], @[2]>> ELSE IF pc[t] = "assign2" THEN <<@[1], loc[t].ts[2]>>
                                          ELSE loc[t].ts]
  /\ IF two THEN Goto(t, "acquire2") /\ UNCHANGED loc
            ELSE Goto(t, "return") /\ loc' = [loc EXCEPT ![t] = NoLocals]
  /\ UNCHANGED <<lists, taken, data, emptiness_check, clock, op, result, history>>
-----------------------------------------------------------------------------
(* Removal from side s. *)

\* left_pop, right_pop: the invocation time is read, and the first attempt begins.
CallPop(t, o) ==
  /\ pc[t] = "idle" /\ o.kind = "pop"
  /\ op' = [op EXCEPT ![t] = o]
  /\ Called(t)
  /\ Goto(t, "invoke")
  /\ UNCHANGED <<lists, items, emptiness_check, clock, loc, result>>

Invoke(t) ==
  /\ pc[t] = "invoke"
  /\ loc' = [loc EXCEPT ![t].invocation_time = Now]
  /\ ReadTick
  /\ Goto(t, "start")
  /\ UNCHANGED <<lists, items, emptiness_check, op, result, history>>

\* An attempt: the start time, and a random buffer to begin with.
Start(t) ==
  /\ pc[t] = "start"
  /\ \E b \in Starts :
       loc' = [loc EXCEPT ![t] = [NoLocals EXCEPT !.invocation_time = loc[t].invocation_time,
                                                  !.start_time = Now, !.start = b]]
  /\ ReadTick
  /\ Goto(t, "buffer")
  /\ UNCHANGED <<lists, items, emptiness_check, op, result, history>>

LoadTmp(t) ==
  /\ pc[t] = "buffer"
  /\ loc' = [loc EXCEPT ![t].old = ends[Side(t)][Buffer(t)]]
  /\ Goto(t, "threshold")
  /\ UNCHANGED <<lists, items, emptiness_check, clock, op, result, history>>

\* get_left_item, get_right_item: the search ends at the other pointer's index.
Threshold(t) ==
  /\ pc[t] = "threshold"
  /\ loc' = [loc EXCEPT ![t].threshold = Index(ends[Far(Side(t))][Buffer(t)].item)]
  /\ Goto(t, "near")
  /\ UNCHANGED <<lists, items, emptiness_check, clock, op, result, history>>

Near(t) ==
  /\ pc[t] = "near"
  /\ loc' = [loc EXCEPT ![t].at = ends[Side(t)][Buffer(t)].item]
  /\ Goto(t, "look")
  /\ UNCHANGED <<lists, items, emptiness_check, clock, op, result, history>>

Beyond(s, item, threshold) ==
  IF s = "L" THEN Index(item) > threshold ELSE Index(item) < threshold

\* On to the next buffer, or out of the loop.  l is the thread's locals.
NextBuffer(t, l) ==
  /\ loc' = [loc EXCEPT ![t] = [l EXCEPT !.i = @ + 1, !.again = FALSE,
                                         !.item = NoItem, !.at = NoItem,
                                         !.old = NoPtr, !.threshold = 0, !.ts = Sentinel]]
  /\ Goto(t, IF l.i + 1 < Cardinality(Threads) THEN "buffer" ELSE "end of loop")

\* Nothing found: the pointer is compared with the one of the last time, but not at a
\* second look.
Nothing(t) ==
  LET s == Side(t)
      same == emptiness_check[s][t][Buffer(t)] = loc[t].old
  IN
  IF loc[t].again
    THEN NextBuffer(t, loc[t]) /\ UNCHANGED emptiness_check
    ELSE /\ emptiness_check' = [emptiness_check EXCEPT ![s][t][Buffer(t)] = loc[t].old]
         /\ loc' = [loc EXCEPT ![t].empty = @ /\ same, ![t].at = NoItem, ![t].threshold = 0]
         /\ Goto(t, "check other")

\* The item the search has come to: too far, not taken, or taken.
Look(t) ==
  LET at == loc[t].at IN
  /\ pc[t] = "look"
  /\ \/ Beyond(Side(t), at, loc[t].threshold) /\ Nothing(t)
     \/ /\ ~Beyond(Side(t), at, loc[t].threshold) /\ at \notin taken
        /\ loc' = [loc EXCEPT ![t].item = at, ![t].at = NoItem, ![t].threshold = 0, ![t].empty = FALSE]
        /\ Goto(t, "load timestamp")
        /\ UNCHANGED emptiness_check
     \/ /\ ~Beyond(Side(t), at, loc[t].threshold) /\ at \in taken
        /\ Goto(t, "end of list")
        /\ UNCHANGED <<loc, emptiness_check>>
  /\ UNCHANGED <<lists, items, clock, op, result, history>>

EndOfList(t) ==
  /\ pc[t] = "end of list"
  /\ IF link[Far(Side(t))][loc[t].at] = loc[t].at
       THEN Nothing(t)
       ELSE Goto(t, "next") /\ UNCHANGED <<loc, emptiness_check>>
  /\ UNCHANGED <<lists, items, clock, op, result, history>>

NextItem(t) ==
  /\ pc[t] = "next"
  /\ loc' = [loc EXCEPT ![t].at = link[Far(Side(t))][@]]
  /\ Goto(t, "look")
  /\ UNCHANGED <<lists, items, emptiness_check, clock, op, result, history>>

\* get_left_item and get_right_item.
Searching(t, s) ==
  Side(t) = s /\ (Threshold(t) \/ Near(t) \/ Look(t) \/ EndOfList(t) \/ NextItem(t))

get_left_item(t)  == Searching(t, "L")
get_right_item(t) == Searching(t, "R")

CheckOther(t) ==
  LET s == Far(Side(t))
      b == Buffer(t)
      same == emptiness_check[s][t][b] = ends[s][b]
  IN
  /\ pc[t] = "check other"
  /\ emptiness_check' = [emptiness_check EXCEPT ![s][t][b] = ends[s][b]]
  /\ NextBuffer(t, [loc[t] EXCEPT !.empty = @ /\ same])
  /\ UNCHANGED <<lists, items, clock, op, result, history>>

\* Mutant of Concurrent: every item pushed at this side may be eliminated.
ConcurrentEver(t, ts) == TRUE

\* The item was not stamped before the removal was invoked: it may be eliminated.
Concurrent(t, ts) == ~is_later(loc[t].invocation_time, ts)

\* An item was found and its stamp ts is known: it is eliminated when it was pushed at this
\* side since the removal was invoked, or remembered when it is the outermost so far.
Found(t, ts) ==
  LET s == Side(t)
      l == [loc[t] EXCEPT !.ts = ts]
      outermost == l.best = NoItem \/ More(s, l.item, ts, l.best, l.best_ts)
      kept == IF outermost
                THEN [l EXCEPT !.best = l.item, !.best_old = l.old, !.best_buffer = Buffer(t), !.best_ts = ts]
                ELSE l
      eliminate == InsertedAt(s, l.item) /\ Concurrent(t, ts)
  IN
  IF eliminate /\ ~l.again THEN loc' = [loc EXCEPT ![t] = l] /\ Goto(t, "eliminate")
  ELSE IF eliminate /\ outermost /\ s = "L" THEN loc' = [loc EXCEPT ![t] = kept] /\ Goto(t, "eliminate")
  ELSE NextBuffer(t, kept)

\* load_timestamp: the second word of an interval is read on its own.
LoadTimestamp(t) ==
  /\ pc[t] = "load timestamp"
  /\ IF TwoWords
       THEN loc' = [loc EXCEPT ![t].ts = timestamp[loc[t].item]] /\ Goto(t, "load second")
       ELSE Found(t, timestamp[loc[t].item])
  /\ UNCHANGED <<lists, items, emptiness_check, clock, op, result, history>>

LoadSecond(t) ==
  /\ pc[t] = "load second"
  /\ Found(t, <<loc[t].ts[1], timestamp[loc[t].item][2]>>)
  /\ UNCHANGED <<lists, items, emptiness_check, clock, op, result, history>>

\* Take the item: a load of taken and a compare-exchange from 0 to 1.  What it returns to
\* is the update of the pointer the item was reached from.
Take(t, item, buffer, old, l) ==
  /\ taken' = taken \cup {item}
  /\ result' = [result EXCEPT ![t] = data[item]]
  /\ loc' = [loc EXCEPT ![t] = [l EXCEPT !.best = item, !.best_buffer = buffer, !.best_old = old]]
  /\ Goto(t, "adjust")

\* try_remove_left, try_remove_right: when the item is gone the buffer is searched once
\* more, and left for the next one when that was the second attempt.
Eliminate(t) ==
  /\ pc[t] = "eliminate"
  /\ \/ loc[t].item \notin taken /\ Take(t, loc[t].item, Buffer(t), loc[t].old, loc[t])
     \/ /\ loc[t].item \in taken /\ ~loc[t].again
        /\ loc' = [loc EXCEPT ![t].again = TRUE, ![t].item = NoItem, ![t].ts = Sentinel]
        /\ Goto(t, "threshold")
        /\ UNCHANGED <<taken, result>>
     \/ /\ loc[t].item \in taken /\ loc[t].again
        /\ NextBuffer(t, loc[t])
        /\ UNCHANGED <<taken, result>>
  /\ UNCHANGED <<lists, data, timestamp, emptiness_check, clock, op, history>>

\* Mutant of EndOfLoop: the start time is not looked at.
EndOfLoopAny(t) ==
  LET l == loc[t] IN
  /\ pc[t] = "end of loop"
  /\ IF l.best # NoItem /\ l.best \notin taken
       THEN Take(t, l.best, l.best_buffer, l.best_old, l)
       ELSE /\ loc' = [loc EXCEPT ![t] = [NoLocals EXCEPT !.invocation_time = l.invocation_time]]
            /\ Goto(t, IF l.empty THEN "return" ELSE "start")
            /\ UNCHANGED <<taken, result>>
  /\ UNCHANGED <<lists, data, timestamp, emptiness_check, clock, op, history>>

\* All buffers have been looked at.  The outermost item may be taken unless it was
\* stamped after the attempt began; without any the pop ends when nothing has moved.
EndOfLoop(t) ==
  LET l == loc[t] IN
  /\ pc[t] = "end of loop"
  /\ IF l.best # NoItem /\ ~is_later(l.best_ts, l.start_time) /\ l.best \notin taken
       THEN Take(t, l.best, l.best_buffer, l.best_old, l)
       ELSE /\ loc' = [loc EXCEPT ![t] = [NoLocals EXCEPT !.invocation_time = l.invocation_time]]
            /\ Goto(t, IF l.empty THEN "return" ELSE "start")
            /\ UNCHANGED <<taken, result>>
  /\ UNCHANGED <<lists, data, timestamp, emptiness_check, clock, op, history>>

\* The pointer moves to the item that was taken, unless it has changed since.
Adjust(t) ==
  LET l == loc[t]
      s == Side(t)
      b == l.best_buffer
  IN
  /\ pc[t] = "adjust"
  /\ ends' = [ends EXCEPT ![s][b] = IF @ = l.best_old THEN ItemPtr(l.best, l.best_old.cntr) ELSE @]
  /\ Goto(t, "return")
  /\ loc' = [loc EXCEPT ![t] = NoLocals]
  /\ UNCHANGED <<link, next_index, items, emptiness_check, clock, op, result, history>>

Return(t) ==
  /\ pc[t] = "return"
  /\ Goto(t, "idle")
  /\ Returned(t, op[t], result[t])
  /\ result' = [result EXCEPT ![t] = Empty]
  /\ loc' = [loc EXCEPT ![t] = NoLocals]
  /\ UNCHANGED <<lists, items, emptiness_check, clock, op>>

Removing(t, s) ==
  Side(t) = s /\ (Start(t) \/ LoadTmp(t) \/ LoadTimestamp(t) \/ LoadSecond(t) \/ Eliminate(t)
                  \/ CheckOther(t) \/ EndOfLoop(t) \/ Adjust(t))

try_remove_left(t)  == Removing(t, "L")
try_remove_right(t) == Removing(t, "R")

Call(t, o) == CallPush(t, o) \/ CallPop(t, o)

Step(t) ==
  \/ insert_left(t) \/ insert_right(t) \/ Acquire(t) \/ Assign(t)
  \/ Invoke(t) \/ try_remove_left(t) \/ try_remove_right(t) \/ get_left_item(t) \/ get_right_item(t)
  \/ Return(t)

\* Bounds: the items of a thread, and the clock, which every attempt of a removal may read.
Bounded == (\A t \in Threads : next_index[t] <= NumItems + 1) /\ clock < NumTimes
-----------------------------------------------------------------------------
ItemPtrs == [item : Items \cup {NoItem}, cntr : Nat]

\* Type invariant.
TypeOK ==
  /\ ends \in [Sides -> [Threads -> [item : Items, cntr : Nat]]]
  /\ link \in [Sides -> [Items -> Items]]
  /\ taken \subseteq Items
  /\ data \in [Items -> Values \cup {Empty}]
  /\ timestamp \in [Items -> Stamps]
  /\ next_index \in [Threads -> 1 .. NumItems + 1]
  /\ emptiness_check \in [Sides -> [Threads -> [Threads -> ItemPtrs]]]
  /\ clock \in 1 .. NumTimes
  /\ op \in [Threads -> Operations]
  /\ result \in [Threads -> Values \cup {Empty}]
  /\ \A t \in Threads :
       /\ loc[t].item \in Items \cup {NoItem} /\ loc[t].best \in Items \cup {NoItem}
       /\ loc[t].ts \in Stamps /\ loc[t].best_ts \in Stamps
       /\ loc[t].i \in 0 .. Cardinality(Threads)

\* The first item not taken, from the pointer of side s along the links.
Outermost(s, t) ==
  LET far == Far(s)
      First[item \in Items] ==
        IF item \notin taken THEN item
        ELSE IF link[far][item] = item THEN NoItem ELSE First[link[far][item]]
  IN First[ends[s][t].item]

\* The items of a buffer not taken yet, outermost of side s first.
Present(t) == { item \in Items : item[1] = t /\ item \notin taken /\ data[item] # Empty }

\* Whatever removals are still going on, the two pointers of a buffer lead to the same
\* list: while its thread inserts nothing, a search from either side finds the item of
\* that side, and finds nothing only when nothing is there.
Reachable == \A t \in Threads : pc[t] \in {"idle", "acquire", "assign", "acquire2", "assign2"} =>
  /\ Present(t) = {} => Outermost("L", t) = NoItem /\ Outermost("R", t) = NoItem
  /\ Present(t) # {} =>
       /\ Outermost("L", t) \in Present(t)
       /\ \A item \in Present(t) : Index(Outermost("L", t)) <= Index(item)
       /\ Outermost("R", t) \in Present(t)
       /\ \A item \in Present(t) : Index(item) <= Index(Outermost("R", t))

\* When all operations have returned there is an order of them that a sequential deque
\* would give the same answers in (RDeque's interface): the outermost items are found by
\* their stamps, no value is returned twice, and EMPTY is the answer of an empty deque.
Linearizable == (\A t \in Threads : pc[t] = "idle") => HistoryExplained

\* Items that were stamped after the start time and inserted at the other side are not
\* removed.  A stamp of the counter that equals the start time was taken after it.
StampedAfter(ts, start_time) ==
  IF TimeStamp = "AtomicCounter" THEN ts[1] >= start_time[1] ELSE ts[1] > start_time[1]

OnlyInTime ==
  \A t \in Threads : pc[t] = "end of loop" /\ pc'[t] = "adjust" =>
    InsertedAt(Side(t), loc[t].best) \/ ~StampedAfter(loc[t].best_ts, loc[t].start_time)
=============================================================================
