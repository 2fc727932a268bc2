------------------------------ MODULE TSQueue ------------------------------
(***************************************************************************)
(* TSQueue and TSQueueBuffer (scal-master/src/datastructures/ts_queue.h,   *)
(* ts_queue_buffer.h): every thread enqueues into a buffer of its own and  *)
(* stamps the item afterwards; dequeue looks at all buffers for the oldest *)
(* item by the stamps and takes it by moving the remove pointer of its     *)
(* buffer on.  enqueue is Push("R"), dequeue Pop("L").                     *)
(***************************************************************************)
EXTENDS SPBuffers

VARIABLES
  insert,     \* the insert pointer of every buffer: its last item
  remove,     \* the remove pointer: the item removed last
  next,       \* next of every item
  data,       \* the value in every item
  timestamp,  \* the stamp of every item
  emptiness_check,  \* emptiness_check_pointers_
  loc         \* local variables

vars == <<ringVars, insert, remove, next, data, timestamp, emptiness_check, clock, pc, op,
          result, loc, history>>
buffers == <<insert, remove, next>>
items == <<data, timestamp>>
control == <<op, result, history>>

NoLocals == [item |-> Null,                    \* new_item, or the item found
             tmp_remove |-> NoPtr, ts |-> Sentinel,
             hops |-> 0, current |-> 0, start |-> 0, entry_counter |-> 0, empty |-> TRUE,
             best |-> Null, best_old |-> NoPtr, best_buffer |-> 0, best_ts |-> Top,
             start_time |-> Sentinel]

Init ==
  /\ RingInit /\ HistoryInit
  /\ insert = [b \in SPBuffer |-> SentinelOf(b)]
  /\ remove = [b \in SPBuffer |-> ItemPtr(SentinelOf(b), 0)]
  /\ next = [item \in Items |-> Null]
  /\ data = [item \in Items |-> Empty]
  /\ timestamp = [item \in Items |-> IF item[2] = 0 THEN Sentinel ELSE Top]
  /\ emptiness_check = [t \in Threads |-> [u \in Threads |-> NoPtr]]
  /\ clock = 1
  /\ loc = [t \in Threads |-> NoLocals]

-----------------------------------------------------------------------------
\* enqueue: a new item, with number one more than the last of the thread.
CallEnqueue(t, o) ==
  LET item == <<t, insert[t][2] + 1>> IN
  /\ pc[t] = "idle" /\ o.kind = "push"
  /\ op' = [op EXCEPT ![t] = o]
  /\ data' = [data EXCEPT ![item] = o.val]
  /\ loc' = [loc EXCEPT ![t].item = item]
  /\ Called(t)
  /\ Goto(t, IF t \in spBuffers_ THEN "insert" ELSE "create")
  /\ UNCHANGED <<ringVars, buffers, timestamp, emptiness_check, clock, result>>

Register(t) ==
  /\ register_thread(t)
  /\ UNCHANGED <<buffers, items, emptiness_check, clock, loc, history>>

\* The last item points to the new one, then the insert pointer does.
Append_(t) ==
  /\ \/ /\ pc[t] = "insert"
        /\ next' = [next EXCEPT ![insert[t]] = loc[t].item]
        /\ Goto(t, "publish")
        /\ UNCHANGED insert
     \/ /\ pc[t] = "publish"
        /\ insert' = [insert EXCEPT ![t] = loc[t].item]
        /\ Goto(t, "acquire")
        /\ UNCHANGED next
  /\ UNCHANGED <<ringVars, remove, items, emptiness_check, clock, loc, control>>

insert_left(t) == Register(t) \/ Append_(t)

\* set_timestamp: a stamp is acquired, then assigned to the item; an interval has two.
Acquire(t) ==
  /\ pc[t] \in {"acquire", "acquire2"}
  /\ Tick
  /\ loc' = [loc EXCEPT ![t].ts = Now]
  /\ Goto(t, IF pc[t] = "acquire" THEN "assign" ELSE "assign2")
  /\ UNCHANGED <<ringVars, buffers, items, emptiness_check, control>>

Assign(t) ==
  LET two == TwoWords /\ pc[t] = "assign" IN
  /\ pc[t] \in {"assign", "assign2"}
  /\ timestamp' = [timestamp EXCEPT ![loc[t].item] =
       <<IF pc[t] = "assign2" THEN @[1] ELSE loc[t].ts[1], IF two THEN @[2] ELSE loc[t].ts[2]>>]
  /\ IF two THEN Goto(t, "acquire2") /\ UNCHANGED loc
            ELSE Goto(t, "return") /\ loc' = [loc EXCEPT ![t] = NoLocals]
  /\ UNCHANGED <<ringVars, buffers, data, emptiness_check, clock, control>>
-----------------------------------------------------------------------------
CallDequeue(t, o) ==
  /\ pc[t] = "idle" /\ o.kind = "pop"
  /\ op' = [op EXCEPT ![t] = o]
  /\ Called(t)
  /\ Goto(t, "start")
  /\ UNCHANGED <<ringVars, buffers, items, emptiness_check, clock, loc, result>>

\* An attempt: the start time, and a random number of buffers to skip.
Start(t) ==
  /\ pc[t] = "start"
  /\ \E n \in Starts :
       /\ loc' = [loc EXCEPT ![t] = [NoLocals EXCEPT !.start_time = Now, !.hops = n]]
       /\ Goto(t, IF n = 0 THEN "next" ELSE "hop")
  /\ ReadTick
  /\ UNCHANGED <<ringVars, buffers, items, emptiness_check, control>>

Hop(t) ==
  LET b == ring[loc[t].current] IN
  /\ pc[t] = "hop"
  /\ loc' = [loc EXCEPT ![t].current = b, ![t].start = b, ![t].hops = @ - 1]
  /\ Goto(t, IF loc[t].hops = 1 THEN "next" ELSE "hop")
  /\ UNCHANGED <<ringVars, buffers, items, emptiness_check, clock, control>>

\* On to the next buffer, but not past the entry buffer a second time.
NextBuffer(t) ==
  LET l == loc[t]
      n == l.entry_counter + IF l.current = entry_buffer_ THEN 1 ELSE 0
  IN
  /\ pc[t] = "next"
  /\ IF n >= 2
       THEN Goto(t, "end of loop") /\ UNCHANGED loc
       ELSE /\ loc' = [loc EXCEPT ![t].entry_counter = n, ![t].current = ring[l.current]]
            /\ Goto(t, "remove")
  /\ UNCHANGED <<ringVars, buffers, items, emptiness_check, clock, control>>

\* The body of the loop is left with the locals l.
EndBody(t, l) ==
  /\ loc' = [loc EXCEPT ![t] = [l EXCEPT !.item = Null, !.tmp_remove = NoPtr, !.ts = Sentinel]]
  /\ Goto(t, IF l.current = l.start THEN "end of loop" ELSE "next")

LoadRemove(t) ==
  /\ pc[t] = "remove"
  /\ loc' = [loc EXCEPT ![t].tmp_remove = remove[loc[t].current]]
  /\ Goto(t, "tmp_insert")
  /\ UNCHANGED <<ringVars, buffers, items, emptiness_check, clock, control>>

\* An empty buffer has not changed if its remove pointer is that of the last time.
LoadInsert(t) ==
  LET l == loc[t]
      b == l.current
  IN
  /\ pc[t] = "tmp_insert"
  /\ \/ /\ get_aba_free_pointer(l.tmp_remove) # insert[b]
        /\ loc' = [loc EXCEPT ![t].empty = FALSE]
        /\ Goto(t, "item")
        /\ UNCHANGED emptiness_check
     \/ /\ get_aba_free_pointer(l.tmp_remove) = insert[b] /\ b = entry_buffer_
        /\ EndBody(t, l)
        /\ UNCHANGED emptiness_check
     \/ /\ get_aba_free_pointer(l.tmp_remove) = insert[b] /\ b # entry_buffer_
        /\ EndBody(t, [l EXCEPT !.empty = @ /\ emptiness_check[t][b] = l.tmp_remove])
        /\ emptiness_check' = [emptiness_check EXCEPT ![t][b] = l.tmp_remove]
  /\ UNCHANGED <<ringVars, buffers, items, clock, control>>

LoadItem(t) ==
  /\ pc[t] = "item"
  /\ loc' = [loc EXCEPT ![t].item = next[get_aba_free_pointer(loc[t].tmp_remove)]]
  /\ Goto(t, "timestamp")
  /\ UNCHANGED <<ringVars, buffers, items, emptiness_check, clock, control>>

\* The item is remembered when it is the oldest so far.
Found(t, ts) ==
  LET l == loc[t] IN
  IF is_later(l.best_ts, ts)
    THEN EndBody(t, [l EXCEPT !.best = l.item, !.best_old = l.tmp_remove, !.best_buffer = l.current,
                              !.best_ts = ts])
    ELSE EndBody(t, l)

\* load_timestamp: the second word of an interval is read on its own.
LoadTimestamp(t) ==
  /\ \/ pc[t] = "timestamp" /\ TwoWords
        /\ loc' = [loc EXCEPT ![t].ts = timestamp[loc[t].item]] /\ Goto(t, "second")
     \/ pc[t] = "timestamp" /\ ~TwoWords /\ Found(t, timestamp[loc[t].item])
     \/ pc[t] = "second" /\ Found(t, <<loc[t].ts[1], timestamp[loc[t].item][2]>>)
  /\ UNCHANGED <<ringVars, buffers, items, emptiness_check, clock, control>>

\* Mutant of EndOfLoop: the counter of the remove pointer stays, and nothing is exchanged.
EndOfLoopStore(t) ==
  LET l == loc[t] IN
  /\ pc[t] = "end of loop"
  /\ IF l.best # Null /\ ~is_later(l.best_ts, l.start_time)
       THEN /\ remove' = [remove EXCEPT ![l.best_buffer] = add_next_aba(l.best, l.best_old, 1)]
            /\ result' = [result EXCEPT ![t] = data[l.best]]
            /\ Goto(t, "return")
       ELSE /\ Goto(t, IF l.empty THEN "return" ELSE "start")
            /\ UNCHANGED <<remove, result>>
  /\ loc' = [loc EXCEPT ![t] = NoLocals]
  /\ UNCHANGED <<ringVars, insert, next, items, emptiness_check, clock, op, history>>

\* The oldest item is taken by a compare-exchange of its buffer's remove pointer, unless it
\* was stamped after the attempt began; without any, dequeue ends when nothing has changed.
EndOfLoop(t) ==
  LET l == loc[t] IN
  /\ pc[t] = "end of loop"
  /\ IF l.best # Null /\ ~is_later(l.best_ts, l.start_time) /\ remove[l.best_buffer] = l.best_old
       THEN /\ remove' = [remove EXCEPT ![l.best_buffer] = add_next_aba(l.best, l.best_old, 1)]
            /\ result' = [result EXCEPT ![t] = data[l.best]]
            /\ Goto(t, "return")
       ELSE /\ Goto(t, IF l.empty THEN "return" ELSE "start")
            /\ UNCHANGED <<remove, result>>
  /\ loc' = [loc EXCEPT ![t] = NoLocals]
  /\ UNCHANGED <<ringVars, insert, next, items, emptiness_check, clock, op, history>>

try_remove_right(t) ==
  \/ Start(t) \/ Hop(t) \/ NextBuffer(t) \/ LoadRemove(t) \/ LoadInsert(t) \/ LoadItem(t)
  \/ LoadTimestamp(t) \/ EndOfLoop(t)

Return(t) ==
  /\ pc[t] = "return"
  /\ Goto(t, "idle")
  /\ Returned(t, op[t], result[t])
  /\ result' = [result EXCEPT ![t] = Empty]
  /\ UNCHANGED <<ringVars, buffers, items, emptiness_check, clock, op, loc>>

Call(t, o) == CallEnqueue(t, o) \/ CallDequeue(t, o)

Step(t) == insert_left(t) \/ Acquire(t) \/ Assign(t) \/ try_remove_right(t) \/ Return(t)

\* Bounds: the items of a thread, and the clock, which every attempt may read.
Bounded == clock < NumTimes
-----------------------------------------------------------------------------
Pointers == [item : Items \cup {Null}, aba : 0 .. 7]

\* Type invariant.
TypeOK ==
  /\ spBuffers_ \subseteq Threads /\ ring \in [SPBuffer -> SPBuffer]
  /\ insert \in [SPBuffer -> Items]
  /\ remove \in [SPBuffer -> Pointers]
  /\ next \in [Items -> Items \cup {Null}]
  /\ data \in [Items -> Values \cup {Empty}]
  /\ timestamp \in [Items -> Stamps]
  /\ emptiness_check \in [Threads -> [Threads -> Pointers]]
  /\ clock \in 1 .. NumTimes
  /\ op \in [Threads -> Operations]
  /\ result \in [Threads -> Values \cup {Empty}]
  /\ \A t \in Threads : loc[t].item \in Items \cup {Null} /\ loc[t].entry_counter \in 0 .. 1

\* Every buffer that is in use is in the cyclic list, so that removals find its items,
\* however many threads register at once.
BuffersFound == \A t \in spBuffers_ : pc[t] \notin {"create", "register"} => t \in InRing

\* A removal that finds the two pointers of a buffer different also finds an item there.
ItemThere == \A t \in Threads :
  pc[t] = "item" => next[loc[t].tmp_remove.item] # Null

\* When all operations have returned there is an order of them that a FIFO queue would
\* give the same answers in: the oldest items are found by their stamps, and the queue
\* was empty when a dequeue says so.
Linearizable == (\A t \in Threads : pc[t] = "idle") => HistoryExplained

\* Items that were stamped after the start time are not removed.  A stamp of the counter
\* that equals the start time was taken after it.
StampedAfter(ts, start_time) ==
  IF TwoWords THEN ts[1] > start_time[1] ELSE ts[1] >= start_time[1]

LateItemsStay ==
  [][\A t \in Threads : pc[t] = "end of loop" /\ remove' # remove /\ pc'[t] = "return" =>
       ~StampedAfter(loc[t].best_ts, loc[t].start_time)]_vars
=============================================================================
