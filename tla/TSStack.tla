------------------------------ MODULE TSStack ------------------------------
(***************************************************************************)
(* TSStack and TSStackBuffer (scal-master/src/datastructures/ts_stack.h,   *)
(* ts_stack_buffer.h): every thread pushes onto a list of its own and      *)
(* stamps the item afterwards; pop looks at all lists for the youngest     *)
(* item, or takes one that was pushed since the pop was invoked, by        *)
(* setting taken.  Taken items are unlinked later.  push is Push("R"), pop *)
(* Pop("R").                                                               *)
(***************************************************************************)
EXTENDS SPBuffers

VARIABLES
  list,       \* the pointer to the top item of every buffer, with its counter
  next,       \* next of every item
  taken,      \* the items with taken set
  data,       \* the value in every item
  timestamp,  \* the stamp of every item
  pushes,     \* the items each thread has made
  emptiness_check,  \* emptiness_check_pointers_
  loc         \* local variables

vars == <<ringVars, list, next, taken, data, timestamp, pushes, emptiness_check, clock, pc, op,
          result, loc, history>>
links == <<list, next>>
items == <<data, timestamp, pushes>>
control == <<op, result, history>>

NoLocals == [item |-> Null,            \* new_item, or the item found
             at |-> Null, old_next |-> Null,  \* where the walk along a list is, and began
             top |-> NoPtr, again |-> FALSE, ts |-> Sentinel,
             hops |-> 0, current |-> 0, start |-> 0, entry_counter |-> 0,
             best |-> Null, best_top |-> NoPtr, best_buffer |-> 0, best_ts |-> Sentinel,
             last |-> FALSE,           \* remove is called after the loop
             invocation_time |-> Sentinel]

Init ==
  /\ RingInit /\ HistoryInit
  /\ list = [b \in SPBuffer |-> ItemPtr(SentinelOf(b), 0)]
  /\ next = [item \in Items |-> item]
  /\ taken = { SentinelOf(b) : b \in SPBuffer }
  /\ data = [item \in Items |-> Empty]
  /\ timestamp = [item \in Items |-> IF item[2] = 0 THEN Sentinel ELSE Top]
  /\ pushes = [t \in Threads |-> 0]
  /\ emptiness_check = [t \in Threads |-> [u \in Threads |-> NoPtr]]
  /\ clock = 1
  /\ loc = [t \in Threads |-> NoLocals]

\* The end of a list is the item that points to itself: only the sentinel ever does.
LastItem(item) == next[item] = item
-----------------------------------------------------------------------------
CallPush(t, o) ==
  LET item == <<t, pushes[t] + 1>> IN
  /\ pc[t] = "idle" /\ o.kind = "push"
  /\ op' = [op EXCEPT ![t] = o]
  /\ data' = [data EXCEPT ![item] = o.val]
  /\ pushes' = [pushes EXCEPT ![t] = @ + 1]
  /\ loc' = [loc EXCEPT ![t].item = item]
  /\ Called(t)
  /\ Goto(t, IF t \in spBuffers_ THEN "insert" ELSE "create")
  /\ UNCHANGED <<ringVars, links, taken, timestamp, emptiness_check, clock, result>>

Register(t) ==
  /\ register_thread(t)
  /\ UNCHANGED <<links, taken, items, emptiness_check, clock, loc, history>>

\* The new item is put on top of the list, without a compare-exchange.
LoadList(t) ==
  /\ pc[t] = "insert"
  /\ loc' = [loc EXCEPT ![t].top = list[t], ![t].at = list[t].item, ![t].old_next = list[t].item]
  /\ next' = [next EXCEPT ![loc[t].item] = list[t].item]
  /\ Goto(t, "publish")
  /\ UNCHANGED <<ringVars, list, taken, items, emptiness_check, clock, control>>

Publish(t) ==
  /\ pc[t] = "publish"
  /\ list' = [list EXCEPT ![t] = add_next_aba(loc[t].item, loc[t].top, 1)]
  /\ Goto(t, "skip")
  /\ UNCHANGED <<ringVars, next, taken, items, emptiness_check, clock, loc, control>>

\* The walk past taken items: of an insertion ("skip") and of a removal ("walk").
Walk(t, here, there) ==
  /\ \/ pc[t] = here /\ UNCHANGED loc
        /\ Goto(t, IF ~LastItem(loc[t].at) /\ loc[t].at \in taken THEN there ELSE "unlink")
     \/ /\ pc[t] = there
        /\ loc' = [loc EXCEPT ![t].at = next[@]]
        /\ Goto(t, here)
  /\ UNCHANGED <<ringVars, links, taken, items, emptiness_check, clock, control>>

\* The item points past the taken ones, if the walk found any.
Unlink(t) ==
  /\ pc[t] = "unlink"
  /\ next' = [next EXCEPT ![loc[t].item] = IF loc[t].at # loc[t].old_next THEN loc[t].at ELSE @]
  /\ IF op[t].kind = "push" THEN Goto(t, "acquire") /\ loc' = [loc EXCEPT ![t] = [NoLocals EXCEPT !.item = loc[t].item]]
                            ELSE Goto(t, "return") /\ loc' = [loc EXCEPT ![t] = NoLocals]
  /\ UNCHANGED <<ringVars, list, taken, items, emptiness_check, clock, control>>

insert_right(t) ==
  op[t].kind = "push" /\ (Register(t) \/ LoadList(t) \/ Publish(t) \/ Walk(t, "skip", "skipped") \/ Unlink(t))

\* set_timestamp: a stamp is acquired, then assigned to the item; an interval has two.
Acquire(t) ==
  /\ pc[t] \in {"acquire", "acquire2"}
  /\ Tick
  /\ loc' = [loc EXCEPT ![t].ts = Now]
  /\ Goto(t, IF pc[t] = "acquire" THEN "assign" ELSE "assign2")
  /\ UNCHANGED <<ringVars, links, taken, items, emptiness_check, control>>

Assign(t) ==
  LET two == TwoWords /\ pc[t] = "assign" IN
  /\ pc[t] \in {"assign", "assign2"}
  /\ timestamp' = [timestamp EXCEPT ![loc[t].item] =
       <<IF pc[t] = "assign2" THEN @[1] ELSE loc[t].ts[1], IF two THEN @[2] ELSE loc[t].ts[2]>>]
  /\ IF two THEN Goto(t, "acquire2") /\ UNCHANGED loc
            ELSE Goto(t, "return") /\ loc' = [loc EXCEPT ![t] = NoLocals]
  /\ UNCHANGED <<ringVars, links, taken, data, pushes, emptiness_check, clock, control>>
-----------------------------------------------------------------------------
\* pop: the invocation time is read once, for all attempts.
CallPop(t, o) ==
  /\ pc[t] = "idle" /\ o.kind = "pop"
  /\ op' = [op EXCEPT ![t] = o]
  /\ Called(t)
  /\ Goto(t, "invoke")
  /\ UNCHANGED <<ringVars, links, taken, items, emptiness_check, clock, loc, result>>

Invoke(t) ==
  /\ pc[t] = "invoke"
  /\ loc' = [loc EXCEPT ![t].invocation_time = Now]
  /\ ReadTick
  /\ Goto(t, "start")
  /\ UNCHANGED <<ringVars, links, taken, items, emptiness_check, control>>

Start(t) ==
  /\ pc[t] = "start"
  /\ \E n \in Starts :
       /\ loc' = [loc EXCEPT ![t] = [NoLocals EXCEPT !.invocation_time = loc[t].invocation_time, !.hops = n]]
       /\ Goto(t, IF n = 0 THEN "next" ELSE "hop")
  /\ UNCHANGED <<ringVars, links, taken, items, emptiness_check, clock, control>>

Hop(t) ==
  LET b == ring[loc[t].current] IN
  /\ pc[t] = "hop"
  /\ loc' = [loc EXCEPT ![t].current = b, ![t].start = b, ![t].hops = @ - 1]
  /\ Goto(t, IF loc[t].hops = 1 THEN "next" ELSE "hop")
  /\ UNCHANGED <<ringVars, links, taken, items, emptiness_check, clock, control>>

\* After the loop: the youngest item is removed, or all buffers are checked for emptiness.
Loop == "end of loop"

NextBuffer(t) ==
  LET l == loc[t]
      n == l.entry_counter + IF l.current = entry_buffer_ THEN 1 ELSE 0
  IN
  /\ pc[t] = "next"
  /\ IF n >= 2
       THEN Goto(t, Loop) /\ UNCHANGED loc
       ELSE /\ loc' = [loc EXCEPT ![t].entry_counter = n, ![t].current = ring[l.current]]
            /\ Goto(t, "list")
  /\ UNCHANGED <<ringVars, links, taken, items, emptiness_check, clock, control>>

\* The body of the loop is left with the locals l.
EndBody(t, l) ==
  /\ loc' = [loc EXCEPT ![t] = [l EXCEPT !.item = Null, !.at = Null, !.top = NoPtr, !.again = FALSE,
                                         !.ts = Sentinel]]
  /\ Goto(t, IF l.current = l.start THEN Loop ELSE "next")

\* get_youngest_item: the first item from the top that is not taken.
LoadTop(t) ==
  LET p == list[loc[t].current] IN
  /\ pc[t] = "list"
  /\ loc' = [loc EXCEPT ![t].top = p, ![t].at = p.item]
  /\ Goto(t, "look")
  /\ UNCHANGED <<ringVars, links, taken, items, emptiness_check, clock, control>>

Look(t) ==
  /\ pc[t] = "look"
  /\ IF loc[t].at \in taken
       THEN Goto(t, "past") /\ UNCHANGED loc
       ELSE Goto(t, "timestamp") /\ loc' = [loc EXCEPT ![t].item = loc[t].at, ![t].at = Null]
  /\ UNCHANGED <<ringVars, links, taken, items, emptiness_check, clock, control>>

\* Nothing is left in the buffer: its top is recorded, but not at a second look.
Past(t) ==
  LET l == loc[t]
      b == l.current
  IN
  /\ pc[t] = "past"
  /\ IF LastItem(l.at)
       THEN /\ EndBody(t, l)
            /\ emptiness_check' = IF l.again \/ b = entry_buffer_ THEN emptiness_check
                                  ELSE [emptiness_check EXCEPT ![t][b] = l.top]
       ELSE /\ loc' = [loc EXCEPT ![t].at = next[l.at]]
            /\ Goto(t, "look")
            /\ UNCHANGED emptiness_check
  /\ UNCHANGED <<ringVars, links, taken, items, clock, control>>

get_youngest_item(t) == LoadTop(t) \/ Look(t) \/ Past(t)

\* The item was not stamped before the pop was invoked.
Concurrent(t, ts) == ~is_later(loc[t].invocation_time, ts)

\* The item is taken at once when it was pushed since the pop was invoked, or remembered
\* when it is the youngest so far.
Found(t, ts) ==
  LET l == loc[t] IN
  IF ~l.again /\ Concurrent(t, ts) THEN Goto(t, "take") /\ loc' = [loc EXCEPT ![t].ts = ts]
  ELSE IF is_later(ts, l.best_ts)
    THEN EndBody(t, [l EXCEPT !.best = l.item, !.best_top = l.top, !.best_buffer = l.current, !.best_ts = ts])
    ELSE EndBody(t, l)

\* load_timestamp: the second word of an interval is read on its own.
LoadTimestamp(t) ==
  /\ \/ pc[t] = "timestamp" /\ TwoWords
        /\ loc' = [loc EXCEPT ![t].ts = timestamp[loc[t].item]] /\ Goto(t, "second")
     \/ pc[t] = "timestamp" /\ ~TwoWords /\ Found(t, timestamp[loc[t].item])
     \/ pc[t] = "second" /\ Found(t, <<loc[t].ts[1], timestamp[loc[t].item][2]>>)
  /\ UNCHANGED <<ringVars, links, taken, items, emptiness_check, clock, control>>

EndOfLoop(t) ==
  LET l == loc[t] IN
  /\ pc[t] = Loop
  /\ IF l.best # Null
       THEN /\ loc' = [loc EXCEPT ![t].item = l.best, ![t].top = l.best_top, ![t].current = l.best_buffer,
                                  ![t].last = TRUE]
            /\ Goto(t, "take")
       ELSE /\ loc' = [loc EXCEPT ![t].start = l.current, ![t].entry_counter = 0]
            /\ Goto(t, "check next")
  /\ UNCHANGED <<ringVars, links, taken, items, emptiness_check, clock, control>>

\* remove: taken is set by a compare-exchange.  When another thread was faster the buffer is
\* looked at once more, or, after the loop, the pop tries again.
Take(t) ==
  LET l == loc[t] IN
  /\ pc[t] = "take"
  /\ \/ /\ l.item \notin taken
        /\ taken' = taken \cup {l.item}
        /\ result' = [result EXCEPT ![t] = data[l.item]]
        /\ Goto(t, "adjust")
        /\ UNCHANGED loc
     \/ /\ l.item \in taken /\ ~l.last
        /\ loc' = [loc EXCEPT ![t].again = TRUE, ![t].item = Null, ![t].ts = Sentinel]
        /\ Goto(t, "list")
        /\ UNCHANGED <<taken, result>>
     \/ /\ l.item \in taken /\ l.last
        /\ loc' = [loc EXCEPT ![t] = [NoLocals EXCEPT !.invocation_time = l.invocation_time]]
        /\ Goto(t, "start")
        /\ UNCHANGED <<taken, result>>
  /\ UNCHANGED <<ringVars, links, items, emptiness_check, clock, op, history>>

\* The pointer moves to the item that was taken, unless it has changed since.
Adjust(t) ==
  LET l == loc[t] IN
  /\ pc[t] = "adjust"
  /\ list' = [list EXCEPT ![l.current] = IF @ = l.top THEN add_next_aba(l.item, l.top, 0) ELSE @]
  /\ Goto(t, IF l.top.item = l.item THEN "load next" ELSE "shortcut")
  /\ UNCHANGED <<ringVars, next, taken, items, emptiness_check, clock, loc, control>>

\* The old top points to the item, and the item past the taken ones below it.
Shortcut(t) ==
  /\ pc[t] = "shortcut"
  /\ next' = [next EXCEPT ![loc[t].top.item] = loc[t].item]
  /\ Goto(t, "load next")
  /\ UNCHANGED <<ringVars, list, taken, items, emptiness_check, clock, loc, control>>

LoadNext(t) ==
  /\ pc[t] = "load next"
  /\ loc' = [loc EXCEPT ![t].at = next[loc[t].item], ![t].old_next = next[loc[t].item]]
  /\ Goto(t, "walk")
  /\ UNCHANGED <<ringVars, links, taken, items, emptiness_check, clock, control>>

remove(t) ==
  op[t].kind = "pop" /\ (Take(t) \/ Adjust(t) \/ Shortcut(t) \/ LoadNext(t) \/ Walk(t, "walk", "walked") \/ Unlink(t))

\* The emptiness check: no top has changed since it was recorded.
CheckNext(t) ==
  LET b == ring[loc[t].current] IN
  /\ pc[t] = "check next"
  /\ \/ /\ b # entry_buffer_
        /\ loc' = [loc EXCEPT ![t].current = b]
        /\ Goto(t, "check")
     \/ /\ b = entry_buffer_ /\ loc[t].entry_counter = 0
        /\ loc' = [loc EXCEPT ![t].current = b, ![t].entry_counter = 1]
        /\ UNCHANGED pc
     \/ /\ b = entry_buffer_ /\ loc[t].entry_counter = 1
        /\ loc' = [loc EXCEPT ![t] = NoLocals]
        /\ Goto(t, "return")
  /\ UNCHANGED <<ringVars, links, taken, items, emptiness_check, clock, control>>

Check(t) ==
  LET l == loc[t] IN
  /\ pc[t] = "check"
  /\ \/ /\ list[l.current] # emptiness_check[t][l.current]
        /\ loc' = [loc EXCEPT ![t] = [NoLocals EXCEPT !.invocation_time = l.invocation_time]]
        /\ Goto(t, "start")
     \/ /\ list[l.current] = emptiness_check[t][l.current] /\ l.current = l.start
        /\ loc' = [loc EXCEPT ![t] = NoLocals]
        /\ Goto(t, "return")
     \/ /\ list[l.current] = emptiness_check[t][l.current] /\ l.current # l.start
        /\ Goto(t, "check next")
        /\ UNCHANGED loc
  /\ UNCHANGED <<ringVars, links, taken, items, emptiness_check, clock, control>>

try_remove_right(t) ==
  \/ Start(t) \/ Hop(t) \/ NextBuffer(t) \/ get_youngest_item(t) \/ LoadTimestamp(t) \/ EndOfLoop(t)
  \/ remove(t) \/ CheckNext(t) \/ Check(t)

Return(t) ==
  /\ pc[t] = "return"
  /\ Goto(t, "idle")
  /\ Returned(t, op[t], result[t])
  /\ result' = [result EXCEPT ![t] = Empty]
  /\ UNCHANGED <<ringVars, links, taken, items, emptiness_check, clock, op, loc>>

Call(t, o) == CallPush(t, o) \/ CallPop(t, o)

Step(t) == insert_right(t) \/ Acquire(t) \/ Assign(t) \/ Invoke(t) \/ try_remove_right(t) \/ Return(t)

\* Bound: the clock, which every pop reads.
Bounded == clock < NumTimes
-----------------------------------------------------------------------------
Pointers == [item : Items \cup {Null}, aba : 0 .. 7]

\* Type invariant.
TypeOK ==
  /\ spBuffers_ \subseteq Threads /\ ring \in [SPBuffer -> SPBuffer]
  /\ list \in [SPBuffer -> [item : Items, aba : 0 .. 7]]
  /\ next \in [Items -> Items]
  /\ taken \subseteq Items
  /\ data \in [Items -> Values \cup {Empty}]
  /\ timestamp \in [Items -> Stamps]
  /\ pushes \in [Threads -> 0 .. NumItems]
  /\ emptiness_check \in [Threads -> [Threads -> Pointers]]
  /\ clock \in 1 .. NumTimes
  /\ op \in [Threads -> Operations]
  /\ result \in [Threads -> Values \cup {Empty}]
  /\ \A t \in Threads : loc[t].item \in Items \cup {Null} /\ loc[t].entry_counter \in 0 .. 1

\* The items from the top of a buffer on.
Chain(b) ==
  LET after[k \in 0 .. NumItems + 1] == IF k = 0 THEN list[b].item ELSE next[after[k - 1]]
  IN { after[k] : k \in 0 .. NumItems + 1 }

\* A removal comes to the buffer, and in it to the item.
Reached(t, item) == t \in InRing /\ item \in Chain(t)

\* No item that has been pushed and not been taken is lost from its list, whatever
\* insertions and removals rewrite the links at the same time.
NothingLost == \A t \in Threads : \A k \in 1 .. pushes[t] :
  LET item == <<t, k>>
      inserted == pc[t] \notin {"create", "register", "insert", "publish"} \/ item # loc[t].item
  IN inserted /\ item \notin taken => Reached(t, item)

\* When all operations have returned there is an order of them that a LIFO stack would
\* give the same answers in: the youngest items are found by their stamps, and the stack
\* was empty when a pop says so.
Linearizable == (\A t \in Threads : pc[t] = "idle") => HistoryExplained
=============================================================================
