----------------------------- MODULE BlockPool -----------------------------
(***************************************************************************)
(* BlockPool<T> (src/cpp_harness/BlockPool.hpp), with glibc_mem = false:   *)
(* a list of free blocks per thread and a stack of groups of blocks that   *)
(* the threads share, headed by a counted pointer (cptr of                 *)
(* ConcurrentPrimitives.hpp).  A thread takes a group when its list is     *)
(* empty and gives one back when it has two.                               *)
(*                                                                         *)
(* The lists are private, so an operation that needs no group is one       *)
(* action; the accesses of the shared stack are one action each.  A block  *)
(* may be freed by any thread, as HazardTracker does.                      *)
(***************************************************************************)
EXTENDS Integers, FiniteSets, Functions, FiniteSetsExt

CONSTANTS
  Threads,
  GROUP_SIZE,  \* 8 in the code
  Arrays,      \* bound: how many arrays of GROUP_SIZE blocks memalign gives
  MaxSn,       \* bound: the changes of the shared stack
  Null

BlockPoolAssumption ==
  /\ GROUP_SIZE \in Nat /\ GROUP_SIZE > 1
  /\ Arrays \in Nat /\ MaxSn \in Nat
  /\ Null \notin Nat

\* Block number k * GROUP_SIZE + i is element i of array k.
Blocks == 0 .. Arrays * GROUP_SIZE - 1

VARIABLES
  next, next_group,  \* the two links of every block
  global_pool,       \* the counted pointer to the first group
  head_nodes,        \* top, nth and count of every thread
  arrays,            \* how many arrays there are so far
  used,              \* the blocks in the hands of the program
  pc,                \* where each thread is
  loc                \* its locals: oldp, the block b, and its next_group

vars == <<next, next_group, global_pool, head_nodes, arrays, used, pc, loc>>
-----------------------------------------------------------------------------
NoLocals == [oldp |-> [ptr |-> Null, sn |-> 0], group |-> Null]

Init ==
  /\ next = [b \in Blocks |-> Null]
  /\ next_group = [b \in Blocks |-> Null]
  /\ global_pool = [ptr |-> Null, sn |-> 0]
  /\ head_nodes = [t \in Threads |-> [top |-> Null, nth |-> Null, count |-> 0]]
  /\ arrays = 0
  /\ used = {}
  /\ pc = [t \in Threads |-> "idle"]
  /\ loc = [t \in Threads |-> NoLocals]

Goto(t, l) == pc' = [pc EXCEPT ![t] = l]
Shared == <<next_group, global_pool>>

\* A block is taken from a list.
Popped(h) ==
  [top |-> next[h.top], count |-> h.count - 1, nth |-> IF h.top = h.nth THEN Null ELSE h.nth]

\* alloc from the list of the thread.
AllocLocal(t) ==
  /\ pc[t] = "idle" /\ head_nodes[t].top # Null
  /\ used' = used \cup {head_nodes[t].top}
  /\ head_nodes' = [head_nodes EXCEPT ![t] = Popped(@)]
  /\ UNCHANGED <<next, Shared, arrays, pc, loc>>

\* alloc with an empty list: load the shared stack, or make an array if there is none.
AllocLoad(t) ==
  /\ pc[t] \in {"idle", "take"} /\ head_nodes[t].top = Null
  /\ global_pool.ptr # Null
  /\ loc' = [loc EXCEPT ![t].oldp = global_pool]
  /\ Goto(t, "group")
  /\ UNCHANGED <<next, Shared, head_nodes, arrays, used>>

\* appendBlockGroup, and the allocation of its first block.
AppendBlockGroup(t) ==
  LET first == arrays * GROUP_SIZE last == first + GROUP_SIZE - 1 IN
  /\ pc[t] \in {"idle", "take"} /\ head_nodes[t].top = Null
  /\ global_pool.ptr = Null
  /\ arrays < Arrays
  /\ arrays' = arrays + 1
  /\ next' = [b \in Blocks |-> IF b \in first .. last - 1 THEN b + 1
                               ELSE IF b = last THEN Null ELSE next[b]]
  /\ head_nodes' = [head_nodes EXCEPT ![t] =
                      [top |-> first + 1, nth |-> Null, count |-> GROUP_SIZE - 1]]
  /\ used' = used \cup {first}
  /\ loc' = [loc EXCEPT ![t] = NoLocals]
  /\ Goto(t, "idle")
  /\ UNCHANGED Shared

\* b->next_group is read from a block that somebody else may have taken by now.
ReadGroup(t) ==
  /\ pc[t] = "group"
  /\ loc' = [loc EXCEPT ![t].group = next_group[loc[t].oldp.ptr]]
  /\ Goto(t, "casTake")
  /\ UNCHANGED <<next, Shared, head_nodes, arrays, used>>

\* Mutant of Unchanged: the counter is not compared.
UnchangedPointer(p) == global_pool.ptr = p.ptr

\* cptr::CAS compares pointer and counter.
Unchanged(p) == global_pool = p

\* The group b leads becomes the list of the thread, but for b itself.
TakeGroup(t) ==
  LET b == loc[t].oldp.ptr IN
  /\ pc[t] = "casTake"
  /\ IF Unchanged(loc[t].oldp)
       THEN /\ global_pool.sn < MaxSn
            /\ global_pool' = [ptr |-> loc[t].group, sn |-> loc[t].oldp.sn + 1]
            /\ head_nodes' = [head_nodes EXCEPT ![t].top = next[b],
                                                ![t].count = GROUP_SIZE - 1]
            /\ used' = used \cup {b}
            /\ Goto(t, "idle")
       ELSE Goto(t, "take") /\ UNCHANGED <<global_pool, head_nodes, used>>
  /\ loc' = [loc EXCEPT ![t] = NoLocals]
  /\ UNCHANGED <<next, next_group, arrays>>

\* The block that makes a list this long is its nth: GROUP_SIZE blocks are below it.
NthAt(count) == count = GROUP_SIZE + 1

\* free: the block becomes the top of the list.
Free(t, b) ==
  LET h == head_nodes[t] IN
  /\ pc[t] = "idle" /\ b \in used
  /\ used' = used \ {b}
  /\ next' = [next EXCEPT ![b] = h.top]
  /\ head_nodes' = [head_nodes EXCEPT ![t] =
       [top |-> b, count |-> h.count + 1, nth |-> IF NthAt(h.count + 1) THEN b ELSE h.nth]]
  /\ Goto(t, IF ~NthAt(h.count + 1) /\ h.count + 1 = 2 * GROUP_SIZE THEN "give" ELSE "idle")
  /\ UNCHANGED <<Shared, arrays, loc>>

\* The blocks below nth are the group to give.
Given(t) == next[head_nodes[t].nth]

GiveLoad(t) ==
  /\ pc[t] = "give"
  /\ loc' = [loc EXCEPT ![t].oldp = global_pool]
  /\ next_group' = [next_group EXCEPT ![Given(t)] = global_pool.ptr]
  /\ Goto(t, "casGive")
  /\ UNCHANGED <<next, global_pool, head_nodes, arrays, used>>

\* The group goes on the stack, and off the list.
GiveGroup(t) ==
  LET h == head_nodes[t] IN
  /\ pc[t] = "casGive"
  /\ IF Unchanged(loc[t].oldp)
       THEN /\ global_pool.sn < MaxSn
            /\ global_pool' = [ptr |-> Given(t), sn |-> loc[t].oldp.sn + 1]
            /\ next' = [next EXCEPT ![h.nth] = Null]
            /\ head_nodes' = [head_nodes EXCEPT ![t].nth = Null, ![t].count = @ - GROUP_SIZE]
            /\ Goto(t, "idle")
       ELSE Goto(t, "give") /\ UNCHANGED <<global_pool, next, head_nodes>>
  /\ loc' = [loc EXCEPT ![t] = NoLocals]
  /\ UNCHANGED <<next_group, arrays, used>>

Step(t) ==
  \/ AllocLocal(t) \/ AllocLoad(t) \/ AppendBlockGroup(t) \/ ReadGroup(t) \/ TakeGroup(t)
  \/ GiveLoad(t) \/ GiveGroup(t)

Next == \E t \in Threads : Step(t) \/ \E b \in Blocks : Free(t, b)

Spec == Init /\ [][Next]_vars
-----------------------------------------------------------------------------
Links == Blocks \cup {Null}
Counted == [ptr : Links, sn : 0 .. MaxSn]

\* The variables have their types.
TypeOK ==
  /\ next \in [Blocks -> Links] /\ next_group \in [Blocks -> Links]
  /\ global_pool \in Counted
  /\ head_nodes \in [Threads -> [top : Links, nth : Links, count : 0 .. 2 * GROUP_SIZE]]
  /\ arrays \in 0 .. Arrays
  /\ used \subseteq Blocks
  /\ pc \in [Threads -> {"idle", "take", "group", "casTake", "give", "casGive"}]
  /\ loc \in [Threads -> [oldp : Counted, group : Links]]

\* What one gets by following a link n times.
Follow(link, b) ==
  LET at[n \in 0 .. Cardinality(Blocks)] ==
        IF n = 0 THEN b ELSE IF at[n - 1] = Null THEN Null ELSE link[at[n - 1]]
  IN  at
List(b) == Range(Follow(next, b)) \ {Null}
Groups == Range(Follow(next_group, global_pool.ptr)) \ {Null}

\* Every block there is has one owner: the program, the list of one thread, or one group
\* on the shared stack.  No two owners, and none lost.
OneOwner ==
  \A b \in 0 .. arrays * GROUP_SIZE - 1 :
    (IF b \in used THEN 1 ELSE 0)
      + Cardinality({t \in Threads : b \in List(head_nodes[t].top)})
      + Cardinality({g \in Groups : b \in List(g)}) = 1

\* Whoever takes a group gets GROUP_SIZE blocks, the count its alloc assumes.
GroupsWhole == \A g \in Groups : Cardinality(List(g)) = GROUP_SIZE

\* The count of a list is its length, and nth is the block above the lowest GROUP_SIZE.
CountsRight ==
  \A t \in Threads :
    LET h == head_nodes[t] IN
    /\ h.count = Cardinality(List(h.top))
    /\ IF h.count > GROUP_SIZE
         THEN h.nth \in List(h.top) /\ Cardinality(List(h.nth)) = GROUP_SIZE + 1
         ELSE h.nth = Null
=============================================================================
