--------------------------- MODULE HazardTracker ---------------------------
(***************************************************************************)
(* HazardTracker (src/cpp_harness/HazardTracker.cpp): reservations, lists  *)
(* of retired blocks and the scan that frees them, one action per access   *)
(* of a reservation.  Its client is the protocol of OFDeque's reserveHint, *)
(* findEdge and retire, around a single shared word, root.                 *)
(*                                                                         *)
(* The lists are std::list: empty() erases an element and increments the   *)
(* iterator that follows it, which may be end().  In the library of the    *)
(* build a list is a ring with one node for end(), so the increment        *)
(* of end() is begin().                                                    *)
(***************************************************************************)
EXTENDS Integers, Sequences, SequencesExt

CONSTANTS
  N,       \* task_num; threads are 0 .. N-1
  K,       \* slotsPerThread
  Freq,    \* emptyFreq
  Blocks,  \* bound: the memory there is
  First,   \* the block root leads to at first
  Null

ASSUME HazardTrackerAssumption ==
  /\ N \in Nat \ {0} /\ K \in Nat /\ K > 1 /\ Freq \in Nat
  /\ First \in Blocks /\ Null \notin Blocks

Threads == 0 .. N - 1
Indices == 0 .. N * K - 1

VARIABLES
  root,   \* the shared word
  slots,  \* the reservations
  trash,  \* retired, a list per thread
  cntrs,  \* the retirements of each thread since its last scan
  free,   \* the blocks in the pool
  pc,     \* where each thread is
  loc     \* its locals

vars == <<root, slots, trash, cntrs, free, pc, loc>>

-----------------------------------------------------------------------------
\* next is the word loaded, held the block in use, k the slot to reserve next; it and i
\* are the position of a scan in the list and in the slots.
NoLocals == [next |-> Null, held |-> Null, k |-> 0, it |-> 1, i |-> 0]

Init ==
  /\ root = First
  /\ slots = [i \in Indices |-> Null]
  /\ trash = [t \in Threads |-> <<>>]
  /\ cntrs = [t \in Threads |-> 0]
  /\ free = Blocks \ {First}
  /\ pc = [t \in Threads |-> "idle"]
  /\ loc = [t \in Threads |-> NoLocals]

Goto(t, l) == pc' = [pc EXCEPT ![t] = l]
Memory == <<root, slots, trash, cntrs, free>>

\* The client looks the word up: at the start, or to go on from a block it holds.
Load(t) ==
  /\ pc[t] \in {"idle", "inside", "again"}
  /\ loc' = [loc EXCEPT ![t].next = root]
  /\ Goto(t, "reserve")
  /\ UNCHANGED Memory

Reserve(t) ==
  /\ pc[t] = "reserve"
  /\ slots' = [slots EXCEPT ![t * K + loc[t].k] = loc[t].next]
  /\ Goto(t, "recheck")
  /\ UNCHANGED <<root, trash, cntrs, free, loc>>

\* The block reserved is now the one in use; the other slot is next.
Using(l) == [l EXCEPT !.held = l.next, !.next = Null, !.k = (l.k + 1) % K]

\* Mutant of Recheck: the word is not looked at again.
RecheckNothing(t) ==
  /\ pc[t] = "recheck"
  /\ Goto(t, "inside")
  /\ loc' = [loc EXCEPT ![t] = Using(@)]
  /\ UNCHANGED Memory

\* The reservation counts if the word still leads to the block.
Recheck(t) ==
  /\ pc[t] = "recheck"
  /\ IF root = loc[t].next
       THEN /\ Goto(t, "inside")
            /\ loc' = [loc EXCEPT ![t] = Using(@)]
       ELSE Goto(t, "again") /\ loc' = [loc EXCEPT ![t].next = Null]
  /\ UNCHANGED Memory

\* Mutant of Replace: the block is retired by whoever has used it.
ReplaceUnchecked(t) ==
  /\ pc[t] = "inside"
  /\ \E b \in free : root' = b /\ free' = free \ {b}
  /\ Goto(t, "retire")
  /\ UNCHANGED <<slots, trash, cntrs, loc>>

\* The client replaces the block it holds by a new one, and will retire it: while it is
\* reserved (MMDeque), or not (WSDeque, and OFDeque when updateHint has reserved others).
Replace(t) ==
  /\ pc[t] = "inside" /\ root = loc[t].held
  /\ \E b \in free : root' = b /\ free' = free \ {b}
  /\ \E l \in {"retire", "drop"} : Goto(t, l)
  /\ loc' = [loc EXCEPT ![t].i = 0]
  /\ UNCHANGED <<slots, trash, cntrs>>

\* Or it is done with it.
Leave(t) ==
  /\ pc[t] = "inside"
  /\ loc' = [loc EXCEPT ![t] = NoLocals]
  /\ Goto(t, "clear")
  /\ UNCHANGED Memory

\* Mutant of ClearAll: the last slot is forgotten.
ClearAllButLast(t) ==
  /\ pc[t] \in {"drop", "clear"}
  /\ slots' = [slots EXCEPT ![t * K + loc[t].i] = Null]
  /\ IF loc[t].i + 2 < K
       THEN loc' = [loc EXCEPT ![t].i = @ + 1] /\ UNCHANGED pc
       ELSE IF pc[t] = "drop" THEN Goto(t, "retire") /\ UNCHANGED loc
       ELSE loc' = [loc EXCEPT ![t] = NoLocals] /\ Goto(t, "idle")
  /\ UNCHANGED <<root, trash, cntrs, free>>

\* clearAll, one slot.
ClearAll(t) ==
  /\ pc[t] \in {"drop", "clear"}
  /\ slots' = [slots EXCEPT ![t * K + loc[t].i] = Null]
  /\ IF loc[t].i + 1 < K
       THEN loc' = [loc EXCEPT ![t].i = @ + 1] /\ UNCHANGED pc
       ELSE IF pc[t] = "drop" THEN Goto(t, "retire") /\ UNCHANGED loc
       ELSE loc' = [loc EXCEPT ![t] = NoLocals] /\ Goto(t, "idle")
  /\ UNCHANGED <<root, trash, cntrs, free>>

\* ++iterator at place p of a list of length n, whose end() is place n + 1.
Advance(p, n) == (p % (n + 1)) + 1

\* The loop of empty goes on at place p of a list of length n, or ends.
ScanFrom(t, p, n) ==
  /\ loc' = [loc EXCEPT ![t] = [NoLocals EXCEPT !.it = IF p = n + 1 THEN 1 ELSE p]]
  /\ Goto(t, IF p = n + 1 THEN "clear" ELSE "scan")

\* retire: every Freq times it calls empty.  The assert that the block is not in the
\* list already is part of OnePlace.
Retire(t) ==
  /\ pc[t] = "retire"
  /\ trash' = [trash EXCEPT ![t] = Append(@, loc[t].held)]
  /\ cntrs' = [cntrs EXCEPT ![t] = IF @ = Freq THEN 1 ELSE @ + 1]
  /\ ScanFrom(t, IF cntrs[t] = Freq THEN 1 ELSE Len(trash[t]) + 2, Len(trash[t]) + 1)
  /\ UNCHANGED <<root, slots, free>>

\* The last reservation is not this block: it is freed and erased, and the iterator
\* passes over the one that takes its place.
Free(t) ==
  LET list == trash[t] p == loc[t].it IN
  /\ free' = free \cup {list[p]}
  /\ trash' = [trash EXCEPT ![t] = RemoveAt(list, p)]
  /\ ScanFrom(t, Advance(p, Len(list) - 1), Len(list) - 1)

\* empty: one block of the list against one reservation.
Scan(t) ==
  LET b == trash[t][loc[t].it] n == Len(trash[t]) IN
  /\ pc[t] = "scan"
  /\ IF slots[loc[t].i] = b
       THEN /\ ScanFrom(t, Advance(loc[t].it, n), n)
            /\ UNCHANGED <<trash, free>>
     ELSE IF loc[t].i + 1 < N * K
       THEN /\ loc' = [loc EXCEPT ![t].i = @ + 1]
            /\ UNCHANGED <<trash, free, pc>>
     ELSE Free(t)
  /\ UNCHANGED <<root, slots, cntrs>>

Step(t) ==
  \/ Reserve(t) \/ Recheck(t) \/ Replace(t) \/ Leave(t) \/ ClearAll(t)
  \/ Retire(t) \/ Scan(t) \/ Load(t)

Next == \E t \in Threads : Step(t)

Spec == Init /\ [][Next]_vars

\* Every thread goes on.
FairSpec == Spec /\ \A t \in Threads : WF_vars(Step(t))
-----------------------------------------------------------------------------
\* The variables have their types, and a scan is inside the list and the slots.
TypeOK ==
  /\ root \in Blocks
  /\ slots \in [Indices -> Blocks \cup {Null}]
  /\ trash \in [Threads -> Seq(Blocks)]
  /\ cntrs \in [Threads -> 0 .. Freq + 1]
  /\ free \subseteq Blocks
  /\ pc \in [Threads -> {"idle", "again", "reserve", "recheck", "inside", "drop", "clear",
                         "retire", "scan"}]
  /\ loc \in [Threads -> [next : Blocks \cup {Null}, held : Blocks \cup {Null},
                          k : 0 .. K - 1, it : Nat \ {0}, i : Indices]]
  /\ \A t \in Threads : pc[t] = "scan" => loc[t].it <= Len(trash[t])

\* A thread that has reserved a block and found the word unchanged may use the block,
\* until it has reserved another one as well or lets go of it: nobody frees it.
NoUseAfterFree ==
  \A t \in Threads :
    pc[t] \in {"reserve", "recheck", "again", "inside", "drop", "retire"} => loc[t].held \notin free

Retiring(t) == pc[t] \in {"drop", "retire"}

\* Where block b is: in the structure, in the pool, on its way to a list, in a list.
WhereIs(b) ==
  {<<"structure", 0, 0>> : r \in {root} \cap {b}}
    \cup {<<"pool", 0, 0>> : f \in free \cap {b}}
    \cup {<<"way", t, 0>> : t \in {u \in Threads : Retiring(u) /\ loc[u].held = b}}
    \cup UNION {{<<"list", t, p>> : p \in {q \in 1 .. Len(trash[t]) : trash[t][q] = b}} : t \in Threads}

\* A block is in one place at a time: it is never retired or freed twice, and the assert
\* of retire holds.
OnePlace == \A b \in Blocks : \A p, q \in WhereIs(b) : p = q

Retired(b, t) == Contains(trash[t], b)

FreedAtLast(t, b) ==
  []<>(pc[t] = "retire") /\ (\A u \in Threads : []<>(pc[u] = "idle"))
    => (Retired(b, t) ~> ~Retired(b, t))

\* A retired block is freed, although a scan may pass over it, if its thread goes on
\* retiring and no thread stays in the structure for ever.  Stated of one thread and one
\* block: the code treats all alike.
EventuallyFreed == FreedAtLast(0, First)
=============================================================================
