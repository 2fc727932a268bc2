------------------------ MODULE HazardTrackerProofs ------------------------
(***************************************************************************)
(* No block is freed while a thread uses it, for any number of threads,    *)
(* reservations per thread, blocks and retirements between two scans.      *)
(*                                                                         *)
(* NoUseAfterFree is not inductive: it does not say why the scan that      *)
(* frees a block cannot have missed the reservation.  Guarded says it: the *)
(* thread has the block in a slot that it does not overwrite next, and no  *)
(* scan of that block has passed the slot.  It needs Apart, which keeps a  *)
(* block from being in the pool, in the structure and in a list at once.   *)
(***************************************************************************)
EXTENDS HazardTracker, TLAPS

Local == [next : Blocks \cup {Null}, held : Blocks \cup {Null}, k : 0 .. K - 1,
          it : Nat \ {0}, i : Indices]

\* The types, without the bound on the counters of TypeOK.
Types ==
  /\ root \in Blocks
  /\ slots \in [Indices -> Blocks \cup {Null}]
  /\ trash \in [Threads -> Seq(Blocks)]
  /\ free \subseteq Blocks
  /\ pc \in [Threads -> {"idle", "again", "reserve", "recheck", "inside", "drop", "clear",
                         "retire", "scan"}]
  /\ loc \in [Threads -> Local]

\* What the locals are at the places that use them.
PlaceOK(t) ==
  /\ pc[t] = "scan" => loc[t].it \in 1 .. Len(trash[t])
  /\ pc[t] \in {"drop", "clear"} => loc[t].i < K
  /\ pc[t] \in {"inside", "drop", "retire"} => loc[t].held \in Blocks
  /\ pc[t] \in {"idle", "clear", "scan"} => loc[t].held = Null
  /\ pc[t] = "recheck" => slots[t * K + loc[t].k] = loc[t].next

Places == \A t \in Threads : PlaceOK(t)

\* The block a thread is about to retire is nowhere else.
RetiringApart(t) ==
  Retiring(t) =>
    /\ loc[t].held # root /\ loc[t].held \notin free
    /\ \A u \in Threads : \A p \in 1 .. Len(trash[u]) : trash[u][p] # loc[t].held
    /\ \A u \in Threads \ {t} : Retiring(u) => loc[u].held # loc[t].held

\* The blocks of a list are nowhere else.
ListApart(t) ==
  \A p \in 1 .. Len(trash[t]) :
    /\ trash[t][p] # root /\ trash[t][p] \notin free
    /\ \A u \in Threads : \A q \in 1 .. Len(trash[u]) :
         trash[u][q] = trash[t][p] => u = t /\ q = p

Apart ==
  /\ root \notin free
  /\ \A t \in Threads : RetiringApart(t) /\ ListApart(t)

InUse == {"reserve", "recheck", "again", "inside"}

\* Slot j of thread t protects block b: no scan of b has passed it.
Protects(t, j, b) ==
  /\ slots[t * K + j] = b
  /\ \A u \in Threads : pc[u] = "scan" /\ trash[u][loc[u].it] = b => loc[u].i <= t * K + j

GuardedAt(t) ==
  pc[t] \in InUse /\ loc[t].held # Null =>
    /\ loc[t].held \notin free
    /\ \E j \in 0 .. K - 1 : j # loc[t].k /\ Protects(t, j, loc[t].held)

Guarded == \A t \in Threads : GuardedAt(t)

Inv == Types /\ Places /\ Apart /\ Guarded
-----------------------------------------------------------------------------
(* The slots of the threads lie one after the other. *)

\* Threads' ranges of slots do not overlap.
LEMMA RangesApart ==
  ASSUME NEW t \in Threads, NEW u \in Threads, NEW j \in 0 .. K - 1, NEW k \in 0 .. K - 1,
         t < u
  PROVE  t * K + j < u * K + k
<1>1. K \in Nat /\ t \in Nat /\ u \in Nat
  BY HazardTrackerAssumption DEF Threads
<1>2. u - t - 1 \in Nat
  BY <1>1
<1>3. (u - t - 1) * K >= 0
  BY <1>1, <1>2
<1>4. u * K = t * K + K + (u - t - 1) * K
  BY <1>1
<1>5. t * K \in Int /\ u * K \in Int /\ (u - t - 1) * K \in Int
  BY <1>1
<1> QED  BY <1>1, <1>3, <1>4, <1>5

\* Every reservation is one slot of one thread.
LEMMA SlotsApart ==
  ASSUME NEW t \in Threads, NEW u \in Threads, NEW j \in 0 .. K - 1, NEW k \in 0 .. K - 1,
         t * K + j = u * K + k
  PROVE  t = u /\ j = k
<1>1. t \in Int /\ u \in Int /\ K \in Int /\ t * K \in Int /\ u * K \in Int
  BY HazardTrackerAssumption DEF Threads
<1>2. ~(t < u) /\ ~(u < t)
  BY <1>1, RangesApart
<1>3. t = u
  BY <1>1, <1>2
<1> QED  BY <1>1, <1>3

\* A slot of a thread is one of the array.
LEMMA SlotInRange ==
  ASSUME NEW t \in Threads, NEW j \in 0 .. K - 1
  PROVE  t * K + j \in Indices
<1>1. K \in Nat /\ N \in Nat /\ t \in Nat /\ N - 1 - t \in Nat
  BY HazardTrackerAssumption DEF Threads
<1>2. (N - 1 - t) * K >= 0 /\ (N - 1 - t) * K \in Int
  BY <1>1
<1>3. N * K = t * K + K + (N - 1 - t) * K
  BY <1>1
<1>4. t * K \in Nat /\ N * K \in Nat
  BY <1>1
<1> QED  BY <1>1, <1>2, <1>3, <1>4 DEF Indices

\* There is a first slot, and every thread has one.
LEMMA ZeroInRange == 0 \in Indices /\ 0 \in 0 .. K - 1
<1>1. 0 \in Threads /\ 0 \in 0 .. K - 1 /\ K \in Nat
  BY HazardTrackerAssumption DEF Threads
<1>2. 0 * K + 0 \in Indices
  BY <1>1, SlotInRange
<1> QED  BY <1>1, <1>2

\* The slot a thread reserves next is never the one of the block it has just reserved.
LEMMA NextSlot ==
  ASSUME NEW k \in 0 .. K - 1
  PROVE  (k + 1) % K \in 0 .. K - 1 /\ (k + 1) % K # k
<1>1. K \in Nat /\ K > 1 /\ k \in Nat
  BY HazardTrackerAssumption
<1>2. (k + 1) % K = IF k + 1 = K THEN 0 ELSE k + 1
  BY <1>1, Z3
<1> QED  BY <1>1, <1>2

\* The scan moves to a place of the list or to its end.
LEMMA AdvanceInList ==
  ASSUME NEW p \in Nat, NEW n \in Nat
  PROVE  Advance(p, n) \in 1 .. n + 1
<1>1. p % (n + 1) \in 0 .. n
  OBVIOUS
<1> QED  BY <1>1 DEF Advance

\* Erasing an element keeps the others and their order.
LEMMA Erase ==
  ASSUME NEW s \in Seq(Blocks), NEW p \in 1 .. Len(s)
  PROVE  /\ RemoveAt(s, p) \in Seq(Blocks)
         /\ Len(RemoveAt(s, p)) = Len(s) - 1
         /\ \A q \in 1 .. Len(s) - 1 :
              RemoveAt(s, p)[q] = s[IF q < p THEN q ELSE q + 1]
<1> DEFINE l == SubSeq(s, 1, p - 1) r == SubSeq(s, p + 1, Len(s))
<1>1. l \in Seq(Blocks) /\ r \in Seq(Blocks)
  OBVIOUS
<1>2. Len(l) = p - 1 /\ Len(r) = Len(s) - p
  OBVIOUS
<1>3. (\A q \in 1 .. p - 1 : l[q] = s[q]) /\ \A q \in 1 .. Len(s) - p : r[q] = s[p + q]
  OBVIOUS
<1>4. RemoveAt(s, p) = l \o r
  BY DEF RemoveAt
<1> HIDE DEF l, r
<1>5. l \o r \in Seq(Blocks) /\ Len(l \o r) = Len(s) - 1
  <2>1. l \o r \in Seq(Blocks)
    BY <1>1
  <2>2. Len(l \o r) = Len(l) + Len(r)
    BY <1>1
  <2> QED  BY <1>2, <2>1, <2>2
<1>6. ASSUME NEW q \in 1 .. Len(s) - 1
      PROVE  (l \o r)[q] = s[IF q < p THEN q ELSE q + 1]
  <2>1. (l \o r)[q] = IF q <= Len(l) THEN l[q] ELSE r[q - Len(l)]
    BY <1>1, <1>2
  <2>2. CASE q < p
    BY <1>2, <1>3, <2>1, <2>2
  <2>3. CASE ~(q < p)
    BY <1>2, <1>3, <2>1, <2>3
  <2> QED  BY <2>2, <2>3
<1> QED  BY <1>4, <1>5, <1>6
-----------------------------------------------------------------------------
(* Types and places. *)

\* The scan of a list of length n starts over at slot 0 of a place of it, or is done.
LEMMA ScanGoesOn ==
  ASSUME Types, NEW t \in Threads, NEW n \in Nat, NEW p \in 1 .. n + 1, ScanFrom(t, p, n)
  PROVE  /\ loc' \in [Threads -> Local] /\ pc'[t] \in {"scan", "clear"}
         /\ pc' = [pc EXCEPT ![t] = pc'[t]] /\ loc' = [loc EXCEPT ![t] = loc'[t]]
         /\ pc'[t] = "scan" => loc'[t].it \in 1 .. n
         /\ loc'[t].held = Null /\ loc'[t].i = 0
<1>1. 0 \in Indices /\ 0 \in 0 .. K - 1
  BY ZeroInRange
<1>2. IF p = n + 1 THEN p = n + 1 ELSE p \in 1 .. n
  OBVIOUS
<1>3. (IF p = n + 1 THEN 1 ELSE p) \in Nat \ {0}
  OBVIOUS
<1> QED  BY <1>1, <1>2, <1>3 DEF ScanFrom, NoLocals, Local, Goto, Types

\* The step of one thread keeps the types of all and its own place.
LEMMA StepTypes ==
  ASSUME Types, Places, NEW t \in Threads, Step(t)
  PROVE  Types'
<1> USE DEF Types, Goto, Memory
<1>1. 0 \in Indices /\ 0 \in 0 .. K - 1 /\ K \in Nat
  BY ZeroInRange, HazardTrackerAssumption
<1>2. PlaceOK(t)
  BY DEF Places
<1>3. loc[t] \in Local
  OBVIOUS
<1>4. CASE Load(t)
  BY <1>4 DEF Load, Local
<1>5. CASE Reserve(t)
  BY <1>5, <1>3 DEF Reserve, Local
<1>6. CASE Recheck(t)
  <2>1. loc[t].k \in 0 .. K - 1
    BY <1>3 DEF Local
  <2>2. (loc[t].k + 1) % K \in 0 .. K - 1
    BY <2>1, NextSlot
  <2>3. Using(loc[t]) \in Local
    BY <1>3, <2>2 DEF Using, Local
  <2>4. [loc[t] EXCEPT !.next = Null] \in Local
    BY <1>3 DEF Local
  <2> QED  BY <1>6, <2>3, <2>4 DEF Recheck
<1>7. CASE Replace(t)
  BY <1>1, <1>3, <1>7 DEF Replace, Local
<1>8. CASE Leave(t)
  BY <1>1, <1>8 DEF Leave, Local, NoLocals
<1>9. CASE ClearAll(t)
  <2>1. loc[t].i + 1 < K => loc[t].i + 1 \in Indices
    <3> SUFFICES ASSUME loc[t].i + 1 < K  PROVE loc[t].i + 1 \in Indices
      OBVIOUS
    <3>1. loc[t].i \in Nat /\ loc[t].i + 1 \in 0 .. K - 1
      BY <1>1, <1>3 DEF Local, Indices
    <3>2. 0 \in Threads
      BY HazardTrackerAssumption DEF Threads
    <3>3. 0 * K + (loc[t].i + 1) \in Indices
      BY <3>1, <3>2, SlotInRange
    <3> QED  BY <1>1, <3>1, <3>3
  <2>2. loc[t].i + 1 < K => [loc[t] EXCEPT !.i = @ + 1] \in Local
    BY <1>3, <2>1 DEF Local
  <2>3. NoLocals \in Local
    BY <1>1 DEF Local, NoLocals
  <2>4. loc' \in [Threads -> Local]
    BY <1>9, <2>2, <2>3 DEF ClearAll
  <2>5. slots' \in [Indices -> Blocks \cup {Null}] /\ UNCHANGED <<root, trash, free>>
    BY <1>9 DEF ClearAll
  <2>6. pc' \in [Threads -> {"idle", "again", "reserve", "recheck", "inside", "drop",
                            "clear", "retire", "scan"}]
    BY <1>9 DEF ClearAll
  <2> QED  BY <2>4, <2>5, <2>6
<1>10. CASE Retire(t)
  <2>1. Append(trash[t], loc[t].held) \in Seq(Blocks)
    BY <1>2, <1>10 DEF Retire, PlaceOK
  <2>2. trash' \in [Threads -> Seq(Blocks)]
    BY <1>10, <2>1 DEF Retire
  <2>3. Len(trash[t]) + 1 \in Nat /\ Len(trash[t]) \in Nat
    OBVIOUS
  <2>4. (IF cntrs[t] = Freq THEN 1 ELSE Len(trash[t]) + 2) \in 1 .. (Len(trash[t]) + 1) + 1
    BY <2>3
  <2>5. loc' \in [Threads -> Local] /\ pc'[t] \in {"scan", "clear"}
        /\ pc' = [pc EXCEPT ![t] = pc'[t]]
    BY <1>10, <2>3, <2>4, ScanGoesOn DEF Retire
  <2> QED  BY <1>10, <2>2, <2>5 DEF Retire
<1>11. CASE Scan(t)
  <2> DEFINE n == Len(trash[t]) p == loc[t].it
  <2>1. n \in Nat /\ p \in 1 .. n /\ n - 1 \in Nat /\ p \in Nat
    BY <1>2, <1>11 DEF Scan, PlaceOK
  <2>2. CASE slots[loc[t].i] = trash[t][p]
    <3>1. Advance(p, n) \in 1 .. n + 1
      BY <2>1, AdvanceInList
    <3>2. ScanFrom(t, Advance(p, n), n) /\ UNCHANGED <<root, slots, cntrs, trash, free>>
      BY <1>11, <2>2 DEF Scan
    <3> QED  BY <2>1, <3>1, <3>2, ScanGoesOn
  <2>3. CASE slots[loc[t].i] # trash[t][p] /\ loc[t].i + 1 < N * K
    <3>1. loc[t].i + 1 \in Indices
      BY <1>3, <2>3, HazardTrackerAssumption DEF Local, Indices
    <3>2. [loc[t] EXCEPT !.i = @ + 1] \in Local
      BY <1>3, <3>1 DEF Local
    <3>3. loc' = [loc EXCEPT ![t].i = @ + 1] /\ UNCHANGED <<root, slots, trash, free, pc>>
      BY <1>11, <2>3 DEF Scan
    <3> QED  BY <3>2, <3>3
  <2>4. CASE slots[loc[t].i] # trash[t][p] /\ ~(loc[t].i + 1 < N * K)
    <3>1. Free(t) /\ UNCHANGED <<root, slots, cntrs>>
      BY <1>11, <2>4 DEF Scan
    <3>2. RemoveAt(trash[t], p) \in Seq(Blocks) /\ trash[t][p] \in Blocks
      BY <2>1, Erase
    <3>3. Advance(p, n - 1) \in 1 .. (n - 1) + 1
      BY <2>1, AdvanceInList
    <3>4. ScanFrom(t, Advance(p, n - 1), n - 1)
          /\ trash' = [trash EXCEPT ![t] = RemoveAt(trash[t], p)]
          /\ free' = free \cup {trash[t][p]}
      BY <3>1 DEF Free
    <3>5. loc' \in [Threads -> Local] /\ pc'[t] \in {"scan", "clear"}
          /\ pc' = [pc EXCEPT ![t] = pc'[t]]
      BY <2>1, <3>3, <3>4, ScanGoesOn
    <3> QED  BY <3>1, <3>2, <3>4, <3>5
  <2> QED  BY <2>2, <2>3, <2>4
<1> QED  BY <1>4, <1>5, <1>6, <1>7, <1>8, <1>9, <1>10, <1>11 DEF Step

\* A step of t leaves what the others have alone.
OthersKeep(t) ==
  \A u \in Threads \ {t} :
    /\ pc'[u] = pc[u] /\ loc'[u] = loc[u] /\ trash'[u] = trash[u]
    /\ \A j \in 0 .. K - 1 : slots'[u * K + j] = slots[u * K + j]

Writes(t, k, b) == slots' = [slots EXCEPT ![t * K + k] = b]

\* Only Reserve and clearAll write slots, each one of its own thread.
LEMMA OwnSlots ==
  ASSUME Types, NEW t \in Threads, NEW k \in 0 .. K - 1, NEW b, Writes(t, k, b)
  PROVE  \A u \in Threads, j \in 0 .. K - 1 :
           slots'[u * K + j] = IF u = t /\ j = k THEN b ELSE slots[u * K + j]
<1> SUFFICES ASSUME NEW u \in Threads, NEW j \in 0 .. K - 1
             PROVE  slots'[u * K + j] = IF u = t /\ j = k THEN b ELSE slots[u * K + j]
  OBVIOUS
<1>1. u * K + j \in Indices /\ t * K + k \in Indices
  BY SlotInRange
<1>2. u * K + j = t * K + k <=> u = t /\ j = k
  BY SlotsApart
<1> QED  BY <1>1, <1>2 DEF Types, Writes

\* No step writes the locals, the list or the reservations of another thread.
LEMMA StepOthers ==
  ASSUME Types, Places, NEW t \in Threads, Step(t)
  PROVE  OthersKeep(t)
<1> USE DEF OthersKeep, Goto, Memory
<1>1. loc[t] \in Local /\ PlaceOK(t)
  BY DEF Types, Places
<1>2. CASE Load(t)
  BY <1>2 DEF Load, Types
<1>3. CASE Reserve(t)
  <2>1. loc[t].k \in 0 .. K - 1
    BY <1>1 DEF Local
  <2>2. \A u \in Threads \ {t}, j \in 0 .. K - 1 : slots'[u * K + j] = slots[u * K + j]
    <3>1. Writes(t, loc[t].k, loc[t].next)
      BY <1>3 DEF Reserve, Writes
    <3> QED  BY <2>1, <3>1, OwnSlots
  <2> QED  BY <1>3, <2>2 DEF Reserve, Types
<1>4. CASE Recheck(t)
  BY <1>4 DEF Recheck, Types
<1>5. CASE Replace(t)
  BY <1>5 DEF Replace, Types
<1>6. CASE Leave(t)
  BY <1>6 DEF Leave, Types
<1>7. CASE ClearAll(t)
  <2>1. loc[t].i \in 0 .. K - 1
    <3>1. loc[t].i \in Nat
      BY <1>1 DEF Local, Indices
    <3>2. loc[t].i < K
      BY <1>1, <1>7 DEF ClearAll, PlaceOK
    <3> QED  BY <3>1, <3>2, HazardTrackerAssumption
  <2>2. \A u \in Threads \ {t}, j \in 0 .. K - 1 : slots'[u * K + j] = slots[u * K + j]
    <3>1. Writes(t, loc[t].i, Null)
      BY <1>7 DEF ClearAll, Writes
    <3> QED  BY <2>1, <3>1, OwnSlots
  <2>3. \A u \in Threads \ {t} : pc'[u] = pc[u] /\ loc'[u] = loc[u] /\ trash'[u] = trash[u]
    BY <1>7 DEF ClearAll, Types
  <2> QED  BY <2>2, <2>3
<1>8. CASE Retire(t)
  BY <1>8 DEF Retire, ScanFrom, Types
<1>9. CASE Scan(t)
  BY <1>9 DEF Scan, Free, ScanFrom, Types
<1> QED  BY <1>2, <1>3, <1>4, <1>5, <1>6, <1>7, <1>8, <1>9 DEF Step

\* Every step leaves its thread at a place that fits its locals.
LEMMA StepPlaces ==
  ASSUME Types, Places, NEW t \in Threads, Step(t)
  PROVE  Places'
<1>1. loc[t] \in Local /\ PlaceOK(t)
  BY DEF Types, Places
<1>2. OthersKeep(t)
  BY StepOthers
<1>3. PlaceOK(t)'
  <2> USE DEF Goto, Memory, Types
  <2>1. CASE Load(t)
    BY <1>1, <2>1 DEF Load, PlaceOK
  <2>2. CASE Reserve(t)
    <3>1. loc[t].k \in 0 .. K - 1
      BY <1>1 DEF Local
    <3>2. Writes(t, loc[t].k, loc[t].next)
      BY <2>2 DEF Reserve, Writes
    <3>3. slots'[t * K + loc[t].k] = loc[t].next
      BY <3>1, <3>2, OwnSlots
    <3> QED  BY <1>1, <2>2, <3>3 DEF Reserve, PlaceOK
  <2>3. CASE Recheck(t)
    <3>1. CASE root = loc[t].next
      <4>1. loc'[t].held = root /\ pc'[t] = "inside"
        <5>1. loc'[t] = Using(loc[t]) /\ pc'[t] = "inside"
          BY <2>3, <3>1 DEF Recheck
        <5>2. Using(loc[t]).held = loc[t].next
          BY <1>1 DEF Using, Local
        <5> QED  BY <3>1, <5>1, <5>2
      <4> QED  BY <4>1 DEF PlaceOK
    <3>2. CASE root # loc[t].next
      BY <2>3, <3>2 DEF Recheck, PlaceOK
    <3> QED  BY <3>1, <3>2
  <2>4. CASE Replace(t)
    BY <1>1, <2>4, HazardTrackerAssumption DEF Replace, PlaceOK, Local
  <2>5. CASE Leave(t)
    BY <1>1, <2>5, HazardTrackerAssumption DEF Leave, NoLocals, PlaceOK
  <2>6. CASE ClearAll(t)
    <3>1. CASE loc[t].i + 1 < K
      <4>1. pc'[t] = pc[t] /\ loc'[t] = [loc[t] EXCEPT !.i = @ + 1]
        BY <2>6, <3>1 DEF ClearAll
      <4>2. pc[t] \in {"drop", "clear"} /\ loc'[t].i < K /\ loc'[t].held = loc[t].held
        BY <1>1, <2>6, <3>1, <4>1 DEF ClearAll, Local
      <4> QED  BY <1>1, <4>1, <4>2 DEF PlaceOK
    <3>2. CASE ~(loc[t].i + 1 < K)
      BY <1>1, <2>6, <3>2, HazardTrackerAssumption DEF ClearAll, NoLocals, PlaceOK
    <3> QED  BY <3>1, <3>2
  <2>7. CASE Retire(t)
    <3> DEFINE n == Len(trash[t]) + 1
    <3>1. n \in Nat /\ (IF cntrs[t] = Freq THEN 1 ELSE Len(trash[t]) + 2) \in 1 .. n + 1
      OBVIOUS
    <3>2. trash'[t] = Append(trash[t], loc[t].held) /\ Len(trash'[t]) = n
      BY <2>7 DEF Retire
    <3>3. /\ pc'[t] \in {"scan", "clear"}
          /\ pc'[t] = "scan" => loc'[t].it \in 1 .. n
          /\ loc'[t].held = Null /\ loc'[t].i = 0
      BY <2>7, <3>1, ScanGoesOn DEF Retire
    <3>4. 0 < K
      BY HazardTrackerAssumption
    <3> QED  BY <3>2, <3>3, <3>4 DEF PlaceOK
  <2>8. CASE Scan(t)
    <3> DEFINE n == Len(trash[t]) p == loc[t].it
    <3>1. n \in Nat /\ p \in 1 .. n /\ n - 1 \in Nat /\ p \in Nat
      BY <1>1, <2>8 DEF Scan, PlaceOK
    <3>2. CASE slots[loc[t].i] = trash[t][p]
      <4>1. Advance(p, n) \in 1 .. n + 1
        BY <3>1, AdvanceInList
      <4>2. ScanFrom(t, Advance(p, n), n) /\ UNCHANGED trash
        BY <2>8, <3>2 DEF Scan
      <4>3. /\ pc'[t] \in {"scan", "clear"}
            /\ pc'[t] = "scan" => loc'[t].it \in 1 .. n
            /\ loc'[t].held = Null /\ loc'[t].i = 0
        BY <3>1, <4>1, <4>2, ScanGoesOn
      <4>4. 0 < K
        BY HazardTrackerAssumption
      <4> QED  BY <4>2, <4>3, <4>4 DEF PlaceOK
    <3>3. CASE slots[loc[t].i] # trash[t][p] /\ loc[t].i + 1 < N * K
      <4>1. loc' = [loc EXCEPT ![t].i = @ + 1] /\ UNCHANGED <<trash, pc>>
        BY <2>8, <3>3 DEF Scan
      <4>2. pc'[t] = "scan" /\ loc'[t].it = p /\ loc'[t].held = loc[t].held
        BY <1>1, <2>8, <4>1 DEF Scan, Local
      <4> QED  BY <1>1, <2>8, <3>1, <4>1, <4>2 DEF PlaceOK, Scan
    <3>4. CASE slots[loc[t].i] # trash[t][p] /\ ~(loc[t].i + 1 < N * K)
      <4>1. Free(t)
        BY <2>8, <3>4 DEF Scan
      <4>2. Len(trash'[t]) = n - 1
        BY <3>1, <4>1, Erase DEF Free
      <4>3. Advance(p, n - 1) \in 1 .. (n - 1) + 1
        BY <3>1, AdvanceInList
      <4>4. ScanFrom(t, Advance(p, n - 1), n - 1)
        BY <4>1 DEF Free
      <4>5. /\ pc'[t] \in {"scan", "clear"}
            /\ pc'[t] = "scan" => loc'[t].it \in 1 .. n - 1
            /\ loc'[t].held = Null /\ loc'[t].i = 0
        BY <3>1, <4>3, <4>4, ScanGoesOn
      <4>6. 0 < K
        BY HazardTrackerAssumption
      <4> QED  BY <4>2, <4>5, <4>6 DEF PlaceOK
    <3> QED  BY <3>2, <3>3, <3>4
  <2> QED  BY <2>1, <2>2, <2>3, <2>4, <2>5, <2>6, <2>7, <2>8 DEF Step
<1>4. ASSUME NEW u \in Threads \ {t}  PROVE PlaceOK(u)'
  <2>1. PlaceOK(u) /\ loc[u].k \in 0 .. K - 1
    BY DEF Places, Types, Local
  <2> QED  BY <1>2, <2>1 DEF OthersKeep, PlaceOK
<1> QED  BY <1>3, <1>4 DEF Places
-----------------------------------------------------------------------------
(* A block is in one place. *)

\* Steps that move no block, and make no thread retire one, keep the places apart.
LEMMA QuietApart ==
  ASSUME Apart, UNCHANGED <<root, free, trash>>,
         \A u \in Threads : Retiring(u)' => Retiring(u) /\ loc'[u].held = loc[u].held
  PROVE  Apart'
<1>1. ASSUME NEW u \in Threads  PROVE RetiringApart(u)'
  BY DEF Apart, RetiringApart
<1>2. ASSUME NEW u \in Threads  PROVE ListApart(u)'
  BY DEF Apart, ListApart
<1> QED  BY <1>1, <1>2 DEF Apart

\* The new block was in the pool, and the old one is on its way to a list.
LEMMA ReplaceApart ==
  ASSUME Types, Places, Apart, NEW t \in Threads, Replace(t)
  PROVE  Apart'
<1>1. PICK b \in free : root' = b /\ free' = free \ {b}
  BY DEF Replace
<1>2. /\ loc'[t].held = root /\ UNCHANGED trash
      /\ \A u \in Threads \ {t} : pc'[u] = pc[u] /\ loc'[u] = loc[u]
  BY DEF Replace, Goto, Types, Local
<1>3. root \notin free /\ \A u \in Threads : RetiringApart(u) /\ ListApart(u)
  BY DEF Apart
<1>4. ASSUME NEW u \in Threads  PROVE ListApart(u)'
  BY <1>1, <1>2, <1>3 DEF ListApart
<1>5. RetiringApart(t)'
  <2>1. root # root' /\ root \notin free'
    BY <1>1, <1>3
  <2>2. \A u \in Threads : \A p \in 1 .. Len(trash[u]) : trash[u][p] # root
    BY <1>3 DEF ListApart
  <2>3. \A u \in Threads \ {t} : Retiring(u)' => loc'[u].held # root
    BY <1>2, <1>3 DEF RetiringApart, Retiring
  <2> QED  BY <1>2, <2>1, <2>2, <2>3 DEF RetiringApart
<1>6. ASSUME NEW u \in Threads \ {t}  PROVE RetiringApart(u)'
  <2> SUFFICES ASSUME Retiring(u)'  PROVE RetiringApart(u)'
    BY DEF RetiringApart
  <2>1. Retiring(u) /\ loc'[u].held = loc[u].held
    BY <1>2 DEF Retiring
  <2>2. loc[u].held # root /\ loc[u].held \notin free
        /\ (\A v \in Threads : \A p \in 1 .. Len(trash[v]) : trash[v][p] # loc[u].held)
        /\ \A v \in Threads \ {u} : Retiring(v) => loc[v].held # loc[u].held
    BY <1>3, <2>1 DEF RetiringApart
  <2>3. \A v \in Threads \ {u} : Retiring(v)' => loc'[v].held # loc'[u].held
    BY <1>2, <2>1, <2>2 DEF Retiring
  <2> QED  BY <1>1, <1>2, <2>1, <2>2, <2>3 DEF RetiringApart
<1> QED  BY <1>1, <1>4, <1>5, <1>6 DEF Apart

\* The block goes from its thread to the end of the thread's list.
LEMMA RetireApart ==
  ASSUME Types, Places, Apart, NEW t \in Threads, Retire(t)
  PROVE  Apart'
<1> DEFINE h == loc[t].held n == Len(trash[t])
<1>1. Retiring(t) /\ h \in Blocks /\ n \in Nat
  BY DEF Retire, Retiring, Places, PlaceOK, Types
<1>2. UNCHANGED <<root, free>> /\ trash' = [trash EXCEPT ![t] = Append(trash[t], h)]
  BY DEF Retire
<1>3. ~Retiring(t)' /\ \A u \in Threads \ {t} : pc'[u] = pc[u] /\ loc'[u] = loc[u]
  BY DEF Retire, ScanFrom, Goto, Types, Retiring
<1>4. /\ h # root /\ h \notin free
      /\ \A u \in Threads : \A p \in 1 .. Len(trash[u]) : trash[u][p] # h
      /\ \A u \in Threads \ {t} : Retiring(u) => loc[u].held # h
  BY <1>1 DEF Apart, RetiringApart
<1>5. /\ Len(trash'[t]) = n + 1 /\ trash'[t][n + 1] = h
      /\ \A p \in 1 .. n : trash'[t][p] = trash[t][p]
  BY <1>1, <1>2 DEF Types
<1>6. \A u \in Threads \ {t} : trash'[u] = trash[u]
  BY <1>2 DEF Types
\* Every element of a list is h, or was there before.
<1>7. ASSUME NEW u \in Threads, NEW p \in 1 .. Len(trash'[u])
      PROVE  \/ u = t /\ p = n + 1 /\ trash'[u][p] = h
             \/ p \in 1 .. Len(trash[u]) /\ trash'[u][p] = trash[u][p]
  BY <1>1, <1>5, <1>6
<1>8. \A u \in Threads : ListApart(u) /\ RetiringApart(u)
  BY DEF Apart
<1>9. ASSUME NEW u \in Threads  PROVE ListApart(u)'
  <2> SUFFICES ASSUME NEW p \in 1 .. Len(trash'[u])
               PROVE  /\ trash'[u][p] # root' /\ trash'[u][p] \notin free'
                      /\ \A v \in Threads : \A q \in 1 .. Len(trash'[v]) :
                           trash'[v][q] = trash'[u][p] => v = u /\ q = p
    BY DEF ListApart
  <2>1. trash'[u][p] # root' /\ trash'[u][p] \notin free'
    BY <1>2, <1>4, <1>7, <1>8 DEF ListApart
  <2>2. ASSUME NEW v \in Threads, NEW q \in 1 .. Len(trash'[v]), trash'[v][q] = trash'[u][p]
        PROVE  v = u /\ q = p
    <3>1. CASE v = t /\ q = n + 1 /\ trash'[v][q] = h
      BY <1>4, <1>7, <2>2, <3>1
    <3>2. CASE q \in 1 .. Len(trash[v]) /\ trash'[v][q] = trash[v][q]
      <4>1. CASE u = t /\ p = n + 1 /\ trash'[u][p] = h
        BY <1>4, <2>2, <3>2, <4>1
      <4>2. CASE p \in 1 .. Len(trash[u]) /\ trash'[u][p] = trash[u][p]
        <5>1. trash[v][q] = trash[u][p]
          BY <2>2, <3>2, <4>2
        <5>2. ListApart(u)
          BY <1>8
        <5> QED  BY <3>2, <4>2, <5>1, <5>2 DEF ListApart
      <4> QED  BY <1>7, <4>1, <4>2
    <3> QED  BY <1>7, <3>1, <3>2
  <2> QED  BY <2>1, <2>2
<1>10. ASSUME NEW u \in Threads  PROVE RetiringApart(u)'
  <2> SUFFICES ASSUME Retiring(u)'  PROVE RetiringApart(u)'
    BY DEF RetiringApart
  <2>1. u # t /\ Retiring(u) /\ loc'[u].held = loc[u].held
    BY <1>3 DEF Retiring
  <2>2. loc[u].held # h /\ loc[u].held # root /\ loc[u].held \notin free
    BY <1>4, <1>8, <2>1 DEF RetiringApart
  <2>3. \A v \in Threads : \A p \in 1 .. Len(trash'[v]) : trash'[v][p] # loc[u].held
    BY <1>7, <1>8, <2>1, <2>2 DEF RetiringApart
  <2>4. \A v \in Threads \ {u} : Retiring(v)' => loc'[v].held # loc[u].held
    BY <1>3, <1>8, <2>1 DEF RetiringApart, Retiring
  <2> QED  BY <1>2, <2>1, <2>2, <2>3, <2>4 DEF RetiringApart
<1> QED  BY <1>2, <1>9, <1>10 DEF Apart

\* The block goes from its list to the pool.
LEMMA FreeApart ==
  ASSUME Types, Places, Apart, NEW t \in Threads, Scan(t), Free(t), UNCHANGED root
  PROVE  Apart'
<1> DEFINE n == Len(trash[t]) p == loc[t].it b == trash[t][p]
<1>1. n \in Nat /\ p \in 1 .. n
  BY DEF Scan, Places, PlaceOK, Types
<1>2. free' = free \cup {b} /\ trash' = [trash EXCEPT ![t] = RemoveAt(trash[t], p)]
  BY DEF Free
<1>3. \A u \in Threads : Retiring(u)' => Retiring(u) /\ loc'[u] = loc[u]
  BY DEF Scan, Free, ScanFrom, Goto, Types, Retiring
<1>4. \A u \in Threads \ {t} : trash'[u] = trash[u]
  BY <1>2 DEF Types
<1>5. /\ Len(trash'[t]) = n - 1
      /\ \A q \in 1 .. n - 1 : trash'[t][q] = trash[t][IF q < p THEN q ELSE q + 1]
  <2>1. trash[t] \in Seq(Blocks) /\ trash'[t] = RemoveAt(trash[t], p)
    BY <1>2 DEF Types
  <2> QED  BY <1>1, <2>1, Erase
\* Where an element of a list was before.
<1> DEFINE Was(u, q) == IF u # t \/ q < p THEN q ELSE q + 1
<1>6. ASSUME NEW u \in Threads, NEW q \in 1 .. Len(trash'[u])
      PROVE  /\ Was(u, q) \in 1 .. Len(trash[u]) /\ trash'[u][q] = trash[u][Was(u, q)]
             /\ ~(u = t /\ Was(u, q) = p)
  <2>1. CASE u = t
    BY <1>1, <1>5, <2>1
  <2>2. CASE u # t
    BY <1>4, <2>2
  <2> QED  BY <2>1, <2>2
<1>7. \A u \in Threads : ListApart(u) /\ RetiringApart(u)
  BY DEF Apart
<1>8. b # root /\ b \notin free
  BY <1>1, <1>7 DEF ListApart
<1>9. ASSUME NEW u \in Threads  PROVE ListApart(u)'
  <2> SUFFICES ASSUME NEW q \in 1 .. Len(trash'[u])
               PROVE  /\ trash'[u][q] # root' /\ trash'[u][q] \notin free'
                      /\ \A v \in Threads : \A r \in 1 .. Len(trash'[v]) :
                           trash'[v][r] = trash'[u][q] => v = u /\ r = q
    BY DEF ListApart
  <2> DEFINE w == Was(u, q)
  <2>1. w \in 1 .. Len(trash[u]) /\ trash'[u][q] = trash[u][w] /\ ~(u = t /\ w = p)
    BY <1>6
  <2>2. /\ trash[u][w] # root /\ trash[u][w] \notin free
        /\ \A v \in Threads : \A r \in 1 .. Len(trash[v]) :
             trash[v][r] = trash[u][w] => v = u /\ r = w
    BY <1>7, <2>1 DEF ListApart
  <2>3. trash[u][w] # b
    BY <1>1, <2>1, <2>2
  <2>4. ASSUME NEW v \in Threads, NEW r \in 1 .. Len(trash'[v]), trash'[v][r] = trash'[u][q]
        PROVE  v = u /\ r = q
    <3>1. Was(v, r) \in 1 .. Len(trash[v]) /\ trash'[v][r] = trash[v][Was(v, r)]
      BY <1>6
    <3>2. v = u /\ Was(v, r) = w
      BY <2>1, <2>2, <2>4, <3>1
    <3> QED  BY <1>1, <3>2
  <2> QED  BY <1>2, <2>1, <2>2, <2>3, <2>4
<1>10. ASSUME NEW u \in Threads  PROVE RetiringApart(u)'
  <2> SUFFICES ASSUME Retiring(u)'  PROVE RetiringApart(u)'
    BY DEF RetiringApart
  <2>1. Retiring(u) /\ loc'[u].held = loc[u].held
    BY <1>3
  <2>2. /\ loc[u].held # root /\ loc[u].held \notin free
        /\ \A v \in Threads : \A r \in 1 .. Len(trash[v]) : trash[v][r] # loc[u].held
        /\ \A v \in Threads \ {u} : Retiring(v) => loc[v].held # loc[u].held
    BY <1>7, <2>1 DEF RetiringApart
  <2>3. loc[u].held # b
    BY <1>1, <2>2
  <2>4. \A v \in Threads : \A r \in 1 .. Len(trash'[v]) : trash'[v][r] # loc[u].held
    BY <1>6, <2>2
  <2>5. \A v \in Threads \ {u} : Retiring(v)' => loc'[v].held # loc[u].held
    BY <1>3, <2>2
  <2> QED  BY <1>2, <2>1, <2>2, <2>3, <2>4, <2>5 DEF RetiringApart
<1>11. root \notin free
  BY DEF Apart
<1> QED  BY <1>2, <1>8, <1>9, <1>10, <1>11 DEF Apart

\* Every step keeps a block in one place.
LEMMA StepApart ==
  ASSUME Types, Places, Apart, NEW t \in Threads, Step(t)
  PROVE  Apart'
<1> USE DEF Goto, Memory, Types, Retiring
<1>1. CASE Load(t)
  BY <1>1, QuietApart DEF Load
<1>2. CASE Reserve(t)
  BY <1>2, QuietApart DEF Reserve
<1>3. CASE Recheck(t)
  BY <1>3, QuietApart DEF Recheck
<1>4. CASE Leave(t)
  BY <1>4, QuietApart DEF Leave
<1>5. CASE ClearAll(t)
  <2>1. UNCHANGED <<root, free, trash>>
    BY <1>5 DEF ClearAll
  <2>2. ASSUME NEW u \in Threads, Retiring(u)'
        PROVE  Retiring(u) /\ loc'[u].held = loc[u].held
    <3>1. CASE u # t
      BY <1>5, <2>2, <3>1 DEF ClearAll
    <3>2. CASE u = t
      BY <1>5, <2>2, <3>2 DEF ClearAll, Local
    <3> QED  BY <3>1, <3>2
  <2> QED  BY <2>1, <2>2, QuietApart
<1>6. CASE Scan(t)
  <2>1. CASE Free(t) /\ UNCHANGED root
    BY <1>6, <2>1, FreeApart
  <2>2. CASE UNCHANGED <<root, trash, free>>
    <3>1. \A u \in Threads : Retiring(u)' => Retiring(u) /\ loc'[u].held = loc[u].held
      BY <1>6 DEF Scan, Free, ScanFrom
    <3> QED  BY <2>2, <3>1, QuietApart
  <2> QED  BY <1>6, <2>1, <2>2 DEF Scan
<1> QED  BY <1>1, <1>2, <1>3, <1>4, <1>5, <1>6, ReplaceApart, RetireApart DEF Step
-----------------------------------------------------------------------------
(* A block in use is guarded. *)

\* A step of another thread frees no guarded block, and its scan of one does not pass
\* the slot that guards it.
LEMMA OtherGuards ==
  ASSUME Types, Places, Apart, Guarded, NEW u \in Threads, Step(u),
         NEW t \in Threads \ {u}
  PROVE  GuardedAt(t)'
<1> SUFFICES ASSUME pc'[t] \in InUse, loc'[t].held # Null
             PROVE  /\ loc'[t].held \notin free'
                    /\ \E j \in 0 .. K - 1 : j # loc'[t].k /\ Protects(t, j, loc[t].held)'
  BY DEF GuardedAt
<1> DEFINE b == loc[t].held
<1>1. OthersKeep(u)
  BY StepOthers
<1>2. pc'[t] = pc[t] /\ loc'[t] = loc[t]
      /\ \A j \in 0 .. K - 1 : slots'[t * K + j] = slots[t * K + j]
  BY <1>1 DEF OthersKeep
<1>3. b \notin free /\ b # Null /\ \E j \in 0 .. K - 1 : j # loc[t].k /\ Protects(t, j, b)
  BY <1>2 DEF Guarded, GuardedAt
<1>4. PICK j \in 0 .. K - 1 : j # loc[t].k /\ Protects(t, j, b)
  BY <1>3
<1> DEFINE x == t * K + j
<1>5. x \in Indices /\ x \in Nat /\ x < N * K /\ N * K \in Nat
  BY SlotInRange, HazardTrackerAssumption DEF Indices
<1>6. slots[x] = b /\ \A v \in Threads : pc[v] = "scan" /\ trash[v][loc[v].it] = b => loc[v].i <= x
  BY <1>4 DEF Protects
<1> HIDE DEF x
<1>7. slots'[x] = b
  BY <1>2, <1>6 DEF x
<1>8. b \notin free' /\ (pc'[u] = "scan" /\ trash'[u][loc'[u].it] = b => loc'[u].i <= x)
  <2> USE DEF Goto, Memory, Types
  <2>1. CASE Load(u)
    BY <1>3, <2>1 DEF Load
  <2>2. CASE Reserve(u)
    BY <1>3, <2>2 DEF Reserve
  <2>3. CASE Recheck(u)
    BY <1>3, <2>3 DEF Recheck
  <2>4. CASE Replace(u)
    BY <1>3, <2>4 DEF Replace
  <2>5. CASE Leave(u)
    BY <1>3, <2>5 DEF Leave
  <2>6. CASE ClearAll(u)
    BY <1>3, <2>6 DEF ClearAll
  <2>7. CASE Retire(u)
    <3>1. loc'[u].i = 0 /\ UNCHANGED free
      BY <2>7 DEF Retire, ScanFrom, NoLocals
    <3> QED  BY <1>3, <1>5, <3>1
  <2>8. CASE Scan(u)
    <3> DEFINE n == Len(trash[u]) p == loc[u].it i == loc[u].i
    <3>1. pc[u] = "scan" /\ p \in 1 .. n /\ i \in Nat /\ trash[u][p] \in Blocks
      BY <2>8 DEF Scan, Places, PlaceOK, Local, Indices
    <3>2. trash[u][p] = b => i <= x
      BY <1>6, <3>1
    <3>3. CASE slots[i] = trash[u][p]
      <4>1. loc'[u].i = 0 /\ UNCHANGED free
        BY <2>8, <3>3 DEF Scan, ScanFrom, NoLocals
      <4> QED  BY <1>3, <1>5, <4>1
    <3>4. CASE slots[i] # trash[u][p] /\ i + 1 < N * K
      <4>1. loc'[u] = [loc[u] EXCEPT !.i = i + 1] /\ UNCHANGED <<trash, free>>
        BY <2>8, <3>4 DEF Scan
      <4>2. loc'[u].i = i + 1 /\ loc'[u].it = p
        BY <4>1 DEF Local
      <4>3. trash[u][p] = b => i # x
        BY <1>6, <3>4
      <4> QED  BY <1>3, <1>5, <3>1, <3>2, <4>1, <4>2, <4>3
    <3>5. CASE slots[i] # trash[u][p] /\ ~(i + 1 < N * K)
      <4>1. Free(u)
        BY <2>8, <3>5 DEF Scan
      <4>2. loc'[u].i = 0 /\ free' = free \cup {trash[u][p]}
        BY <4>1 DEF Free, ScanFrom, NoLocals
      <4>3. trash[u][p] = b => i # x
        BY <1>6, <3>5
      <4>4. trash[u][p] # b
        BY <1>5, <3>1, <3>2, <3>5, <4>3
      <4> QED  BY <1>3, <1>5, <4>2, <4>4
    <3> QED  BY <3>3, <3>4, <3>5
  <2> QED  BY <2>1, <2>2, <2>3, <2>4, <2>5, <2>6, <2>7, <2>8 DEF Step
<1>9. ASSUME NEW v \in Threads, pc'[v] = "scan", trash'[v][loc'[v].it] = b
      PROVE  loc'[v].i <= x
  <2>1. CASE v = u
    BY <1>8, <1>9, <2>1
  <2>2. CASE v # u
    BY <1>1, <1>6, <1>9, <2>2 DEF OthersKeep
  <2> QED  BY <2>1, <2>2
<1>10. Protects(t, j, loc[t].held)'
  BY <1>2, <1>7, <1>9 DEF Protects, x
<1> QED  BY <1>2, <1>4, <1>8, <1>10

\* A thread that goes on keeps its guard; one that has reserved the word's block while
\* the word led to it has a new one, because that block is in no list.
LEMMA OwnGuards ==
  ASSUME Types, Places, Apart, Guarded, NEW t \in Threads, Step(t)
  PROVE  GuardedAt(t)'
<1> USE DEF Goto, Memory
<1>1. loc[t] \in Local /\ PlaceOK(t) /\ GuardedAt(t)
  BY DEF Types, Places, Guarded
<1>2. OthersKeep(t)
  BY StepOthers
<1>3. CASE Load(t)
  <2>1. /\ pc'[t] = "reserve" /\ loc'[t].held = loc[t].held /\ loc'[t].k = loc[t].k
        /\ UNCHANGED <<slots, trash, free>>
    BY <1>1, <1>3 DEF Load, Types, Local
  <2>2. pc[t] \in {"inside", "again"} \/ loc[t].held = Null
    BY <1>1, <1>3 DEF Load, PlaceOK
  <2>3. \A u \in Threads : pc'[u] = "scan" => pc[u] = "scan" /\ loc'[u] = loc[u]
    BY <1>2, <2>1 DEF OthersKeep
  <2> QED  BY <1>1, <2>1, <2>2, <2>3 DEF GuardedAt, Protects, InUse
<1>4. CASE Reserve(t)
  <2>1. /\ pc[t] = "reserve" /\ pc'[t] = "recheck"
        /\ UNCHANGED <<loc, trash, free>>
    BY <1>4 DEF Reserve, Types
  <2>2. loc[t].k \in 0 .. K - 1 /\ Writes(t, loc[t].k, loc[t].next)
    BY <1>1, <1>4 DEF Local, Reserve, Writes
  <2>3. \A j \in 0 .. K - 1 : j # loc[t].k => slots'[t * K + j] = slots[t * K + j]
    BY <2>2, OwnSlots
  <2>4. \A u \in Threads : pc'[u] = "scan" => pc[u] = "scan"
    BY <1>2, <2>1 DEF OthersKeep
  <2> QED  BY <1>1, <2>1, <2>3, <2>4 DEF GuardedAt, Protects, InUse
<1>5. CASE Recheck(t)
  <2>1. pc[t] = "recheck" /\ UNCHANGED <<root, slots, trash, free>>
    BY <1>5 DEF Recheck
  <2>2. CASE root # loc[t].next
    <3>1. pc'[t] = "again" /\ loc'[t].held = loc[t].held /\ loc'[t].k = loc[t].k
      BY <1>1, <1>5, <2>2 DEF Recheck, Types, Local
    <3>2. \A u \in Threads : pc'[u] = "scan" => pc[u] = "scan" /\ loc'[u] = loc[u]
      BY <1>2, <3>1 DEF OthersKeep
    <3> QED  BY <1>1, <2>1, <3>1, <3>2 DEF GuardedAt, Protects, InUse
  <2>3. CASE root = loc[t].next
    <3>0. PICK j \in 0 .. K - 1 : j = loc[t].k
      BY <1>1 DEF Local
    <3>1. slots[t * K + j] = root
      BY <1>1, <2>1, <2>3, <3>0 DEF PlaceOK
    <3>2. pc'[t] = "inside" /\ loc'[t] = Using(loc[t])
      BY <1>5, <2>3 DEF Recheck, Types
    <3>3. loc'[t].held = root /\ loc'[t].k = (j + 1) % K
      BY <1>1, <2>3, <3>0, <3>2 DEF Using, Local
    <3>4. j # loc'[t].k
      BY <3>3, NextSlot
    <3>5. root \notin free /\ \A u \in Threads : \A p \in 1 .. Len(trash[u]) : trash[u][p] # root
      BY DEF Apart, ListApart
    <3>6. ASSUME NEW u \in Threads, pc'[u] = "scan"  PROVE trash'[u][loc'[u].it] # root
      <4>1. pc[u] = "scan" /\ loc'[u] = loc[u]
        BY <1>2, <3>2, <3>6 DEF OthersKeep
      <4>2. loc[u].it \in 1 .. Len(trash[u])
        BY <4>1 DEF Places, PlaceOK
      <4> QED  BY <2>1, <3>5, <4>1, <4>2
    <3>7. Protects(t, j, loc[t].held)'
      BY <2>1, <3>1, <3>3, <3>6 DEF Protects
    <3> QED  BY <2>1, <3>1, <3>3, <3>4, <3>5, <3>7 DEF GuardedAt
  <2> QED  BY <2>2, <2>3
<1>6. CASE Replace(t) \/ Leave(t) \/ ClearAll(t) \/ Retire(t) \/ Scan(t)
  <2>1. pc'[t] \notin InUse
    BY <1>6 DEF Replace, Leave, ClearAll, Retire, Scan, Free, ScanFrom, Types, InUse
  <2> QED  BY <2>1 DEF GuardedAt
<1> QED  BY <1>3, <1>4, <1>5, <1>6 DEF Step
-----------------------------------------------------------------------------
(* The theorem. *)

\* The constructor establishes the invariant.
LEMMA InitInv == Init => Inv
<1> SUFFICES ASSUME Init  PROVE Inv
  OBVIOUS
<1>1. 0 \in Indices /\ 0 \in 0 .. K - 1 /\ First \in Blocks /\ K > 1
  BY ZeroInRange, HazardTrackerAssumption
<1>2. Types
  BY <1>1 DEF Init, Types, NoLocals, Local
<1>3. Places
  BY <1>1 DEF Init, Places, PlaceOK, NoLocals
<1>4. Apart
  BY DEF Init, Apart, RetiringApart, ListApart, Retiring
<1>5. Guarded
  BY DEF Init, Guarded, GuardedAt, InUse
<1> QED  BY <1>2, <1>3, <1>4, <1>5 DEF Inv

\* Every step of every thread keeps it.
LEMMA NextInv == Inv /\ [Next]_vars => Inv'
<1> SUFFICES ASSUME Inv, [Next]_vars  PROVE Inv'
  OBVIOUS
<1>1. CASE UNCHANGED vars
  BY <1>1 DEF vars, Inv, Types, Places, PlaceOK, Apart, RetiringApart, ListApart, Retiring,
              Guarded, GuardedAt, Protects
<1>2. ASSUME NEW t \in Threads, Step(t)  PROVE Inv'
  <2>1. Types /\ Places /\ Apart /\ Guarded
    BY DEF Inv
  <2>2. Types' /\ Places' /\ Apart'
    BY <1>2, <2>1, StepTypes, StepPlaces, StepApart
  <2>3. ASSUME NEW u \in Threads  PROVE GuardedAt(u)'
    BY <1>2, <2>1, OwnGuards, OtherGuards
  <2> QED  BY <2>2, <2>3 DEF Inv, Guarded
<1> QED  BY <1>1, <1>2 DEF Next

\* A block that is guarded, or about to be retired, is not in the pool.
LEMMA InvSafe == Inv => NoUseAfterFree
<1> SUFFICES ASSUME Inv, NEW t \in Threads,
                    pc[t] \in InUse \cup {"drop", "retire"}
             PROVE  loc[t].held \notin free
  BY DEF NoUseAfterFree, InUse
<1>1. CASE pc[t] \in InUse
  <2>1. Null \notin free
    BY HazardTrackerAssumption DEF Inv, Types
  <2> QED  BY <1>1, <2>1 DEF Inv, Guarded, GuardedAt
<1>2. CASE pc[t] \in {"drop", "retire"}
  BY <1>2 DEF Inv, Apart, RetiringApart, Retiring
<1> QED  BY <1>1, <1>2

\* No scan frees a block that a thread has reserved and found in place, or is about to
\* retire: HazardTracker::empty with the protocol of its clients, for every task_num,
\* slotsPerThread and emptyFreq.
THEOREM UseSafe == Spec => []NoUseAfterFree
<1>1. Init => Inv  BY InitInv
<1>2. Inv /\ [Next]_vars => Inv'  BY NextInv
<1>3. Inv => NoUseAfterFree  BY InvSafe
<1> QED  BY <1>1, <1>2, <1>3, PTL DEF Spec

\* The parts of Apart, taken together, leave a block one place.
LEMMA ApartOnePlace == Types /\ Apart => OnePlace
<1> SUFFICES ASSUME Types, Apart, NEW b \in Blocks, NEW p \in WhereIs(b), NEW q \in WhereIs(b)
             PROVE  p = q
  BY DEF OnePlace
<1> DEFINE OnWay(w) == \E t \in Threads : w = <<"way", t, 0>> /\ Retiring(t) /\ loc[t].held = b
<1> DEFINE InList(w) == \E t \in Threads : \E i \in 1 .. Len(trash[t]) : w = <<"list", t, i>> /\ trash[t][i] = b
<1>1. ASSUME NEW w \in WhereIs(b)
      PROVE  \/ w = <<"structure", 0, 0>> /\ root = b
             \/ w = <<"pool", 0, 0>> /\ b \in free
             \/ OnWay(w)
             \/ InList(w)
  BY DEF WhereIs
<1>2. \/ p = <<"structure", 0, 0>> /\ root = b
      \/ p = <<"pool", 0, 0>> /\ b \in free
      \/ OnWay(p)
      \/ InList(p)
  BY <1>1
<1>3. \/ q = <<"structure", 0, 0>> /\ root = b
      \/ q = <<"pool", 0, 0>> /\ b \in free
      \/ OnWay(q)
      \/ InList(q)
  BY <1>1
<1>4. root \notin free
  BY DEF Apart
<1>5. \A t \in Threads : RetiringApart(t) /\ ListApart(t)
  BY DEF Apart
<1>6. CASE OnWay(p)
  <2>1. PICK t \in Threads : p = <<"way", t, 0>> /\ Retiring(t) /\ loc[t].held = b
    BY <1>6
  <2>2. root # b /\ b \notin free /\ \A u \in Threads : \A i \in 1 .. Len(trash[u]) : trash[u][i] # b
    BY <1>5, <2>1 DEF RetiringApart
  <2>3. \A u \in Threads \ {t} : Retiring(u) => loc[u].held # b
    BY <1>5, <2>1 DEF RetiringApart
  <2> QED  BY <1>3, <2>1, <2>2, <2>3
<1>7. CASE InList(p)
  <2>1. PICK t \in Threads : \E i \in 1 .. Len(trash[t]) : p = <<"list", t, i>> /\ trash[t][i] = b
    BY <1>7
  <2>2. PICK i \in 1 .. Len(trash[t]) : p = <<"list", t, i>> /\ trash[t][i] = b
    BY <2>1
  <2>3. root # b /\ b \notin free
    BY <1>5, <2>2 DEF ListApart
  <2>4. \A u \in Threads : \A j \in 1 .. Len(trash[u]) : trash[u][j] = b => u = t /\ j = i
    BY <1>5, <2>2 DEF ListApart
  <2>5. \A u \in Threads : Retiring(u) => loc[u].held # b
    BY <1>5, <2>2 DEF RetiringApart
  <2> QED  BY <1>3, <2>2, <2>3, <2>4, <2>5
<1>8. CASE (p = <<"structure", 0, 0>> /\ root = b) \/ (p = <<"pool", 0, 0>> /\ b \in free)
  <2>1. \A t \in Threads : Retiring(t) => loc[t].held # b
    BY <1>5, <1>8 DEF RetiringApart
  <2>2. \A t \in Threads : \A i \in 1 .. Len(trash[t]) : trash[t][i] # b
    BY <1>5, <1>8 DEF ListApart
  <2> QED  BY <1>3, <1>4, <1>8, <2>1, <2>2
<1> QED  BY <1>2, <1>6, <1>7, <1>8

\* A block is in the structure, in the pool, about to be retired by one thread or once in
\* one list of retired blocks: no thread retires or frees what another one has, and the
\* assert in HazardTracker::retire holds.
THEOREM BlocksApart == Spec => []OnePlace
<1>1. Init => Inv  BY InitInv
<1>2. Inv /\ [Next]_vars => Inv'  BY NextInv
<1>3. Inv => OnePlace  BY ApartOnePlace DEF Inv
<1> QED  BY <1>1, <1>2, <1>3, PTL DEF Spec
=============================================================================
