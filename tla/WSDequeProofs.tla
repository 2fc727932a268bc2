--------------------------- MODULE WSDequeProofs ---------------------------
(***************************************************************************)
(* WSDeque.  On every machine, what a dequeue returns was enqueued (the    *)
(* second half of the module).  On a machine where every store is visible  *)
(* at once, no value is dequeued twice, a thief that wins has the value at *)
(* top, and bottom is never further than one below top when the owner is   *)
(* idle (the first half).                                                  *)
(***************************************************************************)
EXTENDS WSDeque, TLAPS, FiniteSetTheorems, SequenceTheorems

-----------------------------------------------------------------------------
(* The inductive invariant.  Its parts: the types; what the owner of a deque knows of  *)
(* top and bottom; what a thief knows of the deque it steals from; and the values that *)
(* are still to be taken, which are at one place each.                                 *)

Arrays == UNION { [0..(n - 1) -> Words] : n \in Nat \ {0, 1} }
States == [bottom : Int, rings : Seq(Arrays) \ {<<>>}]
Locals == [val : Words, b : Int, t : Nat, ring : Nat, from : Threads \cup {Empty}, tries : Nat]

Places ==
  {"idle", "pushTop", "pushGrow", "pushPut", "pushBottom", "popBottom", "popTop", "popReset",
   "popCas", "popLast", "choose", "stealTop", "stealBottom", "stealRing", "stealReserved",
   "stealGet", "stealCas"}

Typed ==
  /\ top \in [Threads -> Nat]
  /\ seen \in [Threads -> States]
  /\ buffer = [d \in Threads |-> <<>>]
  /\ pc \in [Threads -> Places]
  /\ loc \in [Threads -> Locals]
  /\ given \in SUBSET Values
  /\ taken \in [Words -> Nat]

Bottom(d) == seen[d].bottom
Room(d) == Size(Current(seen[d]))
Cell(d, i) == Get(Current(seen[d]), i)

\* The owner has lowered bottom and not yet decided what that gives.
Popping(d) == pc[d] \in {"popTop", "popCas"}

\* The owner knows bottom, which only it stores; top may have grown since it read it, but
\* not past a value that the owner still counts on.
OwnerOK(d) ==
  /\ Bottom(d) >= -1 /\ Bottom(d) >= top[d] - 2 /\ Bottom(d) - top[d] <= Room(d) - 1
  /\ pc[d] \notin {"popTop", "popReset"} => Bottom(d) >= 0 /\ Bottom(d) >= top[d] - 1
  /\ pc[d] = "popReset" => loc[d].t = top[d] /\ Bottom(d) < top[d]
  /\ pc[d] = "popCas" =>
       /\ loc[d].t = Bottom(d) /\ top[d] \in {Bottom(d), Bottom(d) + 1}
       /\ loc[d].val = Cell(d, Bottom(d))
  /\ pc[d] = "popLast" => loc[d].t = Bottom(d) /\ top[d] = Bottom(d) + 1
  /\ pc[d] \in {"pushGrow", "pushPut", "pushBottom"} => loc[d].b = Bottom(d) /\ loc[d].t <= top[d]
  /\ pc[d] = "pushGrow" => Bottom(d) - loc[d].t <= Room(d) - 1
  /\ pc[d] \in {"pushPut", "pushBottom"} => Bottom(d) - loc[d].t <= Room(d) - 2
  /\ pc[d] = "pushBottom" => loc[d].val = Cell(d, Bottom(d))

\* There is a value at top that a thief may take.
Offered(d) == Bottom(d) > top[d] \/ (Bottom(d) = top[d] /\ Popping(d))

Stealing == {"stealTop", "stealBottom", "stealRing", "stealReserved", "stealGet", "stealCas"}

\* A thief whose t is still top, and which has seen a bottom above it, can rely on that
\* value: the owner does not take it without moving top.
ThiefOK(p) ==
  LET d == loc[p].from
      current == loc[p].t = top[d]
  IN /\ pc[p] \in Stealing => d \in Threads \ {p}
     /\ pc[p] \in Stealing \ {"stealTop"} => loc[p].t <= top[d]
     /\ pc[p] \in Stealing \ {"stealTop", "stealBottom"} =>
          (current /\ loc[p].b > loc[p].t => Offered(d))
     /\ pc[p] \in {"stealReserved", "stealGet"} => loc[p].ring \in 1..Active(seen[d])
     /\ pc[p] \in {"stealGet", "stealCas"} => loc[p].b > loc[p].t
     /\ pc[p] = "stealGet" =>
          (current => Get(seen[d].rings[loc[p].ring], top[d]) = Cell(d, top[d]))
     /\ pc[p] = "stealCas" => (current => loc[p].val = Cell(d, top[d]))

\* The owner holds a value that is in no slot between top and bottom: one that it is about
\* to push, or the last one, which it has won.
Holding(d) == pc[d] \in {"pushTop", "pushGrow", "pushPut", "pushBottom", "popLast"}

\* The indices of the values still to be taken.  The value in hand counts as the one at bottom.
Live(d) ==
  (top[d]..(Bottom(d) - 1))
    \cup { i \in {Bottom(d)} : Holding(d) \/ (Popping(d) /\ Bottom(d) >= top[d]) }

Content(d, i) == IF i = Bottom(d) /\ Holding(d) THEN loc[d].val ELSE Cell(d, i)

Fresh == \A d \in Threads : \A i \in Live(d) : Content(d, i) \in given /\ taken[Content(d, i)] = 0

Apart ==
  \A d, e \in Threads : \A i \in Live(d), j \in Live(e) :
    Content(d, i) = Content(e, j) => d = e /\ i = j

Contents0 == Fresh /\ Apart /\ TakenWasGiven /\ TakenOnce

Inv ==
  /\ Typed
  /\ \A d \in Threads : OwnerOK(d)
  /\ \A p \in Threads : ThiefOK(p)
  /\ Contents0

IInv == depth = 0 => Inv

-----------------------------------------------------------------------------
(* Rings: what a slot holds after a put or a growth, for any size. *)

\* A remainder is below the size of the ring.
LEMMA RemainderRange ==
  ASSUME NEW i \in Int, NEW n \in Nat, n > 0
  PROVE  i % n \in 0..(n - 1)
OBVIOUS

\* Two indices with less than a ring between them have different slots.
LEMMA SlotsDiffer ==
  ASSUME NEW i \in Int, NEW j \in Int, NEW n \in Nat, n > 0,
         i - j < n, j - i < n, i % n = j % n
  PROVE  i = j
<1> DEFINE k == i \div n
           l == j \div n
<1>1. k \in Int /\ l \in Int /\ i = n * k + (i % n) /\ j = n * l + (j % n)  OBVIOUS
<1>2. i % n \in Int /\ j % n \in Int  BY RemainderRange
<1>3. n * k \in Int /\ n * l \in Int  BY <1>1
<1>4. i - j = n * k - n * l  BY <1>1, <1>2, <1>3
<1>5. i - j = n * (k - l)  BY <1>1, <1>4
<1>6. CASE k = l  BY <1>6, <1>4, <1>3
<1>7. CASE k # l
  <2>1. k - l \in Int /\ k - l # 0  BY <1>1, <1>7
  <2>2. n * (k - l) >= n \/ n * (k - l) <= -n  BY <2>1
  <2> QED  BY <2>2, <1>5
<1> QED  BY <1>6, <1>7

\* The size of a ring is the number of its slots.
LEMMA RingType ==
  ASSUME NEW a \in Arrays
  PROVE  Size(a) \in Nat /\ Size(a) > 1 /\ a \in [0..(Size(a) - 1) -> Words]
<1>1. PICK n \in Nat \ {0, 1} : a \in [0..(n - 1) -> Words]  BY DEF Arrays
<1>2. Cardinality(0..(n - 1)) = n  BY FS_Interval
<1>3. DOMAIN a = 0..(n - 1)  BY <1>1
<1> QED  BY <1>1, <1>2, <1>3 DEF Size

\* Every slot holds a word.
LEMMA GetType ==
  ASSUME NEW a \in Arrays, NEW i \in Int
  PROVE  Get(a, i) \in Words
BY RingType, RemainderRange DEF Get

\* A put changes one slot of the indices that lie within a ring of it.
LEMMA PutSlots ==
  ASSUME NEW a \in Arrays, NEW i \in Int, NEW v \in Words
  PROVE  /\ Put(a, i, v) \in Arrays
         /\ Size(Put(a, i, v)) = Size(a)
         /\ Get(Put(a, i, v), i) = v
         /\ \A j \in Int : j # i /\ i - j < Size(a) /\ j - i < Size(a)
              => Get(Put(a, i, v), j) = Get(a, j)
<1> DEFINE n == Size(a)
           c == Put(a, i, v)
<1>1. n \in Nat /\ n > 1 /\ a \in [0..(n - 1) -> Words]  BY RingType
<1>2. i % n \in 0..(n - 1)  BY <1>1, RemainderRange
<1> HIDE DEF n
<1>3. c = [a EXCEPT ![i % n] = v]  BY DEF Put, n
<1>4. c \in [0..(n - 1) -> Words]  BY <1>1, <1>2, <1>3
<1>5. c \in Arrays  BY <1>1, <1>4 DEF Arrays
<1>6. DOMAIN c = DOMAIN a  BY <1>1, <1>4
<1>7. Size(c) = n  BY <1>6 DEF Size, n
<1>8. c[i % n] = v  BY <1>1, <1>2, <1>3
<1>9. ASSUME NEW j \in Int, j # i, i - j < n, j - i < n
      PROVE  c[j % n] = a[j % n]
  <2>1. j % n \in 0..(n - 1) /\ j % n # i % n  BY <1>1, <1>9, RemainderRange, SlotsDiffer
  <2> QED  BY <1>1, <1>3, <2>1
<1> QED  BY <1>5, <1>7, <1>8, <1>9 DEF Get, n

\* A growth doubles the ring and keeps what lies between top and bottom.
LEMMA GrowSlots ==
  ASSUME NEW a \in Arrays, NEW b \in Int, NEW t \in Int, b - t <= Size(a)
  PROVE  /\ Grow(a, b, t) \in Arrays
         /\ Size(Grow(a, b, t)) = 2 * Size(a)
         /\ \A i \in t..(b - 1) : Get(Grow(a, b, t), i) = Get(a, i)
<1> DEFINE n == 2 * Size(a)
           c == Grow(a, b, t)
           Source(j) == CHOOSE i \in t..(b - 1) : i % n = j
<1>1. Size(a) \in Nat /\ Size(a) > 1  BY RingType
<1>2. n \in Nat /\ n > 1  BY <1>1
<1>3. \A i \in Int : Get(a, i) \in Words  BY GetType
<1>4. c = [j \in 0..(n - 1) |-> IF \E i \in t..(b - 1) : i % n = j
                                 THEN Get(a, Source(j)) ELSE Garbage]
  BY DEF Grow
<1> HIDE DEF n
<1>5. \A j \in 0..(n - 1) : (\E i \in t..(b - 1) : i % n = j)
        => Source(j) \in t..(b - 1) /\ Source(j) % n = j
  OBVIOUS
<1>6. Garbage \in Words  BY DEF Words
<1>7. c \in [0..(n - 1) -> Words]
  <2>1. \A j \in 0..(n - 1) : c[j] \in Words  BY <1>3, <1>4, <1>5, <1>6
  <2> QED  BY <1>4, <2>1
<1>8. c \in Arrays  BY <1>2, <1>7 DEF Arrays
<1>9. Size(c) = n
  <2>1. DOMAIN c = 0..(n - 1)  BY <1>7
  <2>2. Cardinality(0..(n - 1)) = n  BY <1>2, FS_Interval
  <2> QED  BY <2>1, <2>2 DEF Size
<1>10. ASSUME NEW i \in t..(b - 1)
       PROVE  c[i % n] = Get(a, i)
  <2> DEFINE j == i % n
             k == Source(j)
  <2>1. j \in 0..(n - 1)  BY <1>2, RemainderRange
  <2>2. k \in t..(b - 1) /\ k % n = j  BY <1>5, <2>1
  <2>3. i - k < n /\ k - i < n  BY <2>2, <1>1 DEF n
  <2>4. k = i
    <3> HIDE DEF k
    <3> QED  BY <2>2, <2>3, <1>2, SlotsDiffer
  <2>5. c[j] = Get(a, k)  BY <1>4, <2>1
  <2> QED  BY <2>4, <2>5
<1>11. \A i \in t..(b - 1) : Get(c, i) = Get(a, i)  BY <1>9, <1>10 DEF Get
<1> QED  BY <1>8, <1>9, <1>11 DEF n

-----------------------------------------------------------------------------
(* The state of a deque, and stores to it. *)

\* The parts of a deque have their types.
LEMMA DequeType ==
  ASSUME Typed, NEW d \in Threads
  PROVE  /\ seen[d] = [bottom |-> Bottom(d), rings |-> seen[d].rings]
         /\ seen[d].rings \in Seq(Arrays)
         /\ Bottom(d) \in Int /\ top[d] \in Nat
         /\ Active(seen[d]) \in Nat /\ Active(seen[d]) > 0
         /\ \A k \in 1..Active(seen[d]) : seen[d].rings[k] \in Arrays
         /\ Current(seen[d]) \in Arrays
         /\ Room(d) \in Nat /\ Room(d) > 1
         /\ \A i \in Int : Cell(d, i) \in Words
<1>1. seen[d] \in States /\ top[d] \in Nat  BY DEF Typed
<1>2. seen[d].rings \in Seq(Arrays) /\ seen[d].rings # <<>>  BY <1>1 DEF States
<1>3. Len(seen[d].rings) \in Nat /\ Len(seen[d].rings) > 0  BY <1>2
<1>4. \A k \in 1..Len(seen[d].rings) : seen[d].rings[k] \in Arrays  BY <1>2
<1>5. Current(seen[d]) \in Arrays  BY <1>3, <1>4 DEF Current, Active
<1>6. Room(d) \in Nat /\ Room(d) > 1  BY <1>5, RingType DEF Room
<1>7. \A i \in Int : Cell(d, i) \in Words  BY <1>5, GetType DEF Cell
<1> QED  BY <1>1, <1>2, <1>3, <1>4, <1>5, <1>6, <1>7 DEF States, Bottom, Active

\* The locals of a thread have their types.
LEMMA LocalsType ==
  ASSUME Typed, NEW p \in Threads
  PROVE  /\ loc[p] \in Locals
         /\ loc[p].val \in Words /\ loc[p].b \in Int /\ loc[p].t \in Nat
         /\ loc[p].ring \in Nat /\ loc[p].from \in Threads \cup {Empty} /\ loc[p].tries \in Nat
BY DEF Typed, Locals

\* Where no store is delayed the owner sees what the others see, and a store is a write.
LEMMA InOrder ==
  ASSUME depth = 0, Typed, NEW d \in Threads
  PROVE  /\ Own(d) = seen[d]
         /\ \A q : Store(d, q) => seen' = [seen EXCEPT ![d] = q] /\ buffer' = buffer
BY DEF Typed, Own, Store

-----------------------------------------------------------------------------
(* What a step leaves as it was. *)

\* Nothing of the deque of d and of the thread d changes.
Untouched(d) ==
  seen'[d] = seen[d] /\ top'[d] = top[d] /\ pc'[d] = pc[d] /\ loc'[d] = loc[d]

\* The deque of d goes on: top only grows, rings are only added, and a value that is
\* offered at top is still offered, in every ring that holds it.
Advances(d) ==
  /\ top[d] <= top'[d]
  /\ Active(seen[d]) <= Active(seen'[d])
  /\ top'[d] = top[d] /\ Offered(d) =>
       /\ Offered(d)'
       /\ Get(Current(seen'[d]), top[d]) = Cell(d, top[d])
       /\ \A k \in 1..Active(seen[d]) :
            Get(seen[d].rings[k], top[d]) = Cell(d, top[d])
              => Get(seen'[d].rings[k], top[d]) = Cell(d, top[d])

\* What is live in the deque of d has been so before.
Moves(d) == \A i \in Live(d)' : i \in Live(d) /\ Content(d, i)' = Content(d, i)

\* An untouched deque advances, and keeps its contents and what its owner knows.
LEMMA UntouchedStays ==
  ASSUME Typed, NEW d \in Threads, Untouched(d)
  PROVE  /\ Advances(d) /\ Moves(d)
         /\ OwnerOK(d) => OwnerOK(d)'
<1>1. top[d] \in Nat /\ Active(seen[d]) \in Nat  BY DequeType
<1>2. Advances(d)
  BY <1>1 DEF Untouched, Advances, Offered, Popping, Bottom, Cell
<1>3. Moves(d)
  BY DEF Untouched, Moves, Live, Content, Holding, Popping, Bottom, Cell
<1>4. OwnerOK(d) => OwnerOK(d)'
  BY DEF Untouched, OwnerOK, Bottom, Room, Cell
<1> QED  BY <1>2, <1>3, <1>4

\* A thief that does nothing still knows what it knew.
LEMMA ThiefStays ==
  ASSUME Typed, Typed', NEW q \in Threads, pc'[q] = pc[q], loc'[q] = loc[q], ThiefOK(q),
         \A d \in Threads : Advances(d)
  PROVE  ThiefOK(q)'
<1> SUFFICES ASSUME pc[q] \in Stealing PROVE ThiefOK(q)'
  BY DEF ThiefOK, Stealing
<1> DEFINE d == loc[q].from
<1>1. d \in Threads  BY DEF ThiefOK
<1>2. Advances(d)  BY <1>1
<1>3. top[d] \in Nat /\ top'[d] \in Nat /\ loc[q].t \in Nat /\ loc[q].ring \in Nat /\ loc[q].b \in Int
  BY <1>1, LocalsType DEF Typed
<1>4. Active(seen[d]) \in Nat /\ Active(seen'[d]) \in Nat
  BY <1>1 DEF Typed, States, Active
<1>5. pc[q] \in Stealing \ {"stealTop"} => loc[q].t <= top'[d]
  BY <1>2, <1>3 DEF ThiefOK, Advances
<1>6. ASSUME pc[q] \in Stealing \ {"stealTop"}, loc[q].t = top'[d]
      PROVE  top'[d] = top[d] /\ loc[q].t = top[d]
  BY <1>2, <1>3, <1>6 DEF ThiefOK, Advances
<1>7. pc[q] \in Stealing \ {"stealTop", "stealBottom"} =>
        (loc[q].t = top'[d] /\ loc[q].b > loc[q].t => Offered(d)')
  BY <1>2, <1>6 DEF ThiefOK, Advances
<1>8. pc[q] \in {"stealReserved", "stealGet"} => loc[q].ring \in 1..Active(seen'[d])
  BY <1>2, <1>3, <1>4 DEF ThiefOK, Advances
<1>9. pc[q] = "stealGet" =>
        (loc[q].t = top'[d] => Get(seen'[d].rings[loc[q].ring], top'[d]) = Get(Current(seen'[d]), top'[d]))
  BY <1>2, <1>6 DEF ThiefOK, Advances, Stealing
<1>10. pc[q] = "stealCas" => (loc[q].t = top'[d] => loc[q].val = Get(Current(seen'[d]), top'[d]))
  BY <1>2, <1>6 DEF ThiefOK, Advances, Stealing
<1>11. pc[q] \in {"stealGet", "stealCas"} => loc[q].b > loc[q].t  BY DEF ThiefOK
<1> QED  BY <1>1, <1>5, <1>7, <1>8, <1>9, <1>10, <1>11 DEF ThiefOK, Cell

\* A step of p touches its own deque only: what the others know is left.
LEMMA OwnStep ==
  ASSUME Inv, Typed', NEW p \in Threads, \A d \in Threads \ {p} : Untouched(d),
         OwnerOK(p)', ThiefOK(p)', Advances(p)
  PROVE  /\ \A d \in Threads : OwnerOK(d)'
         /\ \A q \in Threads : ThiefOK(q)'
         /\ \A d \in Threads \ {p} : Moves(d)
<1>1. Typed  BY DEF Inv
<1>2. \A d \in Threads \ {p} : Advances(d) /\ Moves(d) /\ OwnerOK(d)'
  BY <1>1, UntouchedStays DEF Inv
<1>3. \A d \in Threads : Advances(d)  BY <1>2
<1>4. \A q \in Threads \ {p} : ThiefOK(q)'
  BY <1>1, <1>3, ThiefStays DEF Inv, Untouched
<1> QED  BY <1>2, <1>4

-----------------------------------------------------------------------------
(* What becomes of the values. *)

\* Nothing is taken.
LEMMA NothingTaken ==
  ASSUME Contents0, \A d \in Threads : Moves(d), given' = given, taken' = taken
  PROVE  Contents0'
<1>1. Fresh'  BY DEF Contents0, Fresh, Moves
<1>2. Apart'  BY DEF Contents0, Apart, Moves
<1>3. TakenWasGiven' /\ TakenOnce'  BY DEF Contents0, TakenWasGiven, TakenOnce
<1> QED  BY <1>1, <1>2, <1>3 DEF Contents0

\* A dequeue answers that there is nothing.
LEMMA EmptyAnswered ==
  ASSUME Typed, Contents0, \A d \in Threads : Moves(d), given' = given, Empty \notin Values,
         taken' = [taken EXCEPT ![Empty] = @ + 1]
  PROVE  Contents0'
<1>1. \A v \in Values : taken'[v] = taken[v]  BY DEF Typed, Words
<1>2. given \subseteq Values  BY DEF Typed
<1>3. Fresh'  BY <1>1, <1>2 DEF Contents0, Fresh, Moves
<1>4. Apart'  BY DEF Contents0, Apart, Moves
<1>5. TakenWasGiven' /\ TakenOnce'  BY <1>1 DEF Contents0, TakenWasGiven, TakenOnce
<1> QED  BY <1>3, <1>4, <1>5 DEF Contents0

\* A live value is taken, and is live no more.
LEMMA LiveTaken ==
  ASSUME Typed, Contents0, \A d \in Threads : Moves(d), given' = given,
         NEW p \in Threads, NEW k \in Live(p), k \notin Live(p)',
         taken' = [taken EXCEPT ![Content(p, k)] = @ + 1]
  PROVE  Contents0'
<1> DEFINE v == Content(p, k)
<1>1. v \in given /\ taken[v] = 0  BY DEF Contents0, Fresh
<1>2. v \in Values /\ v \in Words /\ given \subseteq Values  BY <1>1 DEF Typed, Words
<1>3. taken'[v] = 1 /\ \A w \in Values : w # v => taken'[w] = taken[w]
  BY <1>1, <1>2 DEF Typed, Words
<1>4. ASSUME NEW d \in Threads, NEW i \in Live(d)'
      PROVE  Content(d, i)' \in given' /\ taken'[Content(d, i)'] = 0
  <2>1. i \in Live(d) /\ Content(d, i)' = Content(d, i)  BY <1>4 DEF Moves
  <2>2. Content(d, i) # v  BY <1>4, <2>1 DEF Contents0, Apart
  <2>3. Content(d, i) \in given /\ taken[Content(d, i)] = 0  BY <2>1 DEF Contents0, Fresh
  <2> QED  BY <1>2, <1>3, <2>1, <2>2, <2>3
<1>5. Fresh'  BY <1>4 DEF Fresh
<1>6. Apart'  BY DEF Contents0, Apart, Moves
<1>7. TakenWasGiven'  BY <1>1, <1>3 DEF Contents0, TakenWasGiven
<1>8. TakenOnce'  BY <1>3 DEF Contents0, TakenOnce
<1> QED  BY <1>5, <1>6, <1>7, <1>8 DEF Contents0

-----------------------------------------------------------------------------
(* push. *)

\* A call of enqueue puts a new value in the hand of the thread.
LEMMA EnqueueStep ==
  ASSUME Inv, NEW p \in Threads, NEW v \in Values, Enqueue(p, v)
  PROVE  Inv'
<1>1. Typed /\ OwnerOK(p) /\ Contents0  BY DEF Inv
<1>2. pc' = [pc EXCEPT ![p] = "pushTop"] /\ loc' = [loc EXCEPT ![p].val = v]
      /\ pc[p] = "idle" /\ v \notin given
      /\ given' = given \cup {v} /\ UNCHANGED <<top, seen, buffer, taken>>
  BY DEF Enqueue, Goto, At
<1>3. pc'[p] = "pushTop" /\ loc'[p].val = v /\ \A d \in Threads \ {p} : Untouched(d)
  BY <1>1, <1>2 DEF Typed, Locals, Untouched
<1>4. Typed'
  <2>1. loc' \in [Threads -> Locals]  BY <1>1, <1>2 DEF Typed, Locals, Words
  <2>2. pc' \in [Threads -> Places]  BY <1>1, <1>2 DEF Typed, Places
  <2> QED  BY <1>1, <1>2, <2>1, <2>2 DEF Typed
<1>5. top[p] \in Nat /\ Bottom(p) \in Int /\ Active(seen[p]) \in Nat  BY <1>1, DequeType
<1>6. OwnerOK(p)' /\ ThiefOK(p)'
  BY <1>1, <1>2, <1>3 DEF OwnerOK, ThiefOK, Bottom, Room, Cell, Stealing
<1>7. Advances(p)
  BY <1>2, <1>3, <1>5 DEF Advances, Offered, Popping, Bottom, Cell
<1>8. /\ \A d \in Threads : OwnerOK(d)'
      /\ \A q \in Threads : ThiefOK(q)'
      /\ \A d \in Threads \ {p} : Moves(d)
  BY <1>3, <1>4, <1>6, <1>7, OwnStep
<1>9. ASSUME NEW d \in Threads, NEW i \in Live(d)'
      PROVE  \/ i \in Live(d) /\ Content(d, i)' = Content(d, i)
             \/ d = p /\ i = Bottom(p) /\ Content(d, i)' = v
  <2>1. CASE d # p  BY <1>8, <1>9, <2>1 DEF Moves
  <2>2. CASE d = p
    BY <1>2, <1>3, <1>5, <1>9, <2>2 DEF Live, Content, Holding, Popping, Bottom, Cell
  <2> QED  BY <2>1, <2>2
<1>10. \A d \in Threads : \A i \in Live(d) : Content(d, i) \in given /\ Content(d, i) # v
  BY <1>1, <1>2 DEF Contents0, Fresh
<1>11. taken[v] = 0
  <2>1. v \notin given \cup {Empty}  BY <1>2, WSDequeAssumption
  <2>2. v \in Words /\ taken[v] \in Nat  BY <1>1 DEF Typed, Words
  <2> QED  BY <1>1, <2>1, <2>2 DEF Contents0, TakenWasGiven
<1>12. Fresh'  BY <1>1, <1>2, <1>9, <1>11 DEF Fresh, Contents0
<1>13. Apart'  BY <1>1, <1>9, <1>10 DEF Apart, Contents0
<1>14. TakenWasGiven' /\ TakenOnce'  BY <1>1, <1>2 DEF Contents0, TakenWasGiven, TakenOnce
<1> QED  BY <1>4, <1>8, <1>12, <1>13, <1>14 DEF Inv, Contents0

\* A step of p on its own deque that takes nothing and adds nothing.
LEMMA StepKeeps ==
  ASSUME Inv, Typed', NEW p \in Threads, \A d \in Threads \ {p} : Untouched(d),
         OwnerOK(p)', ThiefOK(p)', Advances(p), Moves(p), given' = given, taken' = taken
  PROVE  Inv'
<1>1. /\ \A d \in Threads : OwnerOK(d)'
      /\ \A q \in Threads : ThiefOK(q)'
      /\ \A d \in Threads \ {p} : Moves(d)
  BY OwnStep
<1>2. Contents0'  BY <1>1, NothingTaken DEF Inv
<1> QED  BY <1>1, <1>2 DEF Inv

\* The owner reads top: it knows how full its ring is at most.
LEMMA PushTopStep ==
  ASSUME depth = 0, Inv, NEW p \in Threads, PushTop(p)
  PROVE  Inv'
<1>1. Typed /\ OwnerOK(p) /\ Own(p) = seen[p]  BY InOrder DEF Inv
<1>2. top[p] \in Nat /\ Bottom(p) \in Int /\ Active(seen[p]) \in Nat /\ Room(p) \in Nat
  BY <1>1, DequeType
<1>3. loc' = [loc EXCEPT ![p].b = Bottom(p), ![p].t = top[p]] /\ pc[p] = "pushTop"
      /\ pc' = [pc EXCEPT ![p] = IF Bottom(p) - top[p] >= Room(p) - 1 THEN "pushGrow" ELSE "pushPut"]
      /\ UNCHANGED <<top, seen, buffer, given, taken>>
  BY <1>1 DEF PushTop, Goto, At, Full, Bottom, Room
<1>4. /\ loc'[p].b = Bottom(p) /\ loc'[p].t = top[p] /\ loc'[p].val = loc[p].val
      /\ \A d \in Threads \ {p} : Untouched(d)
  BY <1>1, <1>3 DEF Typed, Locals, Untouched
<1>5. Typed'
  <2>1. loc' \in [Threads -> Locals]  BY <1>1, <1>2, <1>3 DEF Typed, Locals
  <2>2. pc' \in [Threads -> Places]  BY <1>1, <1>3 DEF Typed, Places
  <2> QED  BY <1>1, <1>3, <2>1, <2>2 DEF Typed
<1>6. pc'[p] = IF Bottom(p) - top[p] >= Room(p) - 1 THEN "pushGrow" ELSE "pushPut"
  BY <1>1, <1>3 DEF Typed
<1>7. OwnerOK(p)' /\ ThiefOK(p)'
  BY <1>1, <1>2, <1>3, <1>4, <1>6 DEF OwnerOK, ThiefOK, Bottom, Room, Cell, Stealing
<1>8. Advances(p)
  BY <1>2, <1>3, <1>6 DEF Advances, Offered, Popping, Bottom, Cell
<1>9. Moves(p)
  BY <1>3, <1>4, <1>6 DEF Moves, Live, Content, Holding, Popping, Bottom, Cell
<1> QED  BY <1>3, <1>4, <1>5, <1>7, <1>8, <1>9, StepKeeps

\* A store of the rings alone.
LEMMA RingsStored ==
  ASSUME depth = 0, Typed, NEW p \in Threads, NEW r \in Seq(Arrays) \ {<<>>},
         Store(p, [Own(p) EXCEPT !.rings = r])
  PROVE  /\ seen' \in [Threads -> States] /\ buffer' = buffer
         /\ Bottom(p)' = Bottom(p) /\ seen'[p].rings = r
         /\ \A d \in Threads \ {p} : seen'[d] = seen[d]
<1>1. seen' = [seen EXCEPT ![p] = [seen[p] EXCEPT !.rings = r]] /\ buffer' = buffer
  BY InOrder
<1>2. seen[p] = [bottom |-> Bottom(p), rings |-> seen[p].rings] /\ seen[p] \in States
  BY DequeType DEF Typed
<1>3. [seen[p] EXCEPT !.rings = r] = [bottom |-> Bottom(p), rings |-> r]  BY <1>2
<1>4. seen'[p] = [bottom |-> Bottom(p), rings |-> r]  BY <1>1, <1>3 DEF Typed
<1>5. seen' \in [Threads -> States] /\ \A d \in Threads \ {p} : seen'[d] = seen[d]
  BY <1>1, <1>2, <1>4 DEF Typed, States
<1> QED  BY <1>1, <1>4, <1>5 DEF Bottom

\* The ring is replaced: what lies between top and bottom is copied.
LEMMA PushGrowStep ==
  ASSUME depth = 0, Inv, NEW p \in Threads, PushGrow(p)
  PROVE  Inv'
<1>1. Typed /\ OwnerOK(p) /\ Own(p) = seen[p]  BY InOrder DEF Inv
<1> DEFINE a == Current(seen[p])
           n == Active(seen[p])
           g == Grow(a, loc[p].b, loc[p].t)
           r == Append(seen[p].rings, g)
<1>2. /\ pc[p] = "pushGrow" /\ pc' = [pc EXCEPT ![p] = "pushPut"]
      /\ Store(p, [Own(p) EXCEPT !.rings = r])
      /\ UNCHANGED <<top, loc, given, taken>>
  BY <1>1 DEF PushGrow, Goto, At
<1>3. /\ seen[p].rings \in Seq(Arrays) /\ Bottom(p) \in Int /\ top[p] \in Nat
      /\ n \in Nat /\ n > 0 /\ a \in Arrays /\ Room(p) \in Nat /\ Room(p) > 1
  BY <1>1, DequeType
<1>4. loc[p].b = Bottom(p) /\ loc[p].t <= top[p] /\ Bottom(p) - loc[p].t <= Room(p) - 1
      /\ Bottom(p) >= 0 /\ Bottom(p) >= top[p] - 1 /\ loc[p].t \in Nat /\ Room(p) = Size(a)
  BY <1>1, <1>2, LocalsType DEF OwnerOK, Room
<1>5. /\ g \in Arrays /\ Size(g) = 2 * Size(a)
      /\ \A i \in loc[p].t..(Bottom(p) - 1) : Get(g, i) = Get(a, i)
  BY <1>3, <1>4, GrowSlots
<1> HIDE DEF g
<1>6. /\ r \in Seq(Arrays) \ {<<>>} /\ Len(r) = n + 1 /\ r[n + 1] = g
      /\ \A k \in 1..n : r[k] = seen[p].rings[k]
  BY <1>3, <1>5 DEF Active
<1> HIDE DEF r
<1>7. /\ seen' \in [Threads -> States] /\ buffer' = buffer
      /\ Bottom(p)' = Bottom(p) /\ seen'[p].rings = r
      /\ \A d \in Threads \ {p} : seen'[d] = seen[d]
  BY <1>1, <1>2, <1>6, RingsStored
<1>8. pc'[p] = "pushPut" /\ \A d \in Threads \ {p} : Untouched(d)
  BY <1>1, <1>2, <1>7 DEF Typed, Untouched
<1>9. Typed'
  <2>1. pc' \in [Threads -> Places]  BY <1>1, <1>2 DEF Typed, Places
  <2> QED  BY <1>1, <1>2, <1>7, <2>1 DEF Typed
<1>10. Active(seen'[p]) = n + 1 /\ Current(seen'[p]) = g
  BY <1>6, <1>7 DEF Active, Current
<1>11. Room(p)' = 2 * Room(p)  BY <1>4, <1>5, <1>10 DEF Room
<1>12. OwnerOK(p)' /\ ThiefOK(p)'
  <2> HIDE DEF a, n
  <2>1. /\ Room(p) \in Nat /\ Room(p) > 1 /\ Bottom(p) \in Int /\ loc[p].t \in Nat /\ top[p] \in Nat
        /\ Bottom(p) - loc[p].t <= Room(p) - 1 /\ loc[p].t <= top[p]
    BY <1>3, <1>4
  <2>2. Bottom(p) - loc[p].t <= 2 * Room(p) - 2 /\ Bottom(p) - top[p] <= 2 * Room(p) - 1
    BY <2>1
  <2> QED  BY <1>2, <1>3, <1>4, <1>7, <1>8, <1>11, <2>2 DEF OwnerOK, ThiefOK, Stealing
<1>13. \A i \in top[p]..(Bottom(p) - 1) : Get(g, i) = Get(a, i)
  BY <1>3, <1>4, <1>5
<1>14. Advances(p)
  <2>1. Offered(p) => Bottom(p) > top[p]  BY <1>2 DEF Offered, Popping
  <2>2. Offered(p) => Offered(p)' /\ Get(g, top[p]) = Get(a, top[p])
    BY <1>2, <1>3, <1>7, <1>13, <2>1 DEF Offered
  <2>3. \A k \in 1..n : seen'[p].rings[k] = seen[p].rings[k]  BY <1>6, <1>7
  <2> QED  BY <1>2, <1>3, <1>10, <2>2, <2>3 DEF Advances, Cell
<1>15. Moves(p)
  BY <1>2, <1>3, <1>7, <1>8, <1>10, <1>13 DEF Moves, Live, Content, Holding, Popping, Cell
<1> QED  BY <1>2, <1>8, <1>9, <1>12, <1>14, <1>15, StepKeeps

\* The value is put at bottom: in a ring that is not full this touches no live slot.
LEMMA PushPutStep ==
  ASSUME depth = 0, Inv, NEW p \in Threads, PushPut(p)
  PROVE  Inv'
<1>1. Typed /\ OwnerOK(p) /\ Own(p) = seen[p]  BY InOrder DEF Inv
<1> DEFINE a == Current(seen[p])
           n == Active(seen[p])
           c == Put(a, loc[p].b, loc[p].val)
           r == [seen[p].rings EXCEPT ![n] = c]
<1>2. /\ pc[p] = "pushPut" /\ pc' = [pc EXCEPT ![p] = "pushBottom"]
      /\ Store(p, [Own(p) EXCEPT !.rings = r])
      /\ UNCHANGED <<top, loc, given, taken>>
  BY <1>1 DEF PushPut, Goto, At, Current
<1>3. /\ seen[p].rings \in Seq(Arrays) /\ Bottom(p) \in Int /\ top[p] \in Nat
      /\ n \in Nat /\ n > 0 /\ a \in Arrays /\ Room(p) \in Nat /\ Room(p) > 1
  BY <1>1, DequeType
<1>4. loc[p].b = Bottom(p) /\ loc[p].t <= top[p] /\ Bottom(p) - loc[p].t <= Room(p) - 2
      /\ Bottom(p) >= 0 /\ Bottom(p) >= top[p] - 1 /\ loc[p].t \in Nat /\ Room(p) = Size(a)
      /\ loc[p].val \in Words
  BY <1>1, <1>2, LocalsType DEF OwnerOK, Room
<1>5. /\ c \in Arrays /\ Size(c) = Size(a) /\ Get(c, Bottom(p)) = loc[p].val
      /\ \A j \in Int : j # Bottom(p) /\ Bottom(p) - j < Size(a) /\ j - Bottom(p) < Size(a)
           => Get(c, j) = Get(a, j)
  BY <1>3, <1>4, PutSlots
<1> HIDE DEF c
<1>6. /\ r \in Seq(Arrays) \ {<<>>} /\ Len(r) = n /\ r[n] = c
      /\ \A k \in 1..n : k # n => r[k] = seen[p].rings[k]
  <2>1. n = Len(seen[p].rings) /\ n \in 1..Len(seen[p].rings)  BY <1>3 DEF Active
  <2>2. r \in Seq(Arrays) /\ Len(r) = Len(seen[p].rings)  BY <1>3, <1>5, <2>1, ExceptSeq
  <2>3. r[n] = c /\ \A k \in 1..n : k # n => r[k] = seen[p].rings[k]  BY <1>3, <2>1
  <2> QED  BY <1>3, <2>1, <2>2, <2>3
<1> HIDE DEF r
<1>7. /\ seen' \in [Threads -> States] /\ buffer' = buffer
      /\ Bottom(p)' = Bottom(p) /\ seen'[p].rings = r
      /\ \A d \in Threads \ {p} : seen'[d] = seen[d]
  BY <1>1, <1>2, <1>6, RingsStored
<1>8. pc'[p] = "pushBottom" /\ \A d \in Threads \ {p} : Untouched(d)
  BY <1>1, <1>2, <1>7 DEF Typed, Untouched
<1>9. Typed'
  <2>1. pc' \in [Threads -> Places]  BY <1>1, <1>2 DEF Typed, Places
  <2> QED  BY <1>1, <1>2, <1>7, <2>1 DEF Typed
<1>10. Active(seen'[p]) = n /\ Current(seen'[p]) = c
  BY <1>6, <1>7 DEF Active, Current
<1>11. Room(p)' = Room(p)  BY <1>4, <1>5, <1>10 DEF Room
<1>12. OwnerOK(p)' /\ ThiefOK(p)'
  BY <1>1, <1>2, <1>3, <1>4, <1>5, <1>7, <1>8, <1>10, <1>11 DEF OwnerOK, ThiefOK, Stealing, Cell
<1>13. ASSUME NEW i \in top[p]..(Bottom(p) - 1)
       PROVE  Get(c, i) = Get(a, i)
  <2>1. i \in Int /\ i # Bottom(p) /\ Bottom(p) - i < Room(p) /\ i - Bottom(p) < Room(p)
    BY <1>3, <1>4
  <2> HIDE DEF a
  <2> QED  BY <1>4, <1>5, <2>1
<1>14. Advances(p)
  <2>1. Offered(p) => Bottom(p) > top[p]  BY <1>2 DEF Offered, Popping
  <2>2. Offered(p) => Offered(p)' /\ Get(c, top[p]) = Get(a, top[p])
    BY <1>2, <1>3, <1>7, <1>13, <2>1 DEF Offered
  <2>3. \A k \in 1..n : seen'[p].rings[k] = IF k = n THEN c ELSE seen[p].rings[k]
    BY <1>6, <1>7
  <2> QED  BY <1>2, <1>3, <1>10, <2>2, <2>3 DEF Advances, Cell
<1>15. Moves(p)
  BY <1>2, <1>3, <1>7, <1>8, <1>10, <1>13 DEF Moves, Live, Content, Holding, Popping, Cell
<1> QED  BY <1>2, <1>8, <1>9, <1>12, <1>14, <1>15, StepKeeps

\* A store of bottom alone.
LEMMA BottomStored ==
  ASSUME depth = 0, Typed, NEW p \in Threads, NEW b \in Int,
         Store(p, [Own(p) EXCEPT !.bottom = b])
  PROVE  /\ seen' \in [Threads -> States] /\ buffer' = buffer
         /\ Bottom(p)' = b /\ seen'[p].rings = seen[p].rings
         /\ Active(seen'[p]) = Active(seen[p]) /\ Current(seen'[p]) = Current(seen[p])
         /\ Room(p)' = Room(p) /\ \A i \in Int : Cell(p, i)' = Cell(p, i)
         /\ \A d \in Threads \ {p} : seen'[d] = seen[d]
<1>1. seen' = [seen EXCEPT ![p] = [seen[p] EXCEPT !.bottom = b]] /\ buffer' = buffer
  BY InOrder
<1>2. seen[p] = [bottom |-> Bottom(p), rings |-> seen[p].rings] /\ seen[p] \in States
  BY DequeType DEF Typed
<1>3. seen'[p] = [bottom |-> b, rings |-> seen[p].rings]  BY <1>1, <1>2 DEF Typed
<1>4. seen' \in [Threads -> States] /\ \A d \in Threads \ {p} : seen'[d] = seen[d]
  BY <1>1, <1>2, <1>3 DEF Typed, States
<1> QED  BY <1>1, <1>3, <1>4 DEF Bottom, Active, Current, Room, Cell

\* The value in hand is now the last one of the deque.
LEMMA PushBottomStep ==
  ASSUME depth = 0, Inv, NEW p \in Threads, PushBottom(p)
  PROVE  Inv'
<1>1. Typed /\ OwnerOK(p)  BY DEF Inv
<1>2. /\ pc[p] = "pushBottom" /\ pc' = [pc EXCEPT ![p] = "idle"]
      /\ loc' = [loc EXCEPT ![p] = NoLocals]
      /\ UNCHANGED <<top, given, taken>>
  BY DEF PushBottom, Goto, At
<1>3. Bottom(p) \in Int /\ top[p] \in Nat /\ Active(seen[p]) \in Nat /\ Room(p) \in Nat
  BY <1>1, DequeType
<1>4. /\ loc[p].b = Bottom(p) /\ loc[p].t <= top[p] /\ Bottom(p) - loc[p].t <= Room(p) - 2
      /\ Bottom(p) >= 0 /\ Bottom(p) >= top[p] - 1 /\ loc[p].t \in Nat
      /\ loc[p].val = Cell(p, Bottom(p))
  BY <1>1, <1>2, LocalsType DEF OwnerOK
<1>5. /\ seen' \in [Threads -> States] /\ buffer' = buffer
      /\ Bottom(p)' = Bottom(p) + 1 /\ seen'[p].rings = seen[p].rings
      /\ Active(seen'[p]) = Active(seen[p]) /\ Current(seen'[p]) = Current(seen[p])
      /\ Room(p)' = Room(p) /\ \A i \in Int : Cell(p, i)' = Cell(p, i)
      /\ \A d \in Threads \ {p} : seen'[d] = seen[d]
  <2>1. Store(p, [Own(p) EXCEPT !.bottom = Bottom(p) + 1])  BY <1>4 DEF PushBottom
  <2> QED  BY <1>1, <1>3, <2>1, BottomStored
<1>6. pc'[p] = "idle" /\ \A d \in Threads \ {p} : Untouched(d)
  BY <1>1, <1>2, <1>5 DEF Typed, Untouched
<1>7. Typed'
  <2>1. loc' \in [Threads -> Locals]  BY <1>1, <1>2 DEF Typed, Locals, NoLocals, Words
  <2>2. pc' \in [Threads -> Places]  BY <1>1, <1>2 DEF Typed, Places
  <2> QED  BY <1>1, <1>2, <1>5, <2>1, <2>2 DEF Typed
<1>8. OwnerOK(p)' /\ ThiefOK(p)'
  BY <1>2, <1>3, <1>4, <1>5, <1>6 DEF OwnerOK, ThiefOK, Stealing
<1>9. Advances(p)
  BY <1>2, <1>3, <1>5, <1>6 DEF Advances, Offered, Popping, Cell
<1>10. Moves(p)
  BY <1>2, <1>3, <1>4, <1>5, <1>6 DEF Moves, Live, Content, Holding, Popping
<1> QED  BY <1>2, <1>6, <1>7, <1>8, <1>9, <1>10, StepKeeps

-----------------------------------------------------------------------------
(* pop. *)

\* A call of dequeue.
LEMMA DequeueStep ==
  ASSUME Inv, NEW p \in Threads, Dequeue(p)
  PROVE  Inv'
<1>1. Typed /\ OwnerOK(p)  BY DEF Inv
<1>2. /\ pc[p] = "idle" /\ pc' = [pc EXCEPT ![p] = "popBottom"]
      /\ UNCHANGED <<top, seen, buffer, loc, given, taken>>
  BY DEF Dequeue, Goto, At
<1>3. top[p] \in Nat /\ Bottom(p) \in Int /\ Active(seen[p]) \in Nat  BY <1>1, DequeType
<1>4. pc'[p] = "popBottom" /\ \A d \in Threads \ {p} : Untouched(d)
  BY <1>1, <1>2 DEF Typed, Untouched
<1>5. Typed'
  <2>1. pc' \in [Threads -> Places]  BY <1>1, <1>2 DEF Typed, Places
  <2> QED  BY <1>1, <1>2, <2>1 DEF Typed
<1>6. OwnerOK(p)' /\ ThiefOK(p)'
  BY <1>1, <1>2, <1>4 DEF OwnerOK, ThiefOK, Stealing, Bottom, Room, Cell
<1>7. Advances(p)  BY <1>2, <1>3, <1>4 DEF Advances, Offered, Popping, Bottom, Cell
<1>8. Moves(p)  BY <1>2, <1>4 DEF Moves, Live, Content, Holding, Popping, Bottom, Cell
<1> QED  BY <1>2, <1>4, <1>5, <1>6, <1>7, <1>8, StepKeeps

\* The owner lowers bottom.  The value there is still live: a thief may yet take it.
LEMMA PopBottomStep ==
  ASSUME depth = 0, Inv, NEW p \in Threads, PopBottom(p)
  PROVE  Inv'
<1>1. Typed /\ OwnerOK(p)  BY DEF Inv
<1>2. /\ pc[p] = "popBottom" /\ pc' = [pc EXCEPT ![p] = "popTop"]
      /\ UNCHANGED <<top, loc, given, taken>>
  BY DEF PopBottom, Goto, At
<1>3. Bottom(p) \in Int /\ top[p] \in Nat /\ Active(seen[p]) \in Nat /\ Room(p) \in Nat
  BY <1>1, DequeType
<1>4. /\ seen' \in [Threads -> States] /\ buffer' = buffer
      /\ Bottom(p)' = Bottom(p) - 1 /\ seen'[p].rings = seen[p].rings
      /\ Active(seen'[p]) = Active(seen[p]) /\ Current(seen'[p]) = Current(seen[p])
      /\ Room(p)' = Room(p) /\ \A i \in Int : Cell(p, i)' = Cell(p, i)
      /\ \A d \in Threads \ {p} : seen'[d] = seen[d]
  <2>1. Own(p).bottom = Bottom(p)  BY <1>1, InOrder DEF Bottom
  <2>2. Store(p, [Own(p) EXCEPT !.bottom = Bottom(p) - 1])  BY <2>1 DEF PopBottom
  <2> QED  BY <1>1, <1>3, <2>2, BottomStored
<1>5. pc'[p] = "popTop" /\ \A d \in Threads \ {p} : Untouched(d)
  BY <1>1, <1>2, <1>4 DEF Typed, Untouched
<1>6. Typed'
  <2>1. pc' \in [Threads -> Places]  BY <1>1, <1>2 DEF Typed, Places
  <2> QED  BY <1>1, <1>2, <1>4, <2>1 DEF Typed
<1>7. OwnerOK(p)' /\ ThiefOK(p)'
  BY <1>1, <1>2, <1>3, <1>4, <1>5 DEF OwnerOK, ThiefOK, Stealing
<1>8. Advances(p)
  BY <1>2, <1>3, <1>4, <1>5 DEF Advances, Offered, Popping, Cell
<1>9. Moves(p)
  BY <1>2, <1>3, <1>4, <1>5 DEF Moves, Live, Content, Holding, Popping
<1> QED  BY <1>2, <1>5, <1>6, <1>7, <1>8, <1>9, StepKeeps

\* What an answer does, apart from the values.
LEMMA Answered ==
  ASSUME Typed, NEW p \in Threads, NEW v \in Words, Answer(p, v)
  PROVE  /\ taken' = [taken EXCEPT ![v] = @ + 1] /\ taken' \in [Words -> Nat]
         /\ loc' \in [Threads -> Locals] /\ pc' \in [Threads -> Places]
         /\ pc'[p] = "idle"
         /\ \A d \in Threads \ {p} : pc'[d] = pc[d] /\ loc'[d] = loc[d]
<1>1. NoLocals \in Locals  BY DEF NoLocals, Locals, Words
<1>2. taken' = [taken EXCEPT ![v] = @ + 1] /\ loc' = [loc EXCEPT ![p] = NoLocals]
      /\ pc' = [pc EXCEPT ![p] = "idle"]
  BY DEF Answer, Goto
<1>3. taken' \in [Words -> Nat]  BY <1>2 DEF Typed
<1>4. loc' \in [Threads -> Locals]  BY <1>1, <1>2 DEF Typed
<1>5. pc' \in [Threads -> Places] /\ pc'[p] = "idle"  BY <1>2 DEF Typed, Places
<1> QED  BY <1>2, <1>3, <1>4, <1>5 DEF Typed

\* A step of p on its own deque that answers with a value that was live in it.
LEMMA StepTakes ==
  ASSUME Inv, Typed', NEW p \in Threads, \A d \in Threads \ {p} : Untouched(d),
         OwnerOK(p)', ThiefOK(p)', Advances(p), Moves(p), given' = given,
         NEW k \in Live(p), k \notin Live(p)',
         taken' = [taken EXCEPT ![Content(p, k)] = @ + 1]
  PROVE  Inv'
<1>1. /\ \A d \in Threads : OwnerOK(d)'
      /\ \A q \in Threads : ThiefOK(q)'
      /\ \A d \in Threads \ {p} : Moves(d)
  BY OwnStep
<1>2. \A d \in Threads : Moves(d)  BY <1>1
<1>3. Contents0'  BY <1>2, LiveTaken DEF Inv
<1> QED  BY <1>1, <1>3 DEF Inv

\* The owner reads top: below bottom, the value at bottom is its own, because no thief
\* gets past top without raising it; at bottom, it is to be fought for; above, there is none.
LEMMA PopTopStep ==
  ASSUME depth = 0, Inv, NEW p \in Threads, PopTop(p)
  PROVE  Inv'
<1>1. Typed /\ OwnerOK(p) /\ Own(p) = seen[p]  BY InOrder DEF Inv
<1>2. /\ Bottom(p) \in Int /\ top[p] \in Nat /\ Active(seen[p]) \in Nat /\ Room(p) \in Nat
      /\ Cell(p, Bottom(p)) \in Words
  BY <1>1, DequeType
<1>3. pc[p] = "popTop" /\ UNCHANGED <<top, seen, buffer, given>>  BY DEF PopTop, At
<1>4. Bottom(p) \in Live(p) <=> Bottom(p) >= top[p]
  BY <1>2, <1>3 DEF Live, Popping, Holding
<1>5. CASE Bottom(p) < top[p]
  <2>1. /\ loc' = [loc EXCEPT ![p].t = top[p]] /\ pc' = [pc EXCEPT ![p] = "popReset"]
        /\ taken' = taken
    BY <1>1, <1>2, <1>5 DEF PopTop, Goto, Bottom
  <2>2. loc' \in [Threads -> Locals] /\ loc'[p].t = top[p]
    BY <1>1, <1>2, <2>1 DEF Typed, Locals
  <2>3. pc' \in [Threads -> Places]  BY <1>1, <2>1 DEF Typed, Places
  <2>4. pc'[p] = "popReset" /\ \A d \in Threads \ {p} : Untouched(d)
    BY <1>1, <1>3, <2>1 DEF Typed, Untouched
  <2>5. Typed'  BY <1>1, <1>3, <2>1, <2>2, <2>3 DEF Typed
  <2>6. OwnerOK(p)' /\ ThiefOK(p)'
    BY <1>1, <1>2, <1>3, <1>5, <2>2, <2>4 DEF OwnerOK, ThiefOK, Stealing, Bottom, Room, Cell
  <2>7. Advances(p)
    BY <1>2, <1>3, <1>5, <2>4 DEF Advances, Offered, Popping, Bottom, Cell
  <2>8. Moves(p)
    BY <1>2, <1>3, <1>5, <2>4 DEF Moves, Live, Content, Holding, Popping, Bottom, Cell
  <2> QED  BY <1>3, <2>1, <2>4, <2>5, <2>6, <2>7, <2>8, StepKeeps
<1>6. CASE Bottom(p) > top[p]
  <2>1. Answer(p, Cell(p, Bottom(p)))
    BY <1>1, <1>2, <1>6 DEF PopTop, Bottom, Cell
  <2>2. /\ taken' = [taken EXCEPT ![Cell(p, Bottom(p))] = @ + 1] /\ taken' \in [Words -> Nat]
        /\ loc' \in [Threads -> Locals] /\ pc' \in [Threads -> Places]
        /\ pc'[p] = "idle"
        /\ \A d \in Threads \ {p} : pc'[d] = pc[d] /\ loc'[d] = loc[d]
    BY <1>1, <1>2, <2>1, Answered
  <2>3. \A d \in Threads \ {p} : Untouched(d)  BY <1>3, <2>2 DEF Untouched
  <2>4. Typed'  BY <1>1, <1>3, <2>2 DEF Typed
  <2>5. OwnerOK(p)' /\ ThiefOK(p)'
    BY <1>1, <1>2, <1>3, <1>6, <2>2 DEF OwnerOK, ThiefOK, Stealing, Bottom, Room, Cell
  <2>6. Advances(p)
    BY <1>2, <1>3, <1>6, <2>2 DEF Advances, Offered, Popping, Bottom, Cell
  <2>7. Moves(p)
    BY <1>2, <1>3, <1>6, <2>2 DEF Moves, Live, Content, Holding, Popping, Bottom, Cell
  <2>8. Bottom(p) \in Live(p) /\ Bottom(p) \notin Live(p)'
    BY <1>2, <1>3, <1>4, <1>6, <2>2 DEF Live, Holding, Popping, Bottom
  <2>9. Content(p, Bottom(p)) = Cell(p, Bottom(p))  BY <1>3 DEF Content, Holding
  <2>10. taken' = [taken EXCEPT ![Content(p, Bottom(p))] = @ + 1]  BY <2>2, <2>9
  <2> HIDE DEF Bottom
  <2> QED  BY <1>3, <2>3, <2>4, <2>5, <2>6, <2>7, <2>8, <2>10, StepTakes
<1>7. CASE Bottom(p) = top[p]
  <2>1. /\ loc' = [loc EXCEPT ![p].val = Cell(p, Bottom(p)), ![p].t = top[p]]
        /\ pc' = [pc EXCEPT ![p] = "popCas"] /\ taken' = taken
    BY <1>1, <1>2, <1>7 DEF PopTop, Goto, Bottom, Cell
  <2>2. loc'[p].t = top[p] /\ loc'[p].val = Cell(p, Bottom(p))
    BY <1>1, <1>2, <2>1 DEF Typed, Locals
  <2>3. loc' \in [Threads -> Locals]  BY <1>1, <1>2, <2>1 DEF Typed, Locals
  <2>4. pc' \in [Threads -> Places]  BY <1>1, <2>1 DEF Typed, Places
  <2>5. pc'[p] = "popCas" /\ \A d \in Threads \ {p} : Untouched(d)
    BY <1>1, <1>3, <2>1 DEF Typed, Untouched
  <2>6. Typed'  BY <1>1, <1>3, <2>1, <2>3, <2>4 DEF Typed
  <2>7. OwnerOK(p)' /\ ThiefOK(p)'
    BY <1>1, <1>2, <1>3, <1>7, <2>2, <2>5 DEF OwnerOK, ThiefOK, Stealing, Bottom, Room, Cell
  <2>8. Advances(p)
    BY <1>2, <1>3, <1>7, <2>5 DEF Advances, Offered, Popping, Bottom, Cell
  <2>9. Moves(p)
    BY <1>2, <1>3, <1>7, <2>5 DEF Moves, Live, Content, Holding, Popping, Bottom, Cell
  <2> QED  BY <1>3, <2>1, <2>5, <2>6, <2>7, <2>8, <2>9, StepKeeps
<1> QED  BY <1>2, <1>5, <1>6, <1>7

\* A pop of an empty deque brings bottom up to top again.
LEMMA PopResetStep ==
  ASSUME depth = 0, Inv, NEW p \in Threads, PopReset(p)
  PROVE  Inv'
<1>1. Typed /\ OwnerOK(p)  BY DEF Inv
<1>2. /\ pc[p] = "popReset" /\ pc' = [pc EXCEPT ![p] = "choose"]
      /\ UNCHANGED <<top, loc, given, taken>>
  BY DEF PopReset, Goto, At
<1>3. /\ Bottom(p) \in Int /\ top[p] \in Nat /\ Active(seen[p]) \in Nat
      /\ Room(p) \in Nat /\ Room(p) > 1
  BY <1>1, DequeType
<1>4. loc[p].t = top[p] /\ Bottom(p) < top[p]  BY <1>1, <1>2 DEF OwnerOK
<1>5. /\ seen' \in [Threads -> States] /\ buffer' = buffer
      /\ Bottom(p)' = top[p] /\ seen'[p].rings = seen[p].rings
      /\ Active(seen'[p]) = Active(seen[p]) /\ Current(seen'[p]) = Current(seen[p])
      /\ Room(p)' = Room(p) /\ \A i \in Int : Cell(p, i)' = Cell(p, i)
      /\ \A d \in Threads \ {p} : seen'[d] = seen[d]
  <2>1. Store(p, [Own(p) EXCEPT !.bottom = top[p]])  BY <1>4 DEF PopReset
  <2> QED  BY <1>1, <1>3, <2>1, BottomStored
<1>6. pc'[p] = "choose" /\ \A d \in Threads \ {p} : Untouched(d)
  BY <1>1, <1>2, <1>5 DEF Typed, Untouched
<1>7. Typed'
  <2>1. pc' \in [Threads -> Places]  BY <1>1, <1>2 DEF Typed, Places
  <2> QED  BY <1>1, <1>2, <1>5, <2>1 DEF Typed
<1>8. OwnerOK(p)' /\ ThiefOK(p)'
  BY <1>2, <1>3, <1>5, <1>6 DEF OwnerOK, ThiefOK, Stealing
<1>9. Advances(p)
  BY <1>2, <1>3, <1>4, <1>5, <1>6 DEF Advances, Offered, Popping, Cell
<1>10. Moves(p)
  BY <1>2, <1>3, <1>5, <1>6 DEF Moves, Live, Content, Holding, Popping
<1> QED  BY <1>2, <1>6, <1>7, <1>8, <1>9, <1>10, StepKeeps

\* The owner wins its last value, which it then holds; or a thief has won it.
LEMMA PopCasStep ==
  ASSUME Inv, NEW p \in Threads, PopCas(p)
  PROVE  Inv'
<1>1. Typed /\ OwnerOK(p)  BY DEF Inv
<1>2. /\ Bottom(p) \in Int /\ top[p] \in Nat /\ Active(seen[p]) \in Nat /\ Room(p) \in Nat
  BY <1>1, DequeType
<1>3. pc[p] = "popCas" /\ UNCHANGED <<seen, buffer, loc, given, taken>>  BY DEF PopCas, At
<1>4. /\ loc[p].t = Bottom(p) /\ top[p] \in {Bottom(p), Bottom(p) + 1}
      /\ loc[p].val = Cell(p, Bottom(p))
  BY <1>1, <1>3 DEF OwnerOK
<1>5. CASE top[p] = Bottom(p)
  <2>1. top' = [top EXCEPT ![p] = @ + 1] /\ pc' = [pc EXCEPT ![p] = "popLast"]
    BY <1>4, <1>5 DEF PopCas, Goto
  <2>2. top'[p] = top[p] + 1 /\ top' \in [Threads -> Nat]  BY <1>1, <1>2, <2>1 DEF Typed
  <2>3. pc' \in [Threads -> Places]  BY <1>1, <2>1 DEF Typed, Places
  <2>4. pc'[p] = "popLast" /\ \A d \in Threads \ {p} : Untouched(d)
    BY <1>1, <1>3, <2>1 DEF Typed, Untouched
  <2>5. Typed'  BY <1>1, <1>3, <2>2, <2>3 DEF Typed
  <2>6. OwnerOK(p)' /\ ThiefOK(p)'
    BY <1>1, <1>2, <1>3, <1>4, <1>5, <2>2, <2>4
    DEF OwnerOK, ThiefOK, Stealing, Bottom, Room, Cell
  <2>7. Advances(p)  BY <1>2, <1>3, <2>2 DEF Advances
  <2>8. Moves(p)
    BY <1>2, <1>3, <1>4, <1>5, <2>2, <2>4 DEF Moves, Live, Content, Holding, Popping, Bottom, Cell
  <2> QED  BY <1>3, <2>4, <2>5, <2>6, <2>7, <2>8, StepKeeps
<1>6. CASE top[p] = Bottom(p) + 1
  <2>1. top' = top /\ pc' = [pc EXCEPT ![p] = "choose"]
    BY <1>2, <1>4, <1>6 DEF PopCas, Goto
  <2>2. pc' \in [Threads -> Places]  BY <1>1, <2>1 DEF Typed, Places
  <2>3. pc'[p] = "choose" /\ \A d \in Threads \ {p} : Untouched(d)
    BY <1>1, <1>3, <2>1 DEF Typed, Untouched
  <2>4. Typed'  BY <1>1, <1>3, <2>1, <2>2 DEF Typed
  <2>5. OwnerOK(p)' /\ ThiefOK(p)'
    BY <1>1, <1>2, <1>3, <1>6, <2>1, <2>3 DEF OwnerOK, ThiefOK, Stealing, Bottom, Room, Cell
  <2>6. Advances(p)
    BY <1>2, <1>3, <1>6, <2>1, <2>3 DEF Advances, Offered, Popping, Bottom, Cell
  <2>7. Moves(p)
    BY <1>2, <1>3, <1>6, <2>1, <2>3 DEF Moves, Live, Content, Holding, Popping, Bottom, Cell
  <2> QED  BY <1>3, <2>3, <2>4, <2>5, <2>6, <2>7, StepKeeps
<1> QED  BY <1>4, <1>5, <1>6

\* The owner raises bottom to top and answers with the value it holds.
LEMMA PopLastStep ==
  ASSUME depth = 0, Inv, NEW p \in Threads, PopLast(p)
  PROVE  Inv'
<1>1. Typed /\ OwnerOK(p)  BY DEF Inv
<1>2. pc[p] = "popLast" /\ UNCHANGED <<top, given>>  BY DEF PopLast, At
<1>3. /\ Bottom(p) \in Int /\ top[p] \in Nat /\ Active(seen[p]) \in Nat
      /\ Room(p) \in Nat /\ Room(p) > 1
  BY <1>1, DequeType
<1>4. loc[p].t = Bottom(p) /\ top[p] = Bottom(p) + 1 /\ loc[p].val \in Words
  BY <1>1, <1>2, LocalsType DEF OwnerOK
<1>5. /\ taken' = [taken EXCEPT ![loc[p].val] = @ + 1] /\ taken' \in [Words -> Nat]
      /\ loc' \in [Threads -> Locals] /\ pc' \in [Threads -> Places]
      /\ pc'[p] = "idle"
      /\ \A d \in Threads \ {p} : pc'[d] = pc[d] /\ loc'[d] = loc[d]
  <2>1. Answer(p, loc[p].val)  BY DEF PopLast
  <2> QED  BY <1>1, <1>4, <2>1, Answered
<1>6. /\ seen' \in [Threads -> States] /\ buffer' = buffer
      /\ Bottom(p)' = top[p] /\ seen'[p].rings = seen[p].rings
      /\ Active(seen'[p]) = Active(seen[p]) /\ Current(seen'[p]) = Current(seen[p])
      /\ Room(p)' = Room(p) /\ \A i \in Int : Cell(p, i)' = Cell(p, i)
      /\ \A d \in Threads \ {p} : seen'[d] = seen[d]
  <2>1. Store(p, [Own(p) EXCEPT !.bottom = top[p]])  BY <1>4 DEF PopLast
  <2> QED  BY <1>1, <1>3, <2>1, BottomStored
<1>7. \A d \in Threads \ {p} : Untouched(d)  BY <1>2, <1>5, <1>6 DEF Untouched
<1>8. Typed'  BY <1>1, <1>2, <1>5, <1>6 DEF Typed
<1>9. OwnerOK(p)' /\ ThiefOK(p)'
  BY <1>2, <1>3, <1>5, <1>6 DEF OwnerOK, ThiefOK, Stealing
<1>10. Advances(p)
  BY <1>2, <1>3, <1>4, <1>5, <1>6 DEF Advances, Offered, Popping, Cell
<1>11. Moves(p)
  BY <1>2, <1>3, <1>5, <1>6 DEF Moves, Live, Content, Holding, Popping
<1>12. Bottom(p) \in Live(p) /\ Bottom(p) \notin Live(p)'
  BY <1>2, <1>3, <1>4, <1>5, <1>6 DEF Live, Holding, Popping
<1>13. taken' = [taken EXCEPT ![Content(p, Bottom(p))] = @ + 1]
  BY <1>2, <1>5 DEF Content, Holding
<1> HIDE DEF Bottom
<1> QED  BY <1>2, <1>7, <1>8, <1>9, <1>10, <1>11, <1>12, <1>13, StepTakes

-----------------------------------------------------------------------------
(* steal. *)

\* A thread that is not inside push or pop takes a step that changes only its locals.
Outside == Stealing \cup {"idle", "choose"}

\* Such a step leaves its own deque as it is.
LEMMA OutsideKeeps ==
  ASSUME Inv, NEW p \in Threads, pc[p] \in Outside, pc'[p] \in Outside,
         seen' = seen, top'[p] = top[p]
  PROVE  OwnerOK(p)' /\ Advances(p) /\ Moves(p)
<1>1. Typed /\ OwnerOK(p)  BY DEF Inv
<1>2. Bottom(p) \in Int /\ top[p] \in Nat /\ Active(seen[p]) \in Nat  BY <1>1, DequeType
<1>3. ~Holding(p) /\ ~Popping(p) /\ ~Holding(p)' /\ ~Popping(p)'
  BY DEF Outside, Stealing, Holding, Popping
<1>4. OwnerOK(p)'  BY <1>1 DEF OwnerOK, Outside, Stealing, Bottom, Room, Cell
<1>5. Advances(p)  BY <1>2, <1>3 DEF Advances, Offered, Bottom, Cell
<1>6. Moves(p)  BY <1>3 DEF Moves, Live, Content, Bottom, Cell
<1> QED  BY <1>4, <1>5, <1>6

\* What a thief p knows when its locals are l and it is at q: ThiefOK, before it gets there.
Knows(p, l, q) ==
  LET d == l.from
      current == l.t = top[d]
  IN /\ q \in Stealing => d \in Threads \ {p}
     /\ q \in Stealing \ {"stealTop"} => l.t <= top[d]
     /\ q \in Stealing \ {"stealTop", "stealBottom"} => (current /\ l.b > l.t => Offered(d))
     /\ q \in {"stealReserved", "stealGet"} => l.ring \in 1..Active(seen[d])
     /\ q \in {"stealGet", "stealCas"} => l.b > l.t
     /\ q = "stealGet" => (current => Get(seen[d].rings[l.ring], top[d]) = Cell(d, top[d]))
     /\ q = "stealCas" => (current => l.val = Cell(d, top[d]))

\* A thief that loads something keeps the invariant if what it knows then is right.
LEMMA ThiefStep ==
  ASSUME Inv, NEW p \in Threads, pc[p] \in Outside,
         UNCHANGED <<top, seen, buffer, given, taken>>,
         NEW l \in Locals, loc' = [loc EXCEPT ![p] = l],
         NEW q \in Outside, pc' = [pc EXCEPT ![p] = q],
         Knows(p, l, q)
  PROVE  Inv'
<1>1. Typed  BY DEF Inv
<1>2. pc'[p] = q /\ \A d \in Threads \ {p} : Untouched(d)  BY <1>1 DEF Typed, Untouched
<1>3. Typed'
  <2>1. pc' \in [Threads -> Places]  BY <1>1 DEF Typed, Places, Outside, Stealing
  <2>2. loc' \in [Threads -> Locals]  BY <1>1 DEF Typed
  <2> QED  BY <1>1, <2>1, <2>2 DEF Typed
<1>4. OwnerOK(p)' /\ Advances(p) /\ Moves(p)  BY <1>2, OutsideKeeps
<1>5. ThiefOK(p)'
  <2>1. CASE q \notin Stealing  BY <1>2, <2>1 DEF ThiefOK, Stealing
  <2>2. CASE q \in Stealing
    <3> DEFINE d == l.from
    <3>1. d \in Threads \ {p}  BY <2>2 DEF Knows
    <3> HIDE DEF d
    <3>2. /\ loc'[p] = l /\ pc'[d] = pc[d] /\ top'[d] = top[d] /\ seen'[d] = seen[d]
      BY <1>1, <3>1 DEF Typed
    <3>3. loc'[p].from = d  BY <3>2 DEF d
    <3>4. Offered(d) => Offered(d)'  BY <3>2 DEF Offered, Popping, Bottom
    <3> USE DEF d
    <3> QED  BY <1>2, <3>1, <3>2, <3>3, <3>4 DEF ThiefOK, Knows, Cell
  <2> QED  BY <2>1, <2>2
<1> QED  BY <1>2, <1>3, <1>4, <1>5, StepKeeps

\* A dequeue chooses a deque, or has tried often enough.
LEMMA ChooseStep ==
  ASSUME Inv, NEW p \in Threads, Choose(p)
  PROVE  Inv'
<1>1. Typed  BY DEF Inv
<1>2. pc[p] = "choose" /\ UNCHANGED <<top, seen, buffer, given>>  BY DEF Choose, At
<1>3. CASE Answer(p, Empty)
  <2>1. Empty \in Words /\ Empty \notin Values  BY WSDequeAssumption DEF Words
  <2>2. /\ taken' = [taken EXCEPT ![Empty] = @ + 1] /\ taken' \in [Words -> Nat]
        /\ loc' \in [Threads -> Locals] /\ pc' \in [Threads -> Places]
        /\ pc'[p] = "idle"
        /\ \A d \in Threads \ {p} : pc'[d] = pc[d] /\ loc'[d] = loc[d]
    BY <1>1, <1>3, <2>1, Answered
  <2>3. \A d \in Threads \ {p} : Untouched(d)  BY <1>2, <2>2 DEF Untouched
  <2>4. Typed'  BY <1>1, <1>2, <2>2 DEF Typed
  <2>5. OwnerOK(p)' /\ Advances(p) /\ Moves(p)
    <3>1. pc[p] \in Outside /\ pc'[p] \in Outside  BY <1>2, <2>2 DEF Outside
    <3> QED  BY <1>2, <3>1, OutsideKeeps
  <2>6. ThiefOK(p)'  BY <2>2 DEF ThiefOK, Stealing
  <2>7. /\ \A d \in Threads : OwnerOK(d)'
        /\ \A q \in Threads : ThiefOK(q)'
        /\ \A d \in Threads : Moves(d)
    BY <2>3, <2>4, <2>5, <2>6, OwnStep
  <2>8. Contents0'  BY <1>1, <1>2, <2>1, <2>2, <2>7, EmptyAnswered DEF Inv
  <2> QED  BY <2>4, <2>7, <2>8 DEF Inv
<1>4. ASSUME NEW d \in Threads, taken' = taken,
             loc' = [loc EXCEPT ![p].from = d, ![p].tries = @ + 1],
             Goto(p, IF d = p THEN "choose" ELSE "stealTop")
      PROVE  Inv'
  <2> DEFINE l == [loc[p] EXCEPT !.from = d, !.tries = loc[p].tries + 1]
             q == IF d = p THEN "choose" ELSE "stealTop"
  <2>1. l \in Locals /\ l.from = d
    <3>1. loc[p] \in Locals /\ loc[p].tries + 1 \in Nat  BY <1>1, LocalsType
    <3> QED  BY <3>1 DEF Locals
  <2>2. loc' = [loc EXCEPT ![p] = l] /\ pc' = [pc EXCEPT ![p] = q]  BY <1>4 DEF Goto
  <2>3. q \in Outside /\ pc[p] \in Outside  BY <1>2 DEF Outside, Stealing
  <2>4. Knows(p, l, q)  BY <2>1 DEF Knows, Stealing
  <2> HIDE DEF l, q
  <2> QED  BY <1>2, <1>4, <2>1, <2>2, <2>3, <2>4, ThiefStep
<1> QED  BY <1>3, <1>4 DEF Choose

\* It reads top.
LEMMA StealTopStep ==
  ASSUME Inv, NEW p \in Threads, StealTop(p)
  PROVE  Inv'
<1> DEFINE d == loc[p].from
           l == [loc[p] EXCEPT !.t = top[d]]
<1>1. Typed /\ ThiefOK(p)  BY DEF Inv
<1>2. /\ pc[p] = "stealTop" /\ pc' = [pc EXCEPT ![p] = "stealBottom"]
      /\ loc' = [loc EXCEPT ![p] = l] /\ UNCHANGED <<top, seen, buffer, given, taken>>
  BY DEF StealTop, Goto, At
<1>3. d \in Threads \ {p} /\ top[d] \in Nat  BY <1>1, <1>2 DEF ThiefOK, Stealing, Typed
<1>4. l \in Locals /\ l.from = d /\ l.t = top[d]  BY <1>1, <1>3, LocalsType DEF Locals
<1>5. Knows(p, l, "stealBottom")
  <2> HIDE DEF l
  <2> QED  BY <1>3, <1>4 DEF Knows, Stealing
<1>6. pc[p] \in Outside /\ "stealBottom" \in Outside  BY <1>2 DEF Outside, Stealing
<1> HIDE DEF l
<1> QED  BY <1>2, <1>4, <1>5, <1>6, ThiefStep

\* It reads bottom: a value above the t it has read is offered, if t is still top.
LEMMA StealBottomStep ==
  ASSUME Inv, NEW p \in Threads, StealBottom(p)
  PROVE  Inv'
<1> DEFINE d == loc[p].from
           l == [loc[p] EXCEPT !.b = seen[d].bottom]
<1>1. Typed /\ ThiefOK(p)  BY DEF Inv
<1>2. /\ pc[p] = "stealBottom" /\ pc' = [pc EXCEPT ![p] = "stealRing"]
      /\ loc' = [loc EXCEPT ![p] = l] /\ UNCHANGED <<top, seen, buffer, given, taken>>
  BY DEF StealBottom, Goto, At
<1>3. d \in Threads \ {p} /\ loc[p].t <= top[d]  BY <1>1, <1>2 DEF ThiefOK, Stealing
<1>4. Bottom(d) \in Int  BY <1>1, <1>3, DequeType
<1>5. l \in Locals /\ l.from = d /\ l.t = loc[p].t /\ l.b = Bottom(d)
  BY <1>1, <1>4, LocalsType DEF Locals, Bottom
<1>6. top[d] \in Nat /\ loc[p].t \in Nat  BY <1>1, <1>3, DequeType, LocalsType
<1> HIDE DEF l
<1>7. Knows(p, l, "stealRing")
  BY <1>3, <1>4, <1>5, <1>6 DEF Knows, Stealing, Offered
<1>8. pc[p] \in Outside /\ "stealRing" \in Outside  BY <1>2 DEF Outside, Stealing
<1> QED  BY <1>2, <1>5, <1>7, <1>8, ThiefStep

\* It reads the active ring.
LEMMA StealRingStep ==
  ASSUME Inv, NEW p \in Threads, StealRing(p)
  PROVE  Inv'
<1> DEFINE d == loc[p].from
           l == [loc[p] EXCEPT !.ring = Active(seen[d])]
<1>1. Typed /\ ThiefOK(p)  BY DEF Inv
<1>2. /\ pc[p] = "stealRing" /\ pc' = [pc EXCEPT ![p] = "stealReserved"]
      /\ loc' = [loc EXCEPT ![p] = l] /\ UNCHANGED <<top, seen, buffer, given, taken>>
  BY DEF StealRing, Goto, At
<1>3. /\ d \in Threads \ {p} /\ loc[p].t <= top[d]
      /\ loc[p].t = top[d] /\ loc[p].b > loc[p].t => Offered(d)
  BY <1>1, <1>2 DEF ThiefOK, Stealing
<1>4. Active(seen[d]) \in Nat /\ Active(seen[d]) > 0  BY <1>1, <1>3, DequeType
<1>5. /\ l \in Locals /\ l.from = d /\ l.t = loc[p].t /\ l.b = loc[p].b
      /\ l.ring \in 1..Active(seen[d])
  BY <1>1, <1>4, LocalsType DEF Locals
<1> HIDE DEF l
<1>6. Knows(p, l, "stealReserved")  BY <1>3, <1>5 DEF Knows, Stealing
<1>7. pc[p] \in Outside /\ "stealReserved" \in Outside  BY <1>2 DEF Outside, Stealing
<1> QED  BY <1>2, <1>5, <1>6, <1>7, ThiefStep

\* It has reserved the ring and looks again: the ring it goes on with is the active one.
LEMMA StealReservedStep ==
  ASSUME Inv, NEW p \in Threads, StealReserved(p)
  PROVE  Inv'
<1> DEFINE d == loc[p].from
           l == loc[p]
           q == IF l.ring # Active(seen[d]) THEN "stealTop"
                ELSE IF Stealable(p) THEN "stealGet" ELSE "choose"
<1>1. Typed /\ ThiefOK(p)  BY DEF Inv
<1>2. /\ pc[p] = "stealReserved" /\ pc' = [pc EXCEPT ![p] = q]
      /\ UNCHANGED <<top, seen, buffer, loc, given, taken>>
  BY DEF StealReserved, Goto, At
<1>3. /\ d \in Threads \ {p} /\ l.t <= top[d] /\ l.ring \in 1..Active(seen[d])
      /\ l.t = top[d] /\ l.b > l.t => Offered(d)
  BY <1>1, <1>2 DEF ThiefOK, Stealing
<1>4. l \in Locals /\ l.b \in Int /\ l.t \in Nat  BY <1>1, LocalsType
<1>5. loc' = [loc EXCEPT ![p] = l]  BY <1>1, <1>2 DEF Typed
<1>6. q = "stealGet" =>
        l.b > l.t /\ Get(seen[d].rings[l.ring], top[d]) = Cell(d, top[d])
  BY <1>4 DEF Stealable, Cell, Current
<1>7. q \in {"stealTop", "stealGet", "choose"}  OBVIOUS
<1>8. l.from = d  OBVIOUS
<1> HIDE DEF l, q
<1>9. Knows(p, l, q)  BY <1>3, <1>6, <1>7, <1>8 DEF Knows, Stealing
<1>10. pc[p] \in Outside /\ q \in Outside  BY <1>2, <1>7 DEF Outside, Stealing
<1> QED  BY <1>2, <1>4, <1>5, <1>9, <1>10, ThiefStep

\* It reads the value: the one at top, if t is still top.
LEMMA StealGetStep ==
  ASSUME Inv, NEW p \in Threads, StealGet(p)
  PROVE  Inv'
<1> DEFINE d == loc[p].from
           v == Get(seen[d].rings[loc[p].ring], loc[p].t)
           l == [loc[p] EXCEPT !.val = v]
<1>1. Typed /\ ThiefOK(p)  BY DEF Inv
<1>2. /\ pc[p] = "stealGet" /\ pc' = [pc EXCEPT ![p] = "stealCas"]
      /\ loc' = [loc EXCEPT ![p] = l] /\ UNCHANGED <<top, seen, buffer, given, taken>>
  BY DEF StealGet, Goto, At
<1>3. /\ d \in Threads \ {p} /\ loc[p].t <= top[d] /\ loc[p].ring \in 1..Active(seen[d])
      /\ loc[p].b > loc[p].t /\ (loc[p].t = top[d] => Offered(d) /\ v = Cell(d, top[d]))
  BY <1>1, <1>2 DEF ThiefOK, Stealing
<1>4. v \in Words
  <2>1. loc[p].t \in Int  BY <1>1, LocalsType
  <2>2. seen[d].rings[loc[p].ring] \in Arrays  BY <1>1, <1>3, DequeType
  <2> QED  BY <2>1, <2>2, GetType
<1> HIDE DEF v
<1>5. l \in Locals /\ l.from = d /\ l.t = loc[p].t /\ l.b = loc[p].b /\ l.val = v
  BY <1>1, <1>4, LocalsType DEF Locals
<1> HIDE DEF l
<1>6. Knows(p, l, "stealCas")  BY <1>3, <1>5 DEF Knows, Stealing
<1>7. pc[p] \in Outside /\ "stealCas" \in Outside  BY <1>2 DEF Outside, Stealing
<1> QED  BY <1>2, <1>5, <1>6, <1>7, ThiefStep

\* A thief that is about to win holds the value at top, which is live.
LEMMA Winning ==
  ASSUME Inv, NEW p \in Threads, pc[p] = "stealCas", top[loc[p].from] = loc[p].t
  PROVE  LET d == loc[p].from
         IN  /\ d \in Threads \ {p} /\ Offered(d) /\ top[d] \in Live(d)
             /\ loc[p].val = Cell(d, top[d]) /\ Content(d, top[d]) = Cell(d, top[d])
<1> DEFINE d == loc[p].from
<1>1. Typed /\ ThiefOK(p)  BY DEF Inv
<1>2. d \in Threads \ {p} /\ Offered(d) /\ loc[p].val = Cell(d, top[d])
  BY <1>1 DEF ThiefOK, Stealing
<1>3. top[d] \in Nat /\ Bottom(d) \in Int  BY <1>1, <1>2, DequeType
<1>4. top[d] \in Live(d)  BY <1>2, <1>3 DEF Offered, Live
<1>5. Content(d, top[d]) = Cell(d, top[d])
  BY <1>2, <1>3 DEF Offered, Content, Holding, Popping
<1> QED  BY <1>2, <1>4, <1>5

\* It wins the value at top, or has come too late.
LEMMA StealCasStep ==
  ASSUME Inv, NEW p \in Threads, StealCas(p)
  PROVE  Inv'
<1>1. Typed  BY DEF Inv
<1>2. pc[p] = "stealCas" /\ UNCHANGED <<seen, buffer, given>>  BY DEF StealCas, At
<1>0. PICK d \in Threads \ {p} : d = loc[p].from
  BY <1>2 DEF Inv, ThiefOK, Stealing
<1>3. CASE top[d] # loc[p].t
  <2>1. pc' = [pc EXCEPT ![p] = "choose"] /\ UNCHANGED <<top, loc, taken>>
    BY <1>0, <1>3 DEF StealCas, Goto
  <2>2. loc[p] \in Locals /\ loc' = [loc EXCEPT ![p] = loc[p]]
    BY <1>1, <2>1, LocalsType DEF Typed
  <2>3. Knows(p, loc[p], "choose")  BY DEF Knows, Stealing
  <2>4. pc[p] \in Outside /\ "choose" \in Outside  BY <1>2 DEF Outside, Stealing
  <2> QED  BY <1>2, <2>1, <2>2, <2>3, <2>4, ThiefStep
<1>4. CASE top[d] = loc[p].t
  <2>1. /\ d \in Threads \ {p} /\ Offered(d) /\ top[d] \in Live(d)
        /\ loc[p].val = Cell(d, top[d]) /\ Content(d, top[d]) = Cell(d, top[d])
    BY <1>0, <1>2, <1>4, Winning
  <2>2. top' = [top EXCEPT ![d] = @ + 1] /\ Answer(p, loc[p].val)
    BY <1>0, <1>4 DEF StealCas
  <2>3. /\ taken' = [taken EXCEPT ![loc[p].val] = @ + 1] /\ taken' \in [Words -> Nat]
        /\ loc' \in [Threads -> Locals] /\ pc' \in [Threads -> Places]
        /\ pc'[p] = "idle"
        /\ \A e \in Threads \ {p} : pc'[e] = pc[e] /\ loc'[e] = loc[e]
    BY <1>1, <2>2, LocalsType, Answered
  <2>4. /\ top[d] \in Nat /\ Bottom(d) \in Int /\ Room(d) \in Nat /\ Active(seen[d]) \in Nat
        /\ OwnerOK(d)
    BY <1>1, <2>1, DequeType DEF Inv
  <2>5. /\ top' \in [Threads -> Nat] /\ top'[d] = top[d] + 1
        /\ \A e \in Threads \ {d} : top'[e] = top[e]
    BY <1>1, <2>1, <2>2, <2>4 DEF Typed
  <2>6. Typed'  BY <1>1, <1>2, <2>3, <2>5 DEF Typed
  <2>0. /\ pc'[d] = pc[d] /\ loc'[d] = loc[d] /\ Bottom(d)' = Bottom(d) /\ Room(d)' = Room(d)
        /\ \A i : Cell(d, i)' = Cell(d, i)
    BY <1>2, <2>1, <2>3 DEF Bottom, Room, Cell
  <2>7. OwnerOK(d)'
    <3>1. loc[d].t \in Nat /\ loc[d].b \in Int  BY <1>1, LocalsType
    <3>2. pc[d] \notin {"popReset", "popLast"}  BY <2>1, <2>4 DEF OwnerOK, Offered, Popping
    <3>3. pc[d] = "popCas" => top[d] = Bottom(d)  BY <2>1, <2>4 DEF OwnerOK, Offered
    <3> QED  BY <2>0, <2>1, <2>4, <2>5, <3>1, <3>2, <3>3 DEF OwnerOK, Offered, Popping
  <2>8. Advances(d)  BY <1>2, <2>4, <2>5 DEF Advances
  <2>9. Moves(d)
    BY <2>0, <2>1, <2>4, <2>5 DEF Moves, Live, Content, Holding, Popping
  <2>10. OwnerOK(p)' /\ Advances(p) /\ Moves(p)
    <3>1. pc[p] \in Outside /\ pc'[p] \in Outside /\ top'[p] = top[p]
      BY <1>2, <2>1, <2>3, <2>5 DEF Outside, Stealing
    <3> QED  BY <1>2, <3>1, OutsideKeeps
  <2>11. \A e \in Threads \ {p, d} : Untouched(e)
    BY <1>2, <2>3, <2>5 DEF Untouched
  <2>12. \A e \in Threads \ {p, d} : OwnerOK(e)' /\ Advances(e) /\ Moves(e)
    BY <1>1, <2>11, UntouchedStays DEF Inv
  <2>13. ASSUME NEW e \in Threads PROVE OwnerOK(e)' /\ Advances(e) /\ Moves(e)
    <3>1. CASE e = d  BY <2>7, <2>8, <2>9, <3>1
    <3>2. CASE e = p  BY <2>10, <3>2
    <3>3. CASE e \in Threads \ {p, d}  BY <2>12, <3>3
    <3> QED  BY <3>1, <3>2, <3>3
  <2>14. \A e \in Threads \ {p} : ThiefOK(e)'
    BY <1>1, <2>3, <2>6, <2>13, ThiefStays DEF Inv
  <2>15. ThiefOK(p)'  BY <2>3 DEF ThiefOK, Stealing
  <2>16. top[d] \notin Live(d)'
    BY <2>0, <2>1, <2>4, <2>5 DEF Live, Holding, Popping, Offered
  <2>17. taken' = [taken EXCEPT ![Content(d, top[d])] = @ + 1]  BY <2>1, <2>3
  <2>18. Contents0'  BY <1>1, <1>2, <2>1, <2>13, <2>16, <2>17, LiveTaken DEF Inv
  <2> QED  BY <2>6, <2>13, <2>14, <2>15, <2>18 DEF Inv
<1> QED  BY <1>3, <1>4

-----------------------------------------------------------------------------
(* The theorems. *)

\* In the initial states all deques are empty.
LEMMA InitInv ==
  ASSUME Init
  PROVE  Inv
<1>1. RingSize \in Nat \ {0, 1} /\ Tries \in Nat  BY WSDequeAssumption
<1>2. Ring(RingSize) \in Arrays
  <2>1. Ring(RingSize) \in [0..(RingSize - 1) -> Words]  BY DEF Ring, Words
  <2> QED  BY <1>1, <2>1 DEF Arrays
<1>3. <<Ring(RingSize)>> \in Seq(Arrays) \ {<<>>}  BY <1>2
<1>4. NewDeque \in States  BY <1>3 DEF NewDeque, States
<1>5. NoLocals \in Locals  BY DEF NoLocals, Locals, Words
<1>6. Typed  BY <1>4, <1>5 DEF Typed, Init, Places
<1>7. ASSUME NEW d \in Threads
      PROVE  /\ Bottom(d) = 0 /\ top[d] = 0 /\ pc[d] = "idle" /\ Room(d) \in Nat /\ Room(d) > 1
  BY <1>6, DequeType DEF Init, NewDeque, Bottom
<1>8. \A d \in Threads : OwnerOK(d) /\ ThiefOK(d)  BY <1>7 DEF OwnerOK, ThiefOK, Stealing
<1>9. \A d \in Threads : Live(d) = {}  BY <1>7 DEF Live, Holding, Popping
<1>10. Fresh /\ Apart  BY <1>9 DEF Fresh, Apart
<1>11. TakenWasGiven /\ TakenOnce  BY DEF Init, TakenWasGiven, TakenOnce, Words
<1> QED  BY <1>6, <1>8, <1>10, <1>11 DEF Inv, Contents0

\* Every step keeps the invariant.
LEMMA NextInv ==
  ASSUME depth = 0, Inv, [Next]_vars
  PROVE  Inv'
<1>1. CASE UNCHANGED vars
  BY <1>1 DEF vars, Inv, Typed, OwnerOK, ThiefOK, Contents0, Fresh, Apart, TakenWasGiven, TakenOnce,
     Live, Content, Offered, Holding, Popping, Bottom, Room, Cell
<1>2. ASSUME NEW p \in Threads, Step(p)
      PROVE  Inv'
  <2>1. CASE PushTop(p) \/ PushGrow(p) \/ PushPut(p) \/ PushBottom(p)
    BY <2>1, PushTopStep, PushGrowStep, PushPutStep, PushBottomStep
  <2>2. CASE PopBottom(p) \/ PopTop(p) \/ PopReset(p) \/ PopCas(p) \/ PopLast(p)
    BY <2>2, PopBottomStep, PopTopStep, PopResetStep, PopCasStep, PopLastStep
  <2>3. CASE Choose(p) \/ StealTop(p) \/ StealBottom(p) \/ StealRing(p)
    BY <2>3, ChooseStep, StealTopStep, StealBottomStep, StealRingStep
  <2>4. CASE StealReserved(p) \/ StealGet(p) \/ StealCas(p)
    BY <2>4, StealReservedStep, StealGetStep, StealCasStep
  <2> QED  BY <1>2, <2>1, <2>2, <2>3, <2>4 DEF Step
<1>3. ASSUME NEW p \in Threads, Drain(p)
      PROVE  Inv'
  BY <1>3 DEF Drain, Inv, Typed
<1>4. ASSUME NEW p \in Threads, Dequeue(p)
      PROVE  Inv'
  BY <1>4, DequeueStep
<1>5. ASSUME NEW p \in Threads, NEW v \in Values, Enqueue(p, v)
      PROVE  Inv'
  BY <1>5, EnqueueStep
<1> QED  BY <1>1, <1>2, <1>3, <1>4, <1>5 DEF Next

\* The machine is chosen at the start.
LEMMA SameMachine == [Next]_vars => depth' = depth
BY DEF Next, vars

\* The invariant holds where every store is visible at once, for any number of threads,
\* of values and of tries and for any size of the first ring.
LEMMA Invariance ==
  Spec => []IInv
<1>1. Init => IInv  BY InitInv DEF IInv
<1>2. IInv /\ [Next]_vars => IInv'
  <2> SUFFICES ASSUME IInv, [Next]_vars, depth' = 0 PROVE Inv'
    BY DEF IInv
  <2>1. depth = 0  BY SameMachine
  <2> QED  BY <2>1, NextInv DEF IInv
<1> QED  BY <1>1, <1>2, PTL DEF Spec

\* No value is dequeued twice, by its owner without a CAS and by a thief, or by two thieves,
\* where every store is visible at once.
THEOREM TakenAtMostOnce ==
  Spec => []TakenOnceInOrder
<1>1. IInv => TakenOnceInOrder  BY DEF IInv, Inv, Contents0, TakenOnceInOrder
<1> QED  BY <1>1, Invariance, PTL

\* However many of its last values an idle owner has lost to thieves, its bottom is at most
\* one below top, where every store is visible at once.
THEOREM GapStaysOne ==
  Spec => []BottomGapInOrder
<1>1. ASSUME IInv PROVE BottomGapInOrder
  <2> SUFFICES ASSUME depth = 0, NEW d \in Threads, At(d, "idle")
               PROVE  Own(d).bottom >= top[d] - 1
    BY DEF BottomGapInOrder, BottomGap
  <2>1. Typed /\ OwnerOK(d)  BY <1>1 DEF IInv, Inv
  <2>2. Own(d) = seen[d]  BY <2>1, InOrder
  <2> QED  BY <2>1, <2>2 DEF OwnerOK, At, Bottom
<1> QED  BY <1>1, Invariance, PTL

\* Only its CAS takes a thief out of the deque.
LEMMA OnlyStealCas ==
  ASSUME Typed, NEW p \in Threads, pc[p] = "stealCas", pc'[p] = "idle", Next
  PROVE  StealCas(p)
<1>1. PICK q \in Threads : Step(q) \/ Drain(q) \/ Dequeue(q) \/ \E v \in Values : Enqueue(q, v)
  BY DEF Next
<1>2. CASE Drain(q)  BY <1>2 DEF Drain
<1>3. CASE Dequeue(q) \/ \E v \in Values : Enqueue(q, v)
  BY <1>3 DEF Dequeue, Enqueue, At, Goto, Typed
<1>4. CASE PushTop(q) \/ PushGrow(q) \/ PushPut(q) \/ PushBottom(q)
  BY <1>4 DEF PushTop, PushGrow, PushPut, PushBottom, At, Goto, Typed
<1>5. CASE PopBottom(q) \/ PopTop(q) \/ PopReset(q) \/ PopCas(q) \/ PopLast(q)
  BY <1>5 DEF PopBottom, PopTop, PopReset, PopCas, PopLast, Answer, At, Goto, Typed
<1>6. CASE Choose(q)
  BY <1>6 DEF Choose, Answer, At, Goto, Typed
<1>7. CASE StealTop(q) \/ StealBottom(q) \/ StealRing(q) \/ StealReserved(q) \/ StealGet(q)
  BY <1>7 DEF StealTop, StealBottom, StealRing, StealReserved, StealGet, At, Goto, Typed
<1>8. CASE StealCas(q)
  BY <1>8 DEF StealCas, Answer, At, Goto, Typed
<1> QED  BY <1>1, <1>2, <1>3, <1>4, <1>5, <1>6, <1>7, <1>8 DEF Step

\* A thief that wins the CAS of top has read the value that is at top, where every store is
\* visible at once.
THEOREM StealsAreCurrent ==
  Spec => StealIsCurrentInOrder
<1>1. ASSUME IInv, [Next]_vars PROVE [depth = 0 => StealsCurrent]_vars
  <2> SUFFICES ASSUME Next, depth = 0, NEW p \in Threads, pc[p] = "stealCas", pc'[p] = "idle"
               PROVE  loc[p].val = Get(Current(Own(loc[p].from)), loc[p].t)
    BY <1>1 DEF StealsCurrent
  <2>1. Inv /\ Typed  BY <1>1 DEF IInv, Inv
  <2>2. StealCas(p)  BY <2>1, OnlyStealCas
  <2>3. top[loc[p].from] = loc[p].t
    BY <2>1, <2>2 DEF StealCas, Goto, Typed
  <2>4. PICK d \in Threads : d = loc[p].from /\ loc[p].val = Cell(d, top[d])
    BY <2>1, <2>3, Winning
  <2>5. Own(d) = seen[d]  BY <2>1, InOrder
  <2> QED  BY <2>3, <2>4, <2>5 DEF Cell
<1> QED  BY <1>1, Invariance, PTL DEF Spec, StealIsCurrentInOrder

-----------------------------------------------------------------------------
(* With store buffers: what a dequeue returns was enqueued, for every depth.  The      *)
(* stages of a deque are the states of it that are, or will be, in memory, oldest      *)
(* first; every invariant below speaks of all of them.  Values may be taken twice, so  *)
(* the argument is about slots only: those from top up to the highest bottom there has *)
(* been, the mark, are written in the newest ring, and a slot once written stays so.   *)

Stages(d) == <<seen[d]>> \o buffer[d]
Newest(S) == S[Len(S)]

Written(a, t, b) == \A i \in t..(b - 1) : Get(a, i) # Garbage

\* The rings of q are still there in r, and what was written in them.
Follows(q, r) ==
  /\ Active(q) <= Active(r)
  /\ \A k \in 1..Active(q) : \A i \in Int :
       Get(q.rings[k], i) # Garbage => Get(r.rings[k], i) # Garbage

OnlyGiven(q, g) == \A k \in 1..Active(q) : \A i \in Int : Get(q.rings[k], i) \in g \cup {Garbage}

\* The stages S of a deque with top t, mark h and the values g enqueued so far.
Sound(S, t, h, g) ==
  /\ t <= h /\ h <= t + Size(Current(Newest(S))) - 1
  /\ Written(Current(Newest(S)), t, h)
  /\ \A j \in 1..Len(S) : -1 <= S[j].bottom /\ S[j].bottom <= h /\ OnlyGiven(S[j], g)
  /\ \A j \in 1..Len(S) : \A m \in j..Len(S) :
       Written(Current(S[m]), t, S[j].bottom) /\ Follows(S[j], S[m])

\* What the owner knows that is at the given place with locals l, of its newest state o.
OwnerKnows(o, t, h, g, l, place) ==
  /\ o.bottom >= -1
  /\ place \notin {"popTop", "popReset"} => o.bottom >= 0
  /\ place \in {"pushTop", "pushGrow", "pushPut", "popCas", "popLast"} => l.val \in g
  /\ place \in {"pushGrow", "pushPut", "pushBottom"} => l.b = o.bottom /\ l.t <= t
  /\ place = "pushGrow" => h <= l.b /\ l.b - l.t <= Size(Current(o)) - 1
  /\ place \in {"pushPut", "pushBottom"} => l.b - t < Size(Current(o)) - 1
  /\ place = "pushBottom" => Get(Current(o), l.b) # Garbage
  /\ place = "popTop" => o.bottom < h
  /\ place \in {"popCas", "popLast"} => l.t < h
  /\ place = "popReset" => l.t <= t

\* What a thief knows at a place of steal.
ThiefKnows(S, t, h, g, l, place) ==
  /\ place # "stealTop" => l.t <= t
  /\ place \in {"stealRing", "stealReserved"} =>
       l.b <= h /\ \A j \in 1..Len(S) : Written(Current(S[j]), t, l.b)
  /\ place = "stealGet" => \A j \in 1..Len(S) :
       /\ l.ring \in 1..Active(S[j])
       /\ t = l.t => Get(S[j].rings[l.ring], l.t) # Garbage
  /\ place = "stealCas" => (t = l.t => l.val \in g)
  /\ place \in {"stealGet", "stealCas"} => l.t < h

Kept(d, h) ==
  /\ Sound(Stages(d), top[d], h, given)
  /\ OwnerKnows(Newest(Stages(d)), top[d], h, given, loc[d], pc[d])
  /\ \A p \in Threads : pc[p] \in Stealing /\ loc[p].from = d =>
       ThiefKnows(Stages(d), top[d], h, given, loc[p], pc[p])

Shaped ==
  /\ depth \in Nat
  /\ top \in [Threads -> Nat]
  /\ seen \in [Threads -> States]
  /\ buffer \in [Threads -> Seq(States)]
  /\ depth = 0 => \A d \in Threads : buffer[d] = <<>>
  /\ pc \in [Threads -> Places]
  /\ loc \in [Threads -> Locals]
  /\ \A p \in Threads : loc[p].tries <= Tries /\ (pc[p] \in Stealing => loc[p].from \in Threads)
  /\ given \in SUBSET Values
  /\ taken \in [Words -> Nat]

BInv ==
  /\ Shaped
  /\ \A d \in Threads : \E h \in Int : Kept(d, h)
  /\ TakenWasGiven

-----------------------------------------------------------------------------
(* Stages: what is known of them stays known. *)

\* The parts of a state of a deque.
LEMMA StateType ==
  ASSUME NEW q \in States
  PROVE  /\ q = [bottom |-> q.bottom, rings |-> q.rings]
         /\ q.bottom \in Int /\ q.rings \in Seq(Arrays)
         /\ Active(q) \in Nat /\ Active(q) > 0
         /\ \A k \in 1..Active(q) : q.rings[k] \in Arrays
         /\ Current(q) \in Arrays /\ Size(Current(q)) \in Nat /\ Size(Current(q)) > 1
         /\ \A i \in Int : Get(Current(q), i) \in Words
<1>1. q.rings \in Seq(Arrays) /\ q.rings # <<>>  BY DEF States
<1>2. Active(q) \in Nat /\ Active(q) > 0  BY <1>1 DEF Active
<1>3. \A k \in 1..Active(q) : q.rings[k] \in Arrays  BY <1>1 DEF Active
<1>4. Current(q) \in Arrays  BY <1>2, <1>3 DEF Current
<1> QED  BY <1>1, <1>2, <1>3, <1>4, RingType, GetType DEF States

\* The newest ring of a sequence of stages.
LEMMA NewestType ==
  ASSUME NEW S \in Seq(States), Len(S) > 0
  PROVE  /\ Newest(S) \in States /\ Len(S) \in Nat
         /\ \A j \in 1..Len(S) : S[j] \in States
BY DEF Newest

\* A state follows itself, and what follows a follower follows.
LEMMA FollowsOn ==
  ASSUME NEW q \in States, NEW r \in States, NEW s \in States
  PROVE  Follows(q, q) /\ (Follows(q, r) /\ Follows(r, s) => Follows(q, s))
<1>1. Active(q) \in Nat /\ Active(r) \in Nat /\ Active(s) \in Nat  BY StateType
<1> QED  BY <1>1 DEF Follows

\* top moves up to the mark, more values are enqueued.
LEMMA SoundUp ==
  ASSUME NEW S \in Seq(States), Len(S) > 0, NEW t \in Nat, NEW u \in Nat, NEW h \in Int,
         NEW g, NEW k, g \subseteq k, Sound(S, t, h, g), t <= u, u <= h
  PROVE  Sound(S, u, h, k)
<1>1. \A j \in 1..Len(S) : S[j].bottom \in Int  BY NewestType, StateType
<1>2. Size(Current(Newest(S))) \in Nat  BY NewestType, StateType
<1>3. \A a : \A b \in Int : Written(a, t, b) => Written(a, u, b)  BY DEF Written
<1>4. \A j \in 1..Len(S) : OnlyGiven(S[j], k)  BY DEF Sound, OnlyGiven
<1> QED  BY <1>1, <1>2, <1>3, <1>4 DEF Sound

\* The same of what the owner knows.
LEMMA OwnerUp ==
  ASSUME NEW o \in States, NEW t \in Nat, NEW u \in Nat, NEW h \in Int, NEW g, NEW k, g \subseteq k,
         t <= u, NEW l \in Locals, NEW place \in Places,
         OwnerKnows(o, t, h, g, l, place)
  PROVE  OwnerKnows(o, u, h, k, l, place)
<1>1. Size(Current(o)) \in Nat /\ l.b \in Int /\ l.t \in Nat  BY StateType DEF Locals
<1> QED  BY <1>1 DEF OwnerKnows

\* And of what a thief knows: it may rely on the value at its t for as long as top is t.
LEMMA ThiefUp ==
  ASSUME NEW S \in Seq(States), NEW t \in Nat, NEW u \in Nat, NEW h \in Int, NEW g, NEW k, g \subseteq k,
         t <= u, NEW l \in Locals, NEW place \in Places,
         ThiefKnows(S, t, h, g, l, place)
  PROVE  ThiefKnows(S, u, h, k, l, place)
<1>1. l.b \in Int /\ l.t \in Nat  BY DEF Locals
<1>2. \A a : \A b \in Int : Written(a, t, b) => Written(a, u, b)  BY DEF Written
<1>3. u = l.t /\ place # "stealTop" => t = l.t  BY <1>1 DEF ThiefKnows
<1> QED  BY <1>1, <1>2, <1>3 DEF ThiefKnows

\* The oldest stage is over.
LEMMA TailKnown ==
  ASSUME NEW S \in Seq(States), Len(S) > 1, NEW t \in Nat, NEW h \in Int, NEW g
  PROVE  /\ Tail(S) \in Seq(States) /\ Len(Tail(S)) = Len(S) - 1 /\ Newest(Tail(S)) = Newest(S)
         /\ Sound(S, t, h, g) => Sound(Tail(S), t, h, g)
         /\ \A l, place : ThiefKnows(S, t, h, g, l, place) => ThiefKnows(Tail(S), t, h, g, l, place)
<1>1. Len(S) \in Nat /\ S # <<>>  OBVIOUS
<1>2. /\ Tail(S) \in Seq(States) /\ Len(Tail(S)) = Len(S) - 1
      /\ \A j \in 1..Len(Tail(S)) : Tail(S)[j] = S[j + 1]
  BY <1>1, HeadTailProperties
<1>3. Newest(Tail(S)) = Newest(S)  BY <1>1, <1>2 DEF Newest
<1>4. \A j \in 1..Len(Tail(S)) : j + 1 \in 1..Len(S) /\ \A m \in j..Len(Tail(S)) : m + 1 \in (j + 1)..Len(S)
  BY <1>1, <1>2
<1>5. Sound(S, t, h, g) => Sound(Tail(S), t, h, g)
  <2> SUFFICES ASSUME Sound(S, t, h, g) PROVE Sound(Tail(S), t, h, g)
    OBVIOUS
  <2>1. \A j \in 1..Len(Tail(S)) : -1 <= Tail(S)[j].bottom /\ Tail(S)[j].bottom <= h /\ OnlyGiven(Tail(S)[j], g)
    BY <1>2, <1>4 DEF Sound
  <2>2. ASSUME NEW j \in 1..Len(Tail(S)), NEW m \in j..Len(Tail(S))
        PROVE  Written(Current(Tail(S)[m]), t, Tail(S)[j].bottom) /\ Follows(Tail(S)[j], Tail(S)[m])
    <3>1. m \in 1..Len(Tail(S))  BY <1>1, <1>2
    <3>2. Tail(S)[m] = S[m + 1] /\ Tail(S)[j] = S[j + 1]  BY <1>2, <3>1
    <3> QED  BY <1>4, <3>2 DEF Sound
  <2> QED  BY <1>3, <2>1, <2>2 DEF Sound
<1>6. ASSUME NEW l, NEW place, ThiefKnows(S, t, h, g, l, place)
      PROVE  ThiefKnows(Tail(S), t, h, g, l, place)
  BY <1>2, <1>4, <1>6 DEF ThiefKnows
<1> QED  BY <1>2, <1>3, <1>5, <1>6

\* The owner stores a state q that follows its newest one, with the mark at m.
Extends(S, t, h, m, g, q) ==
  /\ -1 <= q.bottom /\ h <= m /\ q.bottom <= m /\ m <= t + Size(Current(q)) - 1
  /\ Written(Current(q), t, m)
  /\ Follows(Newest(S), q)
  /\ OnlyGiven(q, g)

\* The mark rises to m, and whatever a thief knows of the old stages it knows of the new one.
LEMMA AppendKnown ==
  ASSUME NEW S \in Seq(States), Len(S) > 0, NEW t \in Nat, NEW h \in Int, NEW m \in Int, NEW g,
         NEW q \in States, Sound(S, t, h, g), Extends(S, t, h, m, g, q)
  PROVE  /\ Append(S, q) \in Seq(States) /\ Len(Append(S, q)) = Len(S) + 1
         /\ Newest(Append(S, q)) = q
         /\ Sound(Append(S, q), t, m, g)
         /\ \A l \in Locals : \A place :
              ThiefKnows(S, t, h, g, l, place) => ThiefKnows(Append(S, q), t, m, g, l, place)
<1> DEFINE n == Len(S)
           A == Append(S, q)
<1>1. n \in Nat /\ n > 0 /\ Newest(S) = S[n] /\ \A j \in 1..n : S[j] \in States /\ S[j].bottom \in Int
  BY NewestType, StateType DEF Newest
<1>2. A \in Seq(States) /\ Len(A) = n + 1 /\ A[n + 1] = q /\ \A j \in 1..n : A[j] = S[j]
  BY AppendProperties
<1>3. Newest(A) = q  BY <1>2 DEF Newest
<1>4. q.bottom \in Int /\ Active(q) \in Nat  BY StateType
<1>5. \A b \in Int : b <= m => Written(Current(q), t, b)  BY DEF Extends, Written
<1>6. \A j \in 1..n : -1 <= S[j].bottom /\ S[j].bottom <= h /\ OnlyGiven(S[j], g) /\ Follows(S[j], S[n])
  BY <1>1 DEF Sound
<1>7. \A j \in 1..n : Follows(S[j], q)
  BY <1>1, <1>6, FollowsOn DEF Extends
<1> HIDE DEF n, A
<1>8. Sound(A, t, m, g)
  <2>1. t <= m /\ m <= t + Size(Current(q)) - 1 /\ Written(Current(q), t, m)
    BY DEF Sound, Extends
  <2>2. \A j \in 1..Len(A) : -1 <= A[j].bottom /\ A[j].bottom <= m /\ OnlyGiven(A[j], g)
    <3> SUFFICES ASSUME NEW j \in 1..Len(A) PROVE -1 <= A[j].bottom /\ A[j].bottom <= m /\ OnlyGiven(A[j], g)
      OBVIOUS
    <3>1. CASE j = n + 1  BY <1>2, <3>1 DEF Extends
    <3>2. CASE j # n + 1
      <4>1. j \in 1..n  BY <1>1, <1>2, <3>2
      <4> QED  BY <1>1, <1>2, <1>6, <4>1 DEF Extends
    <3> QED  BY <3>1, <3>2
  <2>3. ASSUME NEW j \in 1..Len(A), NEW k \in j..Len(A)
        PROVE  Written(Current(A[k]), t, A[j].bottom) /\ Follows(A[j], A[k])
    <3>1. CASE k = n + 1
      <4>1. CASE j = n + 1  BY <1>2, <1>4, <1>5, <3>1, <4>1, FollowsOn DEF Extends
      <4>2. CASE j # n + 1
        <5>1. j \in 1..n  BY <1>1, <1>2, <4>2
        <5>2. S[j].bottom <= m  BY <1>1, <1>6, <5>1 DEF Extends
        <5> QED  BY <1>1, <1>2, <1>5, <1>7, <3>1, <5>1, <5>2
      <4> QED  BY <4>1, <4>2
    <3>2. CASE k # n + 1
      <4>1. j \in 1..n /\ k \in j..n /\ k \in 1..n  BY <1>1, <1>2, <3>2
      <4>2. Written(Current(S[k]), t, S[j].bottom) /\ Follows(S[j], S[k])
        BY <4>1 DEF Sound, n
      <4> QED  BY <1>2, <4>1, <4>2
    <3> QED  BY <3>1, <3>2
  <2> QED  BY <1>3, <2>1, <2>2, <2>3 DEF Sound
<1>9. ASSUME NEW l \in Locals, NEW place, ThiefKnows(S, t, h, g, l, place)
      PROVE  ThiefKnows(A, t, m, g, l, place)
  <2>0. l.b \in Int /\ l.t \in Nat /\ l.ring \in Nat  BY DEF Locals
  <2>1. ASSUME place \in {"stealRing", "stealReserved"}, NEW j \in 1..Len(A)
        PROVE  Written(Current(A[j]), t, l.b)
    <3>1. CASE j = n + 1  BY <1>2, <1>5, <1>9, <2>0, <2>1, <3>1 DEF ThiefKnows, Extends
    <3>2. CASE j # n + 1
      <4>1. j \in 1..n  BY <1>1, <1>2, <3>2
      <4> QED  BY <1>2, <1>9, <2>1, <4>1 DEF ThiefKnows, n
    <3> QED  BY <3>1, <3>2
  <2>2. ASSUME place = "stealGet", NEW j \in 1..Len(A)
        PROVE  l.ring \in 1..Active(A[j]) /\ (t = l.t => Get(A[j].rings[l.ring], l.t) # Garbage)
    <3>1. \A i \in 1..n : l.ring \in 1..Active(S[i]) /\ (t = l.t => Get(S[i].rings[l.ring], l.t) # Garbage)
      BY <1>9, <2>2 DEF ThiefKnows, n
    <3>2. CASE j = n + 1
      <4>0. n \in 1..n  BY <1>1
      <4>1. n \in 1..n /\ S[n] \in States /\ Active(S[n]) \in Nat  BY <1>1, <4>0, StateType
      <4>2. Follows(S[n], q)  BY <1>7, <4>1
      <4>3. l.ring \in 1..Active(S[n]) /\ l.ring \in 1..Active(q)
        BY <1>4, <2>0, <3>1, <4>1, <4>2 DEF Follows
      <4>4. t = l.t => Get(q.rings[l.ring], l.t) # Garbage
        BY <2>0, <3>1, <4>1, <4>2, <4>3 DEF Follows
      <4> QED  BY <1>2, <3>2, <4>3, <4>4
    <3>3. CASE j # n + 1
      <4>1. j \in 1..n  BY <1>1, <1>2, <3>3
      <4> QED  BY <1>2, <3>1, <4>1
    <3> QED  BY <3>2, <3>3
  <2>3. l.b <= h => l.b <= m  BY <2>0 DEF Extends
  <2>4. l.t < h => l.t < m  BY <2>0 DEF Extends
  <2> QED  BY <1>9, <2>1, <2>2, <2>3, <2>4 DEF ThiefKnows
<1> QED  BY <1>2, <1>3, <1>8, <1>9 DEF A, n

-----------------------------------------------------------------------------
(* Stages: what the steps make of them. *)

\* The newest stage is what the owner reads.
LEMMA StagesType ==
  ASSUME Shaped, NEW d \in Threads
  PROVE  /\ Stages(d) \in Seq(States) /\ Len(Stages(d)) = Len(buffer[d]) + 1
         /\ Len(Stages(d)) \in Nat /\ Len(Stages(d)) > 0
         /\ Newest(Stages(d)) = Own(d) /\ Own(d) \in States
         /\ Stages(d)[1] = seen[d] /\ seen[d] \in States
         /\ top[d] \in Nat /\ loc[d] \in Locals /\ pc[d] \in Places
<1>1. seen[d] \in States /\ buffer[d] \in Seq(States) /\ Len(buffer[d]) \in Nat  BY DEF Shaped
<1>2. <<seen[d]>> \in Seq(States) /\ Len(<<seen[d]>>) = 1 /\ <<seen[d]>>[1] = seen[d]  BY <1>1
<1>3. /\ Stages(d) \in Seq(States) /\ Len(Stages(d)) = Len(buffer[d]) + 1
      /\ Stages(d)[1] = seen[d] /\ \A i \in 1..Len(buffer[d]) : Stages(d)[i + 1] = buffer[d][i]
  BY <1>1, <1>2 DEF Stages
<1>4. Newest(Stages(d)) = Own(d)
  <2>1. CASE buffer[d] = <<>>  BY <1>3, <2>1 DEF Newest, Own
  <2>2. CASE buffer[d] # <<>>
    <3>1. Len(buffer[d]) \in 1..Len(buffer[d])  BY <1>1, <2>2
    <3> QED  BY <1>1, <1>3, <2>2, <3>1 DEF Newest, Own, Last
  <2> QED  BY <2>1, <2>2
<1>5. Own(d) \in States  BY <1>1, <1>3, <1>4, NewestType
<1> QED  BY <1>1, <1>3, <1>4, <1>5 DEF Shaped

\* A store appends a stage; where stores are not delayed it also ends the one before.
LEMMA StoreStages ==
  ASSUME Shaped, NEW p \in Threads, NEW q \in States, Store(p, q)
  PROVE  /\ seen' \in [Threads -> States] /\ buffer' \in [Threads -> Seq(States)]
         /\ depth = 0 => \A d \in Threads : buffer'[d] = <<>>
         /\ \A d \in Threads \ {p} : Stages(d)' = Stages(d)
         /\ \/ Stages(p)' = Append(Stages(p), q)
            \/ Len(Stages(p)) = 1 /\ Stages(p)' = Tail(Append(Stages(p), q))
<1>1. /\ seen \in [Threads -> States] /\ buffer \in [Threads -> Seq(States)]
      /\ depth = 0 => \A d \in Threads : buffer[d] = <<>>
  BY DEF Shaped
<1>2. CASE depth = 0
  <2>1. seen' = [seen EXCEPT ![p] = q] /\ buffer' = buffer  BY <1>2 DEF Store
  <2>2. seen' \in [Threads -> States] /\ seen'[p] = q /\ \A d \in Threads \ {p} : seen'[d] = seen[d]
    BY <1>1, <2>1
  <2>0. <<seen[p]>> \in Seq(States) /\ <<q>> \in Seq(States) /\ Len(<<seen[p]>>) = 1 /\ Len(<<q>>) = 1
    BY <1>1
  <2>3. Stages(p) = <<seen[p]>> /\ Stages(p)' = <<q>>
    BY <1>1, <1>2, <2>0, <2>1, <2>2, ConcatEmptySeq DEF Stages
  <2>4. Tail(Append(<<seen[p]>>, q)) = <<q>>
    <3> DEFINE A == Append(<<seen[p]>>, q)
    <3>1. A \in Seq(States) /\ A # <<>> /\ Len(A) = 2 /\ A[2] = q
      BY <2>0, AppendProperties
    <3> HIDE DEF A
    <3>2. Tail(A) \in Seq(States) /\ Len(Tail(A)) = 1 /\ Tail(A)[1] = q
      BY <3>1, HeadTailProperties
    <3>3. \A i \in 1..1 : Tail(A)[i] = <<q>>[i]  BY <3>2
    <3> HIDE DEF A
    <3>4. Tail(A) = <<q>>  BY <2>0, <3>2, <3>3, SeqEqual
    <3> QED  BY <3>4 DEF A
  <2>5. \A d \in Threads \ {p} : Stages(d)' = Stages(d)  BY <2>1, <2>2 DEF Stages
  <2> QED  BY <1>1, <2>1, <2>2, <2>3, <2>4, <2>5
<1>3. CASE depth # 0
  <2>1. buffer' = [buffer EXCEPT ![p] = Append(@, q)] /\ seen' = seen  BY <1>3 DEF Store
  <2>2. buffer[p] \in Seq(States)  BY <1>1
  <2>3. Append(buffer[p], q) \in Seq(States)  BY <2>2
  <2>4. /\ buffer' \in [Threads -> Seq(States)] /\ buffer'[p] = Append(buffer[p], q)
        /\ \A d \in Threads \ {p} : buffer'[d] = buffer[d]
    BY <1>1, <2>1, <2>3
  <2>5. <<seen[p]>> \o Append(buffer[p], q) = Append(<<seen[p]>> \o buffer[p], q)
    <3>1. <<seen[p]>> \in Seq(States) /\ <<q>> \in Seq(States)  BY <1>1
    <3>2. <<seen[p]>> \o buffer[p] \in Seq(States)  BY <2>2, <3>1
    <3>3. /\ Append(buffer[p], q) = buffer[p] \o <<q>>
          /\ Append(<<seen[p]>> \o buffer[p], q) = (<<seen[p]>> \o buffer[p]) \o <<q>>
      BY <2>2, <3>2, AppendIsConcat
    <3> QED  BY <2>2, <3>1, <3>3, ConcatAssociative
  <2>6. Stages(p)' = Append(Stages(p), q)  BY <2>1, <2>4, <2>5 DEF Stages
  <2>7. \A d \in Threads \ {p} : Stages(d)' = Stages(d)  BY <2>1, <2>4 DEF Stages
  <2> QED  BY <1>1, <1>3, <2>1, <2>4, <2>6, <2>7
<1> QED  BY <1>2, <1>3

\* A thread that leaves the others as they are.
Alone(p) == \A q \in Threads \ {p} : pc'[q] = pc[q] /\ loc'[q] = loc[q]

\* What the others know of a deque is left; what the thread p that steps knows is to be seen.
LEMMA KeptBy ==
  ASSUME Shaped, NEW p \in Threads, NEW d \in Threads, NEW h \in Int, NEW m \in Int,
         Kept(d, h), Alone(p),
         Sound(Stages(d)', top'[d], m, given'),
         OwnerKnows(Newest(Stages(d)'), top'[d], m, given', loc'[d], pc'[d]),
         \A l \in Locals : \A place \in Places :
           ThiefKnows(Stages(d), top[d], h, given, l, place)
             => ThiefKnows(Stages(d)', top'[d], m, given', l, place),
         pc'[p] \in Stealing /\ loc'[p].from = d =>
           ThiefKnows(Stages(d)', top'[d], m, given', loc'[p], pc'[p])
  PROVE  Kept(d, m)'
<1>1. ASSUME NEW q \in Threads, pc'[q] \in Stealing, loc'[q].from = d
      PROVE  ThiefKnows(Stages(d)', top'[d], m, given', loc'[q], pc'[q])
  <2>1. CASE q = p  BY <1>1, <2>1
  <2>2. CASE q # p
    <3>1. pc'[q] = pc[q] /\ loc'[q] = loc[q]  BY <2>2 DEF Alone
    <3>2. ThiefKnows(Stages(d), top[d], h, given, loc[q], pc[q])  BY <1>1, <3>1 DEF Kept
    <3>3. loc[q] \in Locals /\ pc[q] \in Places  BY StagesType
    <3> QED  BY <3>1, <3>2, <3>3
  <2> QED  BY <2>1, <2>2
<1> QED  BY <1>1 DEF Kept

\* A step of p that stores nothing: top moves up to the mark at most, and p knows what it
\* needs at its next place.
LEMMA LooksOn ==
  ASSUME BInv, NEW p \in Threads, Alone(p), Shaped', TakenWasGiven',
         seen' = seen, buffer' = buffer, given \subseteq given',
         \A d \in Threads : top[d] <= top'[d] /\ \A h \in Int : Kept(d, h) => top'[d] <= h,
         \A h \in Int : Kept(p, h) =>
           OwnerKnows(Own(p), top'[p], h, given', loc'[p], pc'[p]),
         pc'[p] \in Stealing =>
           \A h \in Int : Kept(loc'[p].from, h) =>
             ThiefKnows(Stages(loc'[p].from), top'[loc'[p].from], h, given', loc'[p], pc'[p])
  PROVE  BInv'
<1>0. Shaped  BY DEF BInv
<1>1. ASSUME NEW d \in Threads PROVE \E h \in Int : Kept(d, h)'
  <2>1. PICK h \in Int : Kept(d, h)  BY DEF BInv
  <2> DEFINE S == Stages(d)
  <2>2. /\ S \in Seq(States) /\ Len(S) > 0 /\ Newest(S) = Own(d) /\ Own(d) \in States
        /\ top[d] \in Nat /\ loc[d] \in Locals /\ pc[d] \in Places
    BY <1>0, StagesType
  <2>3. top'[d] \in Nat  BY DEF Shaped
  <2>4. top[d] <= top'[d] /\ top'[d] <= h  BY <2>1
  <2>5. Stages(d)' = S  BY DEF Stages
  <2> HIDE DEF S
  <2>6. Sound(S, top[d], h, given) /\ OwnerKnows(Newest(S), top[d], h, given, loc[d], pc[d])
    BY <2>1 DEF Kept, S
  <2>7. Sound(S, top'[d], h, given')  BY <2>2, <2>3, <2>4, <2>6, SoundUp
  <2>8. OwnerKnows(Newest(S), top'[d], h, given', loc'[d], pc'[d])
    <3>1. CASE d = p  BY <2>1, <2>2, <3>1
    <3>2. CASE d # p
      <4>1. pc'[d] = pc[d] /\ loc'[d] = loc[d]  BY <3>2 DEF Alone
      <4>2. OwnerKnows(Newest(S), top'[d], h, given', loc[d], pc[d])
        BY <2>2, <2>3, <2>4, <2>6, OwnerUp
      <4> QED  BY <4>1, <4>2
    <3> QED  BY <3>1, <3>2
  <2>9. \A l \in Locals : \A place \in Places :
          ThiefKnows(S, top[d], h, given, l, place) => ThiefKnows(S, top'[d], h, given', l, place)
    BY <2>2, <2>3, <2>4, ThiefUp
  <2>10. pc'[p] \in Stealing /\ loc'[p].from = d =>
           ThiefKnows(S, top'[d], h, given', loc'[p], pc'[p])
    BY <2>1 DEF S
  <2>11. Kept(d, h)'
    <3>1. S = Stages(d)  BY DEF S
    <3> HIDE DEF S
    <3> QED  BY <1>0, <2>1, <2>5, <2>7, <2>8, <2>9, <2>10, <3>1, KeptBy
  <2> QED  BY <2>11
<1> QED  BY <1>1 DEF BInv

\* A step of p that stores the state q of its deque, which follows the newest one.
LEMMA StoresOn ==
  ASSUME BInv, NEW p \in Threads, NEW q \in States, Store(p, q), Alone(p), TakenWasGiven',
         top' = top, given' = given, depth' = depth,
         pc' \in [Threads -> Places], loc' \in [Threads -> Locals],
         loc'[p].tries <= Tries, pc'[p] \notin Stealing, taken' \in [Words -> Nat],
         \A h \in Int : Kept(p, h) => \E m \in Int :
           /\ Extends(Stages(p), top[p], h, m, given, q)
           /\ OwnerKnows(q, top[p], m, given, loc'[p], pc'[p])
  PROVE  BInv'
<1>0. Shaped  BY DEF BInv
<1>1. /\ seen' \in [Threads -> States] /\ buffer' \in [Threads -> Seq(States)]
      /\ depth = 0 => \A d \in Threads : buffer'[d] = <<>>
      /\ \A d \in Threads \ {p} : Stages(d)' = Stages(d)
      /\ \/ Stages(p)' = Append(Stages(p), q)
         \/ Len(Stages(p)) = 1 /\ Stages(p)' = Tail(Append(Stages(p), q))
  BY <1>0, StoreStages
<1>2. Shaped'  BY <1>0, <1>1 DEF Shaped, Alone
<1>3. ASSUME NEW d \in Threads \ {p} PROVE \E h \in Int : Kept(d, h)'
  <2>1. PICK h \in Int : Kept(d, h)  BY DEF BInv
  <2>2. pc'[d] = pc[d] /\ loc'[d] = loc[d] /\ Stages(d)' = Stages(d)  BY <1>1 DEF Alone
  <2>3. Kept(d, h)'  BY <1>0, <2>1, <2>2, KeptBy DEF Kept
  <2> QED  BY <2>3
<1>4. \E h \in Int : Kept(p, h)'
  <2>1. PICK h \in Int : Kept(p, h)  BY DEF BInv
  <2>2. PICK m \in Int : /\ Extends(Stages(p), top[p], h, m, given, q)
                         /\ OwnerKnows(q, top[p], m, given, loc'[p], pc'[p])
    BY <2>1
  <2> DEFINE S == Stages(p)
             A == Append(S, q)
  <2>3. S \in Seq(States) /\ Len(S) > 0 /\ top[p] \in Nat  BY <1>0, StagesType
  <2>4. Sound(S, top[p], h, given)  BY <2>1 DEF Kept
  <2>5. Extends(S, top[p], h, m, given, q)  BY <2>2
  <2> HIDE DEF S
  <2>6. /\ A \in Seq(States) /\ Len(A) = Len(S) + 1 /\ Newest(A) = q /\ Sound(A, top[p], m, given)
        /\ \A l \in Locals : \A place :
             ThiefKnows(S, top[p], h, given, l, place) => ThiefKnows(A, top[p], m, given, l, place)
    BY <2>3, <2>4, <2>5, AppendKnown
  <2> HIDE DEF A
  <2>7. Len(A) > 1  BY <2>3, <2>6
  <2>8. /\ Newest(Tail(A)) = q /\ Sound(Tail(A), top[p], m, given)
        /\ \A l, place : ThiefKnows(A, top[p], m, given, l, place) => ThiefKnows(Tail(A), top[p], m, given, l, place)
    BY <2>3, <2>6, <2>7, TailKnown
  <2>9. Stages(p)' = A \/ Stages(p)' = Tail(A)  BY <1>1 DEF S, A
  <2>10. /\ Newest(Stages(p)') = q /\ Sound(Stages(p)', top[p], m, given)
         /\ \A l \in Locals : \A place \in Places :
              ThiefKnows(Stages(p), top[p], h, given, l, place) => ThiefKnows(Stages(p)', top[p], m, given, l, place)
    BY <2>6, <2>8, <2>9 DEF S
  <2>11. Kept(p, m)'  BY <1>0, <2>1, <2>2, <2>10, KeptBy
  <2> QED  BY <2>11
<1> QED  BY <1>2, <1>3, <1>4 DEF BInv

-----------------------------------------------------------------------------
(* Steps that store nothing. *)

\* p goes to place with locals l.
Goes(p, l, place) == pc' = [pc EXCEPT ![p] = place] /\ loc' = [loc EXCEPT ![p] = l]

\* The types are kept.
LEMMA ShapedOn ==
  ASSUME Shaped, NEW p \in Threads, NEW l \in Locals, NEW place \in Places, Goes(p, l, place),
         l.tries <= Tries, place \in Stealing => l.from \in Threads,
         top' \in [Threads -> Nat], UNCHANGED <<seen, buffer, depth>>,
         given' \in SUBSET Values, taken' \in [Words -> Nat]
  PROVE  Shaped' /\ Alone(p) /\ pc'[p] = place /\ loc'[p] = l
<1>1. pc' \in [Threads -> Places] /\ loc' \in [Threads -> Locals] /\ pc'[p] = place /\ loc'[p] = l
  BY DEF Shaped, Goes
<1>2. \A q \in Threads \ {p} : pc'[q] = pc[q] /\ loc'[q] = loc[q]  BY DEF Shaped, Goes
<1>3. \A q \in Threads : loc'[q].tries <= Tries /\ (pc'[q] \in Stealing => loc'[q].from \in Threads)
  BY <1>1, <1>2 DEF Shaped
<1> QED  BY <1>1, <1>2, <1>3 DEF Shaped, Alone

\* A step of p that changes nothing but its place and its locals.
LEMMA MovesOn ==
  ASSUME BInv, NEW p \in Threads, NEW l \in Locals, NEW place \in Places, Goes(p, l, place),
         l.tries <= Tries, UNCHANGED <<top, seen, buffer, given, depth>>,
         taken' \in [Words -> Nat], TakenWasGiven',
         \A h \in Int : Kept(p, h) => OwnerKnows(Own(p), top[p], h, given, l, place),
         place \in Stealing =>
           /\ l.from \in Threads
           /\ \A h \in Int : Kept(l.from, h) =>
                ThiefKnows(Stages(l.from), top[l.from], h, given, l, place)
  PROVE  BInv'
<1>1. Shaped  BY DEF BInv
<1>2. Shaped' /\ Alone(p) /\ pc'[p] = place /\ loc'[p] = l  BY <1>1, ShapedOn DEF Shaped
<1>3. \A d \in Threads : top[d] <= top'[d]  BY <1>1 DEF Shaped
<1>4. \A d \in Threads : \A h \in Int : Kept(d, h) => top[d] <= h  BY DEF Kept, Sound
<1> QED  BY <1>2, <1>3, <1>4, LooksOn

\* Nothing is returned.
LEMMA TakenStays ==
  ASSUME BInv, given \subseteq given', taken' = taken
  PROVE  TakenWasGiven' /\ taken' \in [Words -> Nat]
BY DEF BInv, Shaped, TakenWasGiven

\* A dequeue returns what was enqueued, or that there is nothing.
LEMMA AnswerGiven ==
  ASSUME BInv, NEW p \in Threads, NEW v \in Words, v \in given \cup {Empty}, Answer(p, v),
         given' = given
  PROVE  /\ TakenWasGiven' /\ taken' \in [Words -> Nat] /\ Goes(p, NoLocals, "idle")
         /\ NoLocals \in Locals /\ NoLocals.tries <= Tries /\ "idle" \in Places
<1>1. taken' = [taken EXCEPT ![v] = @ + 1] /\ taken \in [Words -> Nat]
  BY DEF BInv, Shaped, Answer
<1>2. \A w \in Words : w # v => taken'[w] = taken[w]  BY <1>1
<1>3. TakenWasGiven'  BY <1>2 DEF BInv, TakenWasGiven
<1>4. NoLocals \in Locals /\ NoLocals.tries <= Tries
  BY WSDequeAssumption DEF NoLocals, Locals, Words
<1> QED  BY <1>1, <1>3, <1>4 DEF Goes, Answer, Goto, Places

\* A written slot of the current ring holds a value that was enqueued.
LEMMA SlotGiven ==
  ASSUME NEW q \in States, NEW g, OnlyGiven(q, g), NEW k \in 1..Active(q), NEW i \in Int,
         Get(q.rings[k], i) # Garbage
  PROVE  Get(q.rings[k], i) \in g
BY DEF OnlyGiven

\* What p knows where it is.
LEMMA KnownHere ==
  ASSUME BInv, NEW p \in Threads, NEW h \in Int, Kept(p, h)
  PROVE  /\ OwnerKnows(Own(p), top[p], h, given, loc[p], pc[p])
         /\ Own(p) \in States /\ OnlyGiven(Own(p), given)
         /\ Own(p).bottom <= h /\ top[p] <= h /\ h <= top[p] + Size(Current(Own(p))) - 1
         /\ Written(Current(Own(p)), top[p], h)
         /\ top[p] \in Nat /\ Own(p).bottom \in Int
         /\ Active(Own(p)) \in 1..Active(Own(p)) /\ Active(Own(p)) \in Nat
<1>1. /\ Len(Stages(p)) \in Nat /\ Len(Stages(p)) > 0 /\ Newest(Stages(p)) = Own(p)
      /\ Own(p) \in States /\ top[p] \in Nat
  BY StagesType DEF BInv
<1>2. Len(Stages(p)) \in 1..Len(Stages(p))  BY <1>1
<1>3. Own(p).bottom <= h /\ OnlyGiven(Own(p), given)  BY <1>1, <1>2 DEF Kept, Sound, Newest
<1>4. Own(p).bottom \in Int /\ Active(Own(p)) \in Nat /\ Active(Own(p)) > 0  BY <1>1, StateType
<1>5. Active(Own(p)) \in 1..Active(Own(p))  BY <1>4
<1> QED  BY <1>1, <1>3, <1>4, <1>5 DEF Kept, Sound

\* A call of enqueue: its value counts as enqueued from now on.
LEMMA EnqueueGiven ==
  ASSUME BInv, NEW p \in Threads, NEW v \in Values, Enqueue(p, v), depth' = depth
  PROVE  BInv'
<1> DEFINE l == [loc[p] EXCEPT !.val = v]
<1>1. Shaped /\ loc[p] \in Locals  BY StagesType DEF BInv
<1>2. /\ pc[p] = "idle" /\ pc' = [pc EXCEPT ![p] = "pushTop"] /\ loc' = [loc EXCEPT ![p] = l]
      /\ given' = given \cup {v} /\ UNCHANGED <<top, seen, buffer, taken>>
  BY DEF Enqueue, Goto, At
<1>3. l \in Locals /\ l.val = v /\ l.tries = loc[p].tries /\ "pushTop" \in Places
  BY <1>1 DEF Locals, Words, Places
<1>4. l.tries <= Tries  BY <1>1, <1>3 DEF Shaped
<1> HIDE DEF l
<1>5. TakenWasGiven' /\ taken' \in [Words -> Nat]  BY <1>2, TakenStays
<1>6. Goes(p, l, "pushTop")  BY <1>2 DEF Goes
<1>7. top' \in [Threads -> Nat] /\ given' \in SUBSET Values  BY <1>1, <1>2 DEF Shaped
<1>8. Shaped' /\ Alone(p) /\ pc'[p] = "pushTop" /\ loc'[p] = l
  BY <1>1, <1>2, <1>3, <1>4, <1>5, <1>6, <1>7, ShapedOn DEF Stealing
<1>9. \A d \in Threads : top[d] <= top'[d] /\ \A h \in Int : Kept(d, h) => top'[d] <= h
  BY <1>1, <1>2 DEF Shaped, Kept, Sound
<1>10. \A h \in Int : Kept(p, h) => OwnerKnows(Own(p), top'[p], h, given', loc'[p], pc'[p])
  BY <1>2, <1>3, <1>8, KnownHere DEF OwnerKnows
<1>11. pc'[p] \notin Stealing  BY <1>8 DEF Stealing
<1> QED  BY <1>2, <1>5, <1>8, <1>9, <1>10, <1>11, LooksOn

\* The owner reads top, which can only rise after: its ring has room, or it is full up to
\* the mark.
LEMMA PushTopGiven ==
  ASSUME BInv, NEW p \in Threads, PushTop(p), depth' = depth
  PROVE  BInv'
<1> DEFINE l == [loc[p] EXCEPT !.b = Own(p).bottom, !.t = top[p]]
           place == IF Full(p, top[p]) THEN "pushGrow" ELSE "pushPut"
<1>1. Shaped /\ loc[p] \in Locals /\ top[p] \in Nat /\ Own(p) \in States  BY StagesType DEF BInv
<1>2. /\ pc[p] = "pushTop" /\ pc' = [pc EXCEPT ![p] = place] /\ loc' = [loc EXCEPT ![p] = l]
      /\ UNCHANGED <<top, seen, buffer, given, taken>>
  BY DEF PushTop, Goto, At
<1>3. Own(p).bottom \in Int /\ Size(Current(Own(p))) \in Nat  BY <1>1, StateType
<1>4. /\ l \in Locals /\ l.b = Own(p).bottom /\ l.t = top[p] /\ l.tries = loc[p].tries
      /\ l.val = loc[p].val
  BY <1>1, <1>3 DEF Locals
<1>5. l.tries <= Tries  BY <1>1, <1>4 DEF Shaped
<1>6. /\ place = "pushGrow" => Own(p).bottom - top[p] >= Size(Current(Own(p))) - 1
      /\ place = "pushPut" => Own(p).bottom - top[p] < Size(Current(Own(p))) - 1
      /\ place \in {"pushGrow", "pushPut"}
  BY <1>1, <1>3 DEF Full
<1> HIDE DEF l, place
<1>7. Goes(p, l, place)  BY <1>2 DEF Goes
<1>8. \A h \in Int : Kept(p, h) => OwnerKnows(Own(p), top[p], h, given, l, place)
  BY <1>1, <1>2, <1>3, <1>4, <1>6, KnownHere DEF OwnerKnows
<1>9. place \in Places /\ place \notin Stealing  BY <1>6 DEF Places, Stealing
<1>10. TakenWasGiven' /\ taken' \in [Words -> Nat]  BY <1>2, TakenStays
<1> QED  BY <1>2, <1>4, <1>5, <1>7, <1>8, <1>9, <1>10, MovesOn

\* A call of dequeue.
LEMMA DequeueGiven ==
  ASSUME BInv, NEW p \in Threads, Dequeue(p), depth' = depth
  PROVE  BInv'
<1>1. Shaped /\ loc[p] \in Locals  BY StagesType DEF BInv
<1>2. /\ pc[p] = "idle" /\ pc' = [pc EXCEPT ![p] = "popBottom"]
      /\ UNCHANGED <<top, seen, buffer, loc, given, taken>>
  BY DEF Dequeue, Goto, At
<1>3. Goes(p, loc[p], "popBottom")  BY <1>1, <1>2 DEF Goes, Shaped
<1>4. loc[p].tries <= Tries  BY <1>1 DEF Shaped
<1>5. \A h \in Int : Kept(p, h) => OwnerKnows(Own(p), top[p], h, given, loc[p], "popBottom")
  BY <1>2, KnownHere DEF OwnerKnows
<1>6. TakenWasGiven' /\ taken' \in [Words -> Nat]  BY <1>2, TakenStays
<1> QED  BY <1>1, <1>2, <1>3, <1>4, <1>5, <1>6, MovesOn DEF Places, Stealing

\* The value at b is below the mark, and written if it is not below top.
LEMMA PopTopGiven ==
  ASSUME BInv, NEW p \in Threads, PopTop(p), depth' = depth
  PROVE  BInv'
<1> DEFINE b == Own(p).bottom
           t == top[p]
           o == Get(Current(Own(p)), b)
<1>1. /\ Shaped /\ loc[p] \in Locals /\ t \in Nat /\ Own(p) \in States /\ b \in Int /\ o \in Words
      /\ loc[p].tries <= Tries
  BY StagesType, StateType DEF BInv, Shaped
<1>2. pc[p] = "popTop" /\ UNCHANGED <<top, seen, buffer, given>>  BY DEF PopTop, At
<1>3. \A h \in Int : Kept(p, h) => b < h /\ b >= -1
  BY <1>2, KnownHere DEF OwnerKnows
<1>4. b >= t => o \in given
  <2> SUFFICES ASSUME b >= t PROVE o \in given
    OBVIOUS
  <2>1. PICK h \in Int : Kept(p, h)  BY DEF BInv
  <2>2. b < h /\ OnlyGiven(Own(p), given) /\ Written(Current(Own(p)), t, h)
        /\ Active(Own(p)) \in 1..Active(Own(p))
    BY <1>3, <2>1, KnownHere
  <2>3. o # Garbage  BY <1>1, <2>2 DEF Written
  <2> QED  BY <1>1, <2>2, <2>3, SlotGiven DEF Current
<1> HIDE DEF o
<1>5. CASE b < t
  <2> DEFINE l == [loc[p] EXCEPT !.t = t]
  <2>1. Goes(p, l, "popReset") /\ taken' = taken
    BY <1>1, <1>5 DEF PopTop, Goes, Goto
  <2>2. l \in Locals /\ l.t = t /\ l.tries = loc[p].tries  BY <1>1 DEF Locals
  <2> HIDE DEF l
  <2>3. \A h \in Int : Kept(p, h) => OwnerKnows(Own(p), top[p], h, given, l, "popReset")
    BY <1>1, <1>3, <2>2 DEF OwnerKnows
  <2>4. TakenWasGiven' /\ taken' \in [Words -> Nat]  BY <1>2, <2>1, TakenStays
  <2> QED  BY <1>1, <1>2, <2>1, <2>2, <2>3, <2>4, MovesOn DEF Places, Stealing
<1>6. CASE b > t
  <2>1. Answer(p, o)  BY <1>1, <1>6 DEF PopTop, o
  <2>2. /\ TakenWasGiven' /\ taken' \in [Words -> Nat] /\ Goes(p, NoLocals, "idle")
        /\ NoLocals \in Locals /\ NoLocals.tries <= Tries /\ "idle" \in Places
    BY <1>1, <1>2, <1>4, <1>6, <2>1, AnswerGiven
  <2>3. \A h \in Int : Kept(p, h) => OwnerKnows(Own(p), top[p], h, given, NoLocals, "idle")
    BY <1>1, <1>6 DEF OwnerKnows
  <2> QED  BY <1>2, <2>2, <2>3, MovesOn DEF Stealing
<1>7. CASE b = t
  <2> DEFINE l == [loc[p] EXCEPT !.val = o, !.t = t]
  <2>0. /\ pc' = [pc EXCEPT ![p] = "popCas"] /\ taken' = taken
        /\ loc' = [loc EXCEPT ![p].val = o, ![p].t = t]
    BY <1>1, <1>7 DEF PopTop, Goto, o
  <2>1. Goes(p, l, "popCas") /\ taken' = taken
    BY <1>1, <2>0 DEF Goes, Shaped
  <2>2. l \in Locals /\ l.t = t /\ l.val = o /\ l.tries = loc[p].tries  BY <1>1 DEF Locals
  <2> HIDE DEF l
  <2>3. \A h \in Int : Kept(p, h) => OwnerKnows(Own(p), top[p], h, given, l, "popCas")
    BY <1>1, <1>3, <1>4, <1>7, <2>2 DEF OwnerKnows
  <2>4. TakenWasGiven' /\ taken' \in [Words -> Nat]  BY <1>2, <2>1, TakenStays
  <2> QED  BY <1>1, <1>2, <2>1, <2>2, <2>3, <2>4, MovesOn DEF Places, Stealing
<1> QED  BY <1>1, <1>5, <1>6, <1>7

-----------------------------------------------------------------------------
(* Steps of a thief. *)

\* A thief that has stored nothing goes on to a place where it knows what it needs.
LEMMA ThiefMoves ==
  ASSUME BInv, NEW p \in Threads, pc[p] \in Stealing \cup {"choose"}, NEW l \in Locals,
         NEW place \in Stealing \cup {"choose"}, Goes(p, l, place), l.tries <= Tries,
         UNCHANGED <<top, seen, buffer, given, taken, depth>>,
         place \in Stealing =>
           /\ l.from \in Threads
           /\ \A h \in Int : Kept(l.from, h) =>
                ThiefKnows(Stages(l.from), top[l.from], h, given, l, place)
  PROVE  BInv'
<1>1. place \in Places  BY DEF Stealing, Places
<1>2. \A h \in Int : Kept(p, h) => OwnerKnows(Own(p), top[p], h, given, l, place)
  <2> SUFFICES ASSUME NEW h \in Int, Kept(p, h)
               PROVE  OwnerKnows(Own(p), top[p], h, given, l, place)
    OBVIOUS
  <2>1. Own(p).bottom >= -1 /\ Own(p).bottom >= 0  BY KnownHere DEF OwnerKnows, Stealing
  <2>2. place \in Stealing \cup {"choose"}  OBVIOUS
  <2> QED  BY <2>1, <2>2 DEF OwnerKnows, Stealing
<1>3. TakenWasGiven' /\ taken' \in [Words -> Nat]  BY TakenStays
<1> QED  BY <1>1, <1>2, <1>3, MovesOn

\* What a thief knows where it is.
LEMMA ThiefHere ==
  ASSUME BInv, NEW p \in Threads, pc[p] \in Stealing
  PROVE  /\ loc[p].from \in Threads /\ loc[p] \in Locals /\ loc[p].tries <= Tries
         /\ loc[p].t \in Nat /\ loc[p].b \in Int /\ loc[p].ring \in Nat
         /\ top[loc[p].from] \in Nat
         /\ \A h \in Int : Kept(loc[p].from, h) =>
              /\ ThiefKnows(Stages(loc[p].from), top[loc[p].from], h, given, loc[p], pc[p])
              /\ Sound(Stages(loc[p].from), top[loc[p].from], h, given)
<1>1. Shaped /\ loc[p].from \in Threads /\ loc[p] \in Locals  BY DEF BInv, Shaped
<1> QED  BY <1>1 DEF Shaped, Locals, Kept

\* A deque is chosen, or the dequeue answers that there is nothing.
LEMMA ChooseGiven ==
  ASSUME BInv, NEW p \in Threads, Choose(p), depth' = depth
  PROVE  BInv'
<1>1. Shaped /\ loc[p] \in Locals /\ loc[p].tries <= Tries  BY DEF BInv, Shaped
<1>2. pc[p] = "choose" /\ UNCHANGED <<top, seen, buffer, given>>  BY DEF Choose, At
<1>3. CASE loc[p].tries = Tries
  <2>1. Answer(p, Empty)  BY <1>3 DEF Choose
  <2>2. /\ TakenWasGiven' /\ taken' \in [Words -> Nat] /\ Goes(p, NoLocals, "idle")
        /\ NoLocals \in Locals /\ NoLocals.tries <= Tries /\ "idle" \in Places
    BY <1>2, <2>1, AnswerGiven DEF Words
  <2>3. \A h \in Int : Kept(p, h) => OwnerKnows(Own(p), top[p], h, given, NoLocals, "idle")
    BY <1>2, KnownHere DEF OwnerKnows
  <2> QED  BY <1>2, <2>2, <2>3, MovesOn DEF Stealing
<1>4. CASE loc[p].tries # Tries
  <2>1. PICK d \in Threads : loc' = [loc EXCEPT ![p].from = d, ![p].tries = @ + 1]
                             /\ pc' = [pc EXCEPT ![p] = IF d = p THEN "choose" ELSE "stealTop"]
                             /\ taken' = taken
    BY <1>4 DEF Choose, Goto
  <2> DEFINE l == [loc[p] EXCEPT !.from = d, !.tries = @ + 1]
             place == IF d = p THEN "choose" ELSE "stealTop"
  <2>0. loc[p].tries \in Nat /\ loc[p].tries + 1 \in Nat  BY <1>1 DEF Locals
  <2>2. l \in Locals /\ l.from = d /\ l.tries = loc[p].tries + 1  BY <1>1, <2>0 DEF Locals
  <2>3. l.tries <= Tries  BY <1>1, <1>4, <2>2, WSDequeAssumption DEF Locals
  <2>4. Goes(p, l, place)  BY <1>1, <2>1 DEF Goes, Shaped
  <2>5. place \in {"choose", "stealTop"}  OBVIOUS
  <2> HIDE DEF l, place
  <2>6. \A h \in Int : ThiefKnows(Stages(d), top[d], h, given, l, "stealTop")
    BY DEF ThiefKnows
  <2>7. place \in Stealing => place = "stealTop"  BY <2>5 DEF Stealing
  <2>8. place \in Stealing \cup {"choose"} /\ pc[p] \in Stealing \cup {"choose"}
    BY <1>2, <2>5 DEF Stealing
  <2> QED  BY <1>2, <2>1, <2>2, <2>3, <2>4, <2>6, <2>7, <2>8, ThiefMoves
<1> QED  BY <1>3, <1>4

\* The thief reads top.
LEMMA StealTopGiven ==
  ASSUME BInv, NEW p \in Threads, StealTop(p), depth' = depth
  PROVE  BInv'
<1> DEFINE d == loc[p].from
           l == [loc[p] EXCEPT !.t = top[d]]
<1>1. /\ pc[p] = "stealTop" /\ pc' = [pc EXCEPT ![p] = "stealBottom"]
      /\ loc' = [loc EXCEPT ![p] = l] /\ UNCHANGED <<top, seen, buffer, given, taken>>
  BY DEF StealTop, Goto, At
<1>2. d \in Threads /\ loc[p] \in Locals /\ loc[p].tries <= Tries /\ top[d] \in Nat
  BY <1>1, ThiefHere DEF Stealing
<1>3. l \in Locals /\ l.from = d /\ l.t = top[d] /\ l.tries = loc[p].tries  BY <1>2 DEF Locals
<1> HIDE DEF l
<1>4. \A h \in Int : ThiefKnows(Stages(d), top[d], h, given, l, "stealBottom")
  BY <1>2, <1>3 DEF ThiefKnows
<1> QED  BY <1>1, <1>2, <1>3, <1>4, ThiefMoves DEF Goes, Stealing

\* The slots up to the bottom that it reads are written in every stage.
LEMMA StealBottomGiven ==
  ASSUME BInv, NEW p \in Threads, StealBottom(p), depth' = depth
  PROVE  BInv'
<1> DEFINE d == loc[p].from
           l == [loc[p] EXCEPT !.b = seen[d].bottom]
<1>1. /\ pc[p] = "stealBottom" /\ pc' = [pc EXCEPT ![p] = "stealRing"]
      /\ loc' = [loc EXCEPT ![p] = l] /\ UNCHANGED <<top, seen, buffer, given, taken>>
  BY DEF StealBottom, Goto, At
<1>2. /\ d \in Threads /\ loc[p] \in Locals /\ loc[p].tries <= Tries /\ top[d] \in Nat
      /\ \A h \in Int : Kept(d, h) =>
           loc[p].t <= top[d] /\ Sound(Stages(d), top[d], h, given)
  BY <1>1, ThiefHere DEF Stealing, ThiefKnows
<1>3. /\ Stages(d)[1] = seen[d] /\ seen[d] \in States
      /\ Len(Stages(d)) \in Nat /\ Len(Stages(d)) > 0
  BY <1>2, StagesType DEF BInv
<1>4. seen[d].bottom \in Int  BY <1>3, StateType
<1>5. /\ l \in Locals /\ l.from = d /\ l.t = loc[p].t /\ l.b = seen[d].bottom
      /\ l.tries = loc[p].tries
  BY <1>2, <1>4 DEF Locals
<1> HIDE DEF l
<1>6. ASSUME NEW h \in Int, Kept(d, h)
      PROVE  ThiefKnows(Stages(d), top[d], h, given, l, "stealRing")
  <2>1. Sound(Stages(d), top[d], h, given) /\ l.t <= top[d]  BY <1>2, <1>5, <1>6
  <2>2. 1 \in 1..Len(Stages(d))  BY <1>3
  <2>3. l.b <= h  BY <1>3, <1>5, <2>1, <2>2 DEF Sound
  <2>4. \A j \in 1..Len(Stages(d)) : Written(Current(Stages(d)[j]), top[d], l.b)
    BY <1>3, <1>5, <2>1, <2>2 DEF Sound
  <2> QED  BY <2>1, <2>3, <2>4 DEF ThiefKnows
<1> QED  BY <1>1, <1>2, <1>5, <1>6, ThiefMoves DEF Goes, Stealing

\* It reads the active ring; what it knows is about all of them.
LEMMA StealRingGiven ==
  ASSUME BInv, NEW p \in Threads, StealRing(p), depth' = depth
  PROVE  BInv'
<1> DEFINE d == loc[p].from
           l == [loc[p] EXCEPT !.ring = Active(seen[d])]
<1>1. /\ pc[p] = "stealRing" /\ pc' = [pc EXCEPT ![p] = "stealReserved"]
      /\ loc' = [loc EXCEPT ![p] = l] /\ UNCHANGED <<top, seen, buffer, given, taken>>
  BY DEF StealRing, Goto, At
<1>2. /\ d \in Threads /\ loc[p] \in Locals /\ loc[p].tries <= Tries
      /\ \A h \in Int : Kept(d, h) => ThiefKnows(Stages(d), top[d], h, given, loc[p], "stealRing")
  BY <1>1, ThiefHere DEF Stealing
<1>3. Active(seen[d]) \in Nat  BY <1>2, StagesType, StateType DEF BInv
<1>4. /\ l \in Locals /\ l.from = d /\ l.t = loc[p].t /\ l.b = loc[p].b
      /\ l.tries = loc[p].tries
  BY <1>2, <1>3 DEF Locals
<1> HIDE DEF l
<1>5. \A h \in Int : Kept(d, h) => ThiefKnows(Stages(d), top[d], h, given, l, "stealReserved")
  BY <1>2, <1>4 DEF ThiefKnows
<1> QED  BY <1>1, <1>2, <1>4, <1>5, ThiefMoves DEF Goes, Stealing

\* The ring it goes on with is active in memory, and kept by every later stage.
LEMMA StealReservedGiven ==
  ASSUME BInv, NEW p \in Threads, StealReserved(p), depth' = depth
  PROVE  BInv'
<1> DEFINE d == loc[p].from
           l == loc[p]
           place == IF l.ring # Active(seen[d]) THEN "stealTop"
                    ELSE IF Stealable(p) THEN "stealGet" ELSE "choose"
           S == Stages(d)
<1>1. /\ pc[p] = "stealReserved" /\ pc' = [pc EXCEPT ![p] = place]
      /\ UNCHANGED <<top, seen, buffer, loc, given, taken>>
  BY DEF StealReserved, Goto, At
<1>2. /\ d \in Threads /\ l \in Locals /\ l.tries <= Tries /\ top[d] \in Nat
      /\ l.t \in Nat /\ l.b \in Int /\ l.ring \in Nat
      /\ \A h \in Int : Kept(d, h) =>
           ThiefKnows(S, top[d], h, given, l, "stealReserved") /\ Sound(S, top[d], h, given)
  BY <1>1, ThiefHere DEF Stealing
<1>3. Goes(p, l, place)  BY <1>1 DEF Goes, BInv, Shaped
<1>4. place \in {"stealTop", "stealGet", "choose"}  OBVIOUS
<1>5. place = "stealGet" => l.ring = Active(seen[d]) /\ l.b > l.t
  BY <1>2 DEF Stealable
<1>6. /\ S[1] = seen[d] /\ Len(S) \in Nat /\ Len(S) > 0
      /\ \A j \in 1..Len(S) : S[j] \in States /\ Active(S[j]) \in Nat /\ Active(S[j]) > 0
  BY <1>2, StagesType, NewestType, StateType DEF BInv
<1>7. l.from = d  OBVIOUS
<1> HIDE DEF place, l, S
<1>8. ASSUME NEW h \in Int, Kept(d, h), place = "stealGet"
      PROVE  ThiefKnows(S, top[d], h, given, l, place)
  <2>1. /\ l.t <= top[d] /\ l.b <= h /\ Sound(S, top[d], h, given)
        /\ \A j \in 1..Len(S) : Written(Current(S[j]), top[d], l.b)
    BY <1>2, <1>8 DEF ThiefKnows
  <2>2. 1 \in 1..Len(S) /\ l.ring = Active(S[1]) /\ l.ring \in 1..Active(S[1]) /\ l.t < l.b
    BY <1>2, <1>5, <1>6, <1>8
  <2>3. top[d] = l.t => Get(S[1].rings[l.ring], l.t) # Garbage
    BY <1>2, <2>1, <2>2 DEF Written, Current
  <2>4. ASSUME NEW j \in 1..Len(S)
        PROVE  l.ring \in 1..Active(S[j]) /\ (top[d] = l.t => Get(S[j].rings[l.ring], l.t) # Garbage)
    <3>1. Follows(S[1], S[j])  BY <1>6, <2>1, <2>2 DEF Sound
    <3>2. Active(S[1]) <= Active(S[j])  BY <3>1 DEF Follows
    <3>3. l.ring \in 1..Active(S[j])  BY <1>6, <2>2, <3>2
    <3>4. l.t \in Int  BY <1>2
    <3> QED  BY <2>2, <2>3, <3>1, <3>3, <3>4 DEF Follows
  <2>5. l.t < h  BY <1>2, <2>1, <2>2
  <2> QED  BY <1>8, <2>1, <2>4, <2>5 DEF ThiefKnows
<1>9. \A h \in Int : ThiefKnows(S, top[d], h, given, l, "stealTop")  BY DEF ThiefKnows
<1>10. \A h \in Int : place \in Stealing /\ Kept(d, h) => ThiefKnows(S, top[d], h, given, l, place)
  BY <1>4, <1>8, <1>9 DEF Stealing
<1>11. place \in Stealing \cup {"choose"} /\ pc[p] \in Stealing \cup {"choose"}
  BY <1>1, <1>4 DEF Stealing
<1> QED  BY <1>1, <1>2, <1>3, <1>7, <1>10, <1>11, ThiefMoves DEF S

\* What it reads was enqueued, if top has not moved.
LEMMA StealGetGiven ==
  ASSUME BInv, NEW p \in Threads, StealGet(p), depth' = depth
  PROVE  BInv'
<1> DEFINE d == loc[p].from
           v == Get(seen[d].rings[loc[p].ring], loc[p].t)
           l == [loc[p] EXCEPT !.val = v]
           S == Stages(d)
<1>1. /\ pc[p] = "stealGet" /\ pc' = [pc EXCEPT ![p] = "stealCas"]
      /\ loc' = [loc EXCEPT ![p] = l] /\ UNCHANGED <<top, seen, buffer, given, taken>>
  BY DEF StealGet, Goto, At
<1>2. /\ d \in Threads /\ loc[p] \in Locals /\ loc[p].tries <= Tries /\ loc[p].t \in Nat
      /\ \A h \in Int : Kept(d, h) =>
           ThiefKnows(S, top[d], h, given, loc[p], "stealGet") /\ Sound(S, top[d], h, given)
  BY <1>1, ThiefHere DEF Stealing
<1>3. S[1] = seen[d] /\ seen[d] \in States /\ Len(S) \in Nat /\ Len(S) > 0 /\ 1 \in 1..Len(S)
  BY <1>2, StagesType DEF BInv
<1>4. \A h \in Int : Kept(d, h) =>
        /\ loc[p].ring \in 1..Active(seen[d]) /\ loc[p].t < h /\ loc[p].t <= top[d]
        /\ top[d] = loc[p].t => v # Garbage
        /\ OnlyGiven(seen[d], given)
  BY <1>2, <1>3 DEF ThiefKnows, Sound
<1>5. \E h \in Int : Kept(d, h)  BY <1>2 DEF BInv
<1>6. loc[p].ring \in 1..Active(seen[d])  BY <1>4, <1>5
<1>7. v \in Words  BY <1>2, <1>3, <1>6, StateType, GetType
<1>8. top[d] = loc[p].t => v \in given
  BY <1>2, <1>3, <1>4, <1>5, SlotGiven
<1> HIDE DEF v
<1>9. /\ l \in Locals /\ l.from = d /\ l.t = loc[p].t /\ l.val = v /\ l.tries = loc[p].tries
  BY <1>2, <1>7 DEF Locals
<1> HIDE DEF l
<1>10. \A h \in Int : Kept(d, h) => ThiefKnows(S, top[d], h, given, l, "stealCas")
  BY <1>4, <1>8, <1>9 DEF ThiefKnows
<1> QED  BY <1>1, <1>2, <1>9, <1>10, ThiefMoves DEF Goes, Stealing

-----------------------------------------------------------------------------
(* The CAS of top. *)

\* top is raised by the owner for its last value, which is below the mark.
LEMMA PopCasGiven ==
  ASSUME BInv, NEW p \in Threads, PopCas(p), depth' = depth
  PROVE  BInv'
<1>1. /\ Shaped /\ loc[p] \in Locals /\ loc[p].tries <= Tries /\ top \in [Threads -> Nat]
      /\ loc[p].t \in Nat
  BY DEF BInv, Shaped, Locals
<1>2. pc[p] = "popCas" /\ UNCHANGED <<seen, buffer, loc, given, taken>>  BY DEF PopCas, At
<1>3. TakenWasGiven' /\ taken' \in [Words -> Nat]  BY <1>2, TakenStays
<1>4. \A h \in Int : Kept(p, h) =>
        loc[p].t < h /\ loc[p].val \in given /\ Own(p).bottom >= 0 /\ Own(p).bottom >= -1
  BY <1>2, KnownHere DEF OwnerKnows
<1>5. CASE top[p] = loc[p].t
  <2>1. top' = [top EXCEPT ![p] = @ + 1] /\ Goes(p, loc[p], "popLast")
    BY <1>1, <1>2, <1>5 DEF PopCas, Goes, Goto, Shaped
  <2>2. /\ top' \in [Threads -> Nat] /\ top'[p] = top[p] + 1
        /\ \A d \in Threads \ {p} : top'[d] = top[d]
    BY <1>1, <2>1
  <2>3. Shaped' /\ Alone(p) /\ pc'[p] = "popLast" /\ loc'[p] = loc[p]
    BY <1>1, <1>2, <1>3, <2>1, <2>2, ShapedOn DEF Stealing, Places, Shaped
  <2>4. ASSUME NEW d \in Threads
        PROVE  top[d] <= top'[d] /\ \A h \in Int : Kept(d, h) => top'[d] <= h
    <3>1. top[d] \in Nat /\ \A h \in Int : Kept(d, h) => top[d] <= h  BY <1>1 DEF Kept, Sound
    <3>2. CASE d = p  BY <1>1, <1>4, <1>5, <2>2, <3>1, <3>2
    <3>3. CASE d # p  BY <2>2, <3>1, <3>3
    <3> QED  BY <3>2, <3>3
  <2>5. \A h \in Int : Kept(p, h) => OwnerKnows(Own(p), top'[p], h, given', loc'[p], pc'[p])
    BY <1>2, <1>4, <2>3 DEF OwnerKnows
  <2> QED  BY <1>2, <1>3, <2>3, <2>4, <2>5, LooksOn DEF Stealing
<1>6. CASE top[p] # loc[p].t
  <2>1. top' = top /\ Goes(p, loc[p], "choose")
    BY <1>1, <1>2, <1>6 DEF PopCas, Goes, Goto, Shaped
  <2>2. \A h \in Int : Kept(p, h) => OwnerKnows(Own(p), top[p], h, given, loc[p], "choose")
    BY <1>4 DEF OwnerKnows
  <2> QED  BY <1>1, <1>2, <1>3, <2>1, <2>2, MovesOn DEF Places, Stealing
<1> QED  BY <1>5, <1>6

\* A thief that wins returns what it has read while top was t.
LEMMA StealCasGiven ==
  ASSUME BInv, NEW p \in Threads, StealCas(p), depth' = depth
  PROVE  BInv'
<1>1. pc[p] = "stealCas" /\ UNCHANGED <<seen, buffer, given>>  BY DEF StealCas, At
<1>2. PICK d \in Threads : d = loc[p].from  BY <1>1, ThiefHere DEF Stealing
<1>3. /\ Shaped /\ loc[p] \in Locals /\ loc[p].tries <= Tries /\ top \in [Threads -> Nat]
      /\ loc[p].t \in Nat /\ loc[p].val \in Words
      /\ \A h \in Int : Kept(d, h) => loc[p].t < h /\ (top[d] = loc[p].t => loc[p].val \in given)
  BY <1>1, <1>2, ThiefHere DEF BInv, Shaped, Locals, ThiefKnows, Stealing
<1>4. CASE top[d] = loc[p].t
  <2>1. top' = [top EXCEPT ![d] = @ + 1] /\ Answer(p, loc[p].val)
    BY <1>2, <1>4 DEF StealCas
  <2>2. loc[p].val \in given  BY <1>3, <1>4 DEF BInv
  <2>3. /\ TakenWasGiven' /\ taken' \in [Words -> Nat] /\ Goes(p, NoLocals, "idle")
        /\ NoLocals \in Locals /\ NoLocals.tries <= Tries /\ "idle" \in Places
    BY <1>1, <1>3, <2>1, <2>2, AnswerGiven
  <2>4. /\ top' \in [Threads -> Nat] /\ top'[d] = top[d] + 1
        /\ \A e \in Threads \ {d} : top'[e] = top[e]
    BY <1>3, <2>1
  <2>5. Shaped' /\ Alone(p) /\ pc'[p] = "idle" /\ loc'[p] = NoLocals
    <3>1. given' \in SUBSET Values  BY <1>1, <1>3 DEF Shaped
    <3> QED  BY <1>1, <1>3, <2>3, <2>4, <3>1, ShapedOn DEF Stealing
  <2>6. ASSUME NEW e \in Threads
        PROVE  top[e] <= top'[e] /\ \A h \in Int : Kept(e, h) => top'[e] <= h
    <3>1. top[e] \in Nat /\ \A h \in Int : Kept(e, h) => top[e] <= h  BY <1>3 DEF Kept, Sound
    <3>2. CASE e = d  BY <1>3, <1>4, <2>4, <3>1, <3>2
    <3>3. CASE e # d  BY <2>4, <3>1, <3>3
    <3> QED  BY <3>2, <3>3
  <2>7. ASSUME NEW h \in Int, Kept(p, h)
        PROVE  OwnerKnows(Own(p), top'[p], h, given', loc'[p], pc'[p])
    <3>1. Own(p).bottom >= 0 /\ Own(p).bottom >= -1  BY <1>1, <2>7, KnownHere DEF OwnerKnows
    <3> QED  BY <2>5, <3>1 DEF OwnerKnows
  <2> QED  BY <1>1, <2>3, <2>5, <2>6, <2>7, LooksOn DEF Stealing
<1>5. CASE top[d] # loc[p].t
  <2>1. UNCHANGED <<top, taken>> /\ Goes(p, loc[p], "choose")
    BY <1>2, <1>3, <1>5 DEF StealCas, Goes, Goto, Shaped
  <2>2. pc[p] \in Stealing \cup {"choose"} /\ "choose" \in Stealing \cup {"choose"} /\ "choose" \notin Stealing
    BY <1>1 DEF Stealing
  <2> QED  BY <1>1, <1>3, <2>1, <2>2, ThiefMoves
<1> QED  BY <1>4, <1>5

-----------------------------------------------------------------------------
(* Stores. *)

\* A store of bottom leaves the rings.
LEMMA BottomOnly ==
  ASSUME NEW o \in States, NEW b \in Int
  PROVE  LET q == [o EXCEPT !.bottom = b]
         IN  /\ q \in States /\ q.bottom = b /\ q.rings = o.rings
             /\ Active(q) = Active(o) /\ Current(q) = Current(o)
             /\ Follows(o, q) /\ \A g : OnlyGiven(o, g) => OnlyGiven(q, g)
<1> DEFINE q == [o EXCEPT !.bottom = b]
<1>1. q \in States /\ q.bottom = b /\ q.rings = o.rings  BY DEF States
<1>2. Active(o) \in Nat  BY StateType
<1> HIDE DEF q
<1>3. Active(q) = Active(o) /\ Current(q) = Current(o)  BY <1>1 DEF Active, Current
<1>4. Follows(o, q) /\ \A g : OnlyGiven(o, g) => OnlyGiven(q, g)
  BY <1>1, <1>2, <1>3 DEF Follows, OnlyGiven
<1> QED  BY <1>1, <1>3, <1>4 DEF q

\* A new ring holds what the old one held, or nothing.
LEMMA GrowOnly ==
  ASSUME NEW a \in Arrays, NEW b \in Int, NEW t \in Int, NEW i \in Int
  PROVE  Get(Grow(a, b, t), i) = Garbage \/ \E k \in Int : Get(Grow(a, b, t), i) = Get(a, k)
<1> DEFINE n == 2 * Size(a)
           c == Grow(a, b, t)
           Source(j) == CHOOSE k \in t..(b - 1) : k % n = j
<1>1. Size(a) \in Nat /\ Size(a) > 1  BY RingType
<1>2. n \in Nat /\ n > 1  BY <1>1
<1>3. c = [j \in 0..(n - 1) |-> IF \E k \in t..(b - 1) : k % n = j
                                 THEN Get(a, Source(j)) ELSE Garbage]
  BY DEF Grow
<1> HIDE DEF n
<1>4. \A j \in 0..(n - 1) : (\E k \in t..(b - 1) : k % n = j) => Source(j) \in t..(b - 1)
  OBVIOUS
<1> HIDE DEF Source, c
<1>5. DOMAIN c = 0..(n - 1) /\ \A j \in 0..(n - 1) : c[j] = Garbage \/ \E k \in Int : c[j] = Get(a, k)
  <2> SUFFICES ASSUME NEW j \in 0..(n - 1) PROVE c[j] = Garbage \/ \E k \in Int : c[j] = Get(a, k)
    BY <1>3
  <2>1. CASE \E k \in t..(b - 1) : k % n = j
    <3>1. c[j] = Get(a, Source(j)) /\ Source(j) \in Int  BY <1>3, <1>4, <2>1
    <3> QED  BY <3>1
  <2>2. CASE ~ \E k \in t..(b - 1) : k % n = j  BY <1>3, <2>2
  <2> QED  BY <2>1, <2>2
<1>6. Size(c) = n  BY <1>2, <1>5, FS_Interval DEF Size
<1>7. i % n \in 0..(n - 1)  BY <1>2, RemainderRange
<1>8. Get(c, i) = c[i % n]  BY <1>6 DEF Get
<1> QED  BY <1>5, <1>7, <1>8 DEF c

\* A put changes no slot but to its value.
LEMMA PutOnly ==
  ASSUME NEW a \in Arrays, NEW b \in Int, NEW v \in Words, NEW i \in Int
  PROVE  Get(Put(a, b, v), i) = v \/ Get(Put(a, b, v), i) = Get(a, i)
<1>1. Size(a) \in Nat /\ Size(a) > 1 /\ a \in [0..(Size(a) - 1) -> Words]  BY RingType
<1>2. Size(Put(a, b, v)) = Size(a)  BY PutSlots
<1>3. i % Size(a) \in 0..(Size(a) - 1) /\ b % Size(a) \in 0..(Size(a) - 1)  BY <1>1, RemainderRange
<1> QED  BY <1>1, <1>2, <1>3 DEF Put, Get

\* The new ring holds what was written between top and the mark.
LEMMA PushGrowGiven ==
  ASSUME BInv, NEW p \in Threads, PushGrow(p), depth' = depth
  PROVE  BInv'
<1> DEFINE o == Own(p)
           a == Current(o)
           c == Grow(a, loc[p].b, loc[p].t)
           q == [o EXCEPT !.rings = Append(@, c)]
<1>1. /\ Shaped /\ loc[p] \in Locals /\ loc[p].tries <= Tries /\ loc[p].b \in Int /\ loc[p].t \in Nat
      /\ o \in States /\ top[p] \in Nat
      /\ Newest(Stages(p)) = o
  BY StagesType DEF BInv, Shaped, Locals
<1>2. /\ pc[p] = "pushGrow" /\ Store(p, q) /\ pc' = [pc EXCEPT ![p] = "pushPut"]
      /\ UNCHANGED <<top, loc, given, taken>>
  BY DEF PushGrow, Goto, At
<1>3. a \in Arrays /\ o.rings \in Seq(Arrays) /\ Active(o) \in Nat /\ Active(o) > 0
      /\ o.bottom \in Int /\ Size(a) \in Nat /\ Size(a) > 1
  BY <1>1, StateType
<1>4. \A h \in Int : Kept(p, h) =>
        /\ o.bottom >= -1 /\ o.bottom >= 0 /\ loc[p].val \in given
        /\ loc[p].b = o.bottom /\ loc[p].t <= top[p] /\ h <= loc[p].b
        /\ loc[p].b - loc[p].t <= Size(a) - 1
  BY <1>2, KnownHere DEF OwnerKnows
<1>5. \E h \in Int : Kept(p, h)  BY DEF BInv
<1>6. loc[p].b - loc[p].t <= Size(a)  BY <1>1, <1>3, <1>4, <1>5
<1>7. /\ c \in Arrays /\ Size(c) = 2 * Size(a)
      /\ \A i \in loc[p].t..(loc[p].b - 1) : Get(c, i) = Get(a, i)
  BY <1>1, <1>3, <1>6, GrowSlots
<1>8. \A i \in Int : Get(c, i) = Garbage \/ \E k \in Int : Get(c, i) = Get(a, k)
  BY <1>1, <1>3, GrowOnly
<1> HIDE DEF c, a
<1>9. /\ Append(o.rings, c) \in Seq(Arrays) /\ Append(o.rings, c) # <<>>
      /\ Len(Append(o.rings, c)) = Active(o) + 1 /\ Append(o.rings, c)[Active(o) + 1] = c
      /\ \A k \in 1..Active(o) : Append(o.rings, c)[k] = o.rings[k]
  BY <1>3, <1>7, AppendProperties DEF Active
<1>10. q \in States /\ q.bottom = o.bottom /\ q.rings = Append(o.rings, c)
  BY <1>1, <1>9 DEF States
<1>11. Active(q) = Active(o) + 1 /\ Current(q) = c  BY <1>9, <1>10 DEF Active, Current
<1> HIDE DEF q, o
<1>12. Follows(o, q)  BY <1>3, <1>9, <1>10, <1>11 DEF Follows
<1>13. OnlyGiven(q, given)
  <2>1. OnlyGiven(o, given)  BY <1>5, KnownHere DEF o
  <2>2. ASSUME NEW k \in 1..Active(q), NEW i \in Int PROVE Get(q.rings[k], i) \in given \cup {Garbage}
    <3>1. CASE k = Active(o) + 1
      <4>1. q.rings[k] = c  BY <1>9, <1>10, <3>1
      <4>2. \A j \in Int : Get(a, j) \in given \cup {Garbage}
        BY <1>3, <2>1 DEF OnlyGiven, a, Current
      <4> QED  BY <1>8, <4>1, <4>2
    <3>2. CASE k # Active(o) + 1
      <4>1. k \in 1..Active(o) /\ q.rings[k] = o.rings[k]  BY <1>3, <1>9, <1>10, <1>11, <3>2
      <4> QED  BY <2>1, <4>1 DEF OnlyGiven
    <3> QED  BY <3>1, <3>2
  <2> QED  BY <2>2 DEF OnlyGiven
<1>14. ASSUME NEW h \in Int, Kept(p, h)
       PROVE  /\ Extends(Stages(p), top[p], h, h, given, q)
              /\ OwnerKnows(q, top[p], h, given, loc[p], "pushPut")
  <2>1. /\ o.bottom <= h /\ top[p] <= h /\ h <= top[p] + Size(a) - 1
        /\ Written(a, top[p], h)
    BY <1>14, KnownHere DEF a, o
  <2>2. /\ o.bottom >= -1 /\ o.bottom >= 0 /\ loc[p].val \in given
        /\ loc[p].b = o.bottom /\ loc[p].t <= top[p] /\ h <= loc[p].b
        /\ loc[p].b - loc[p].t <= Size(a) - 1
    BY <1>4, <1>14
  <2>3. Written(c, top[p], h)
    <3>1. \A i \in top[p]..(h - 1) : i \in loc[p].t..(loc[p].b - 1)  BY <1>1, <2>2
    <3> QED  BY <1>7, <2>1, <3>1 DEF Written
  <2>4. h <= top[p] + Size(c) - 1 /\ loc[p].b - top[p] < Size(c) - 1
    BY <1>1, <1>3, <1>7, <2>1, <2>2
  <2>5. Extends(Stages(p), top[p], h, h, given, q)
    BY <1>1, <1>3, <1>10, <1>11, <1>12, <1>13, <2>1, <2>2, <2>3, <2>4 DEF Extends
  <2>6. OwnerKnows(q, top[p], h, given, loc[p], "pushPut")
    BY <1>10, <1>11, <2>2, <2>4 DEF OwnerKnows
  <2> QED  BY <2>5, <2>6
<1>15. Goes(p, loc[p], "pushPut")  BY <1>1, <1>2 DEF Goes, Shaped
<1>16. /\ pc' \in [Threads -> Places] /\ loc' \in [Threads -> Locals] /\ Alone(p)
       /\ pc'[p] = "pushPut" /\ loc'[p] = loc[p]
  BY <1>1, <1>2 DEF Shaped, Places, Alone
<1>17. TakenWasGiven' /\ taken' \in [Words -> Nat]  BY <1>2, TakenStays
<1>18. pc'[p] \notin Stealing  BY <1>16 DEF Stealing
<1> QED  BY <1>1, <1>2, <1>10, <1>14, <1>16, <1>17, <1>18, StoresOn

\* The value is put into the slot at bottom, which was in use or not: it is written after.
LEMMA PushPutGiven ==
  ASSUME BInv, NEW p \in Threads, PushPut(p), depth' = depth
  PROVE  BInv'
<1> DEFINE o == Own(p)
           n == Active(o)
           a == Current(o)
           c == Put(a, loc[p].b, loc[p].val)
           q == [o EXCEPT !.rings[n] = c]
<1>1. /\ Shaped /\ loc[p] \in Locals /\ loc[p].tries <= Tries /\ loc[p].b \in Int /\ loc[p].t \in Nat
      /\ o \in States /\ top[p] \in Nat /\ loc[p].val \in Words
      /\ Newest(Stages(p)) = o
  BY StagesType DEF BInv, Shaped, Locals
<1>2. /\ pc[p] = "pushPut" /\ Store(p, q) /\ pc' = [pc EXCEPT ![p] = "pushBottom"]
      /\ UNCHANGED <<top, loc, given, taken>>
  BY DEF PushPut, Goto, At, Current
<1>3. a \in Arrays /\ o.rings \in Seq(Arrays) /\ n \in Nat /\ n > 0
      /\ o.bottom \in Int /\ Size(a) \in Nat /\ Size(a) > 1
  BY <1>1, StateType
<1>4. \A h \in Int : Kept(p, h) =>
        /\ o.bottom >= -1 /\ o.bottom >= 0 /\ loc[p].val \in given
        /\ loc[p].b = o.bottom /\ loc[p].t <= top[p]
        /\ loc[p].b - top[p] < Size(a) - 1
  BY <1>2, KnownHere DEF OwnerKnows
<1>5. \E h \in Int : Kept(p, h)  BY DEF BInv
<1>6. loc[p].val \in given /\ loc[p].val # Garbage
  BY <1>1, <1>4, <1>5, WSDequeAssumption DEF Shaped
<1>7. c \in Arrays /\ Size(c) = Size(a) /\ Get(c, loc[p].b) = loc[p].val
  BY <1>1, <1>3, PutSlots
<1>8. \A i \in Int : Get(c, i) = loc[p].val \/ Get(c, i) = Get(a, i)
  BY <1>1, <1>3, PutOnly
<1>9. \A i \in Int : Get(a, i) # Garbage => Get(c, i) # Garbage  BY <1>6, <1>8
<1> HIDE DEF c, a
<1>10. /\ [o.rings EXCEPT ![n] = c] \in Seq(Arrays) /\ [o.rings EXCEPT ![n] = c] # <<>>
       /\ Len([o.rings EXCEPT ![n] = c]) = n /\ [o.rings EXCEPT ![n] = c][n] = c
       /\ \A k \in 1..n : k # n => [o.rings EXCEPT ![n] = c][k] = o.rings[k]
  <2>1. n = Len(o.rings) /\ n \in 1..Len(o.rings)  BY <1>3 DEF Active
  <2>2. [o.rings EXCEPT ![n] = c] \in Seq(Arrays) /\ Len([o.rings EXCEPT ![n] = c]) = Len(o.rings)
    BY <1>3, <1>7, <2>1, ExceptSeq
  <2>3. /\ [o.rings EXCEPT ![n] = c][n] = c
        /\ \A k \in 1..n : k # n => [o.rings EXCEPT ![n] = c][k] = o.rings[k]
    BY <1>3, <2>1
  <2> QED  BY <1>3, <2>1, <2>2, <2>3
<1>11. q \in States /\ q.bottom = o.bottom /\ q.rings = [o.rings EXCEPT ![n] = c]
  BY <1>1, <1>10 DEF States
<1>12. Active(q) = n /\ Current(q) = c  BY <1>10, <1>11 DEF Active, Current
<1>13. o.rings[n] = a  BY DEF a, Current
<1> HIDE DEF q, o, n
<1>14. \A k \in 1..n : (q.rings[k] = c /\ o.rings[k] = a) \/ q.rings[k] = o.rings[k]
  BY <1>10, <1>11, <1>13
<1>15. Follows(o, q)
  <2>1. Active(o) = n  BY DEF n
  <2> QED  BY <1>3, <1>9, <1>12, <1>14, <2>1 DEF Follows
<1>16. OnlyGiven(q, given)
  <2>1. OnlyGiven(o, given) /\ Active(o) = n  BY <1>5, KnownHere DEF o, n
  <2>2. ASSUME NEW k \in 1..Active(q), NEW i \in Int PROVE Get(q.rings[k], i) \in given \cup {Garbage}
    <3>1. k \in 1..n /\ Get(o.rings[k], i) \in given \cup {Garbage}  BY <1>12, <2>1 DEF OnlyGiven
    <3> QED  BY <1>6, <1>8, <1>14, <3>1
  <2> QED  BY <2>2 DEF OnlyGiven
<1>17. ASSUME NEW h \in Int, Kept(p, h)
       PROVE  /\ Extends(Stages(p), top[p], h, h, given, q)
              /\ OwnerKnows(q, top[p], h, given, loc[p], "pushBottom")
  <2>1. /\ o.bottom <= h /\ top[p] <= h /\ h <= top[p] + Size(a) - 1
        /\ Written(a, top[p], h)
    BY <1>17, KnownHere DEF a, o
  <2>2. /\ o.bottom >= -1 /\ o.bottom >= 0
        /\ loc[p].b = o.bottom /\ loc[p].t <= top[p]
        /\ loc[p].b - top[p] < Size(a) - 1
    BY <1>4, <1>17
  <2>3. Written(c, top[p], h)  BY <1>1, <1>9, <2>1 DEF Written
  <2>4. Extends(Stages(p), top[p], h, h, given, q)
    BY <1>1, <1>3, <1>7, <1>11, <1>12, <1>15, <1>16, <2>1, <2>2, <2>3 DEF Extends
  <2>5. OwnerKnows(q, top[p], h, given, loc[p], "pushBottom")
    BY <1>6, <1>7, <1>11, <1>12, <2>2 DEF OwnerKnows
  <2> QED  BY <2>4, <2>5
<1>18. /\ pc' \in [Threads -> Places] /\ loc' \in [Threads -> Locals] /\ Alone(p)
       /\ pc'[p] = "pushBottom" /\ loc'[p] = loc[p]
  BY <1>1, <1>2 DEF Shaped, Places, Alone
<1>19. TakenWasGiven' /\ taken' \in [Words -> Nat]  BY <1>2, TakenStays
<1>20. pc'[p] \notin Stealing  BY <1>18 DEF Stealing
<1> QED  BY <1>1, <1>2, <1>11, <1>17, <1>18, <1>19, <1>20, StoresOn

\* A store of bottom by p, which goes to place with locals l.
LEMMA BottomStores ==
  ASSUME BInv, NEW p \in Threads, NEW b \in Int, Store(p, [Own(p) EXCEPT !.bottom = b]),
         NEW l \in Locals, NEW place \in Places \ Stealing, Goes(p, l, place), l.tries <= Tries,
         UNCHANGED <<top, given, depth>>, TakenWasGiven', taken' \in [Words -> Nat],
         \A h \in Int : Kept(p, h) => \E m \in Int :
           /\ -1 <= b /\ h <= m /\ b <= m /\ m <= top[p] + Size(Current(Own(p))) - 1
           /\ Written(Current(Own(p)), top[p], m)
           /\ OwnerKnows([Own(p) EXCEPT !.bottom = b], top[p], m, given, l, place)
  PROVE  BInv'
<1> DEFINE q == [Own(p) EXCEPT !.bottom = b]
<1>1. Shaped /\ Own(p) \in States /\ Newest(Stages(p)) = Own(p)  BY StagesType DEF BInv
<1>2. /\ q \in States /\ q.bottom = b /\ Current(q) = Current(Own(p))
      /\ Follows(Own(p), q) /\ \A g : OnlyGiven(Own(p), g) => OnlyGiven(q, g)
  BY <1>1, BottomOnly
<1>3. Store(p, q)  OBVIOUS
<1> HIDE DEF q
<1>4. ASSUME NEW h \in Int, Kept(p, h)
      PROVE  \E m \in Int : /\ Extends(Stages(p), top[p], h, m, given, q)
                            /\ OwnerKnows(q, top[p], m, given, l, place)
  <2>1. OnlyGiven(Own(p), given)  BY <1>4, KnownHere
  <2>2. PICK m \in Int :
          /\ -1 <= b /\ h <= m /\ b <= m /\ m <= top[p] + Size(Current(Own(p))) - 1
          /\ Written(Current(Own(p)), top[p], m)
          /\ OwnerKnows(q, top[p], m, given, l, place)
    BY <1>4 DEF q
  <2>3. Extends(Stages(p), top[p], h, m, given, q)  BY <1>1, <1>2, <2>1, <2>2 DEF Extends
  <2> QED  BY <2>2, <2>3
<1>5. /\ pc' \in [Threads -> Places] /\ loc' \in [Threads -> Locals] /\ Alone(p)
      /\ pc'[p] = place /\ loc'[p] = l
  BY <1>1 DEF Shaped, Alone, Goes
<1> QED  BY <1>2, <1>3, <1>4, <1>5, StoresOn

\* The value at b is written: the mark rises to it at least.
LEMMA PushBottomGiven ==
  ASSUME BInv, NEW p \in Threads, PushBottom(p), depth' = depth
  PROVE  BInv'
<1> DEFINE o == Own(p)
           b == loc[p].b
<1>1. /\ Shaped /\ loc[p] \in Locals /\ b \in Int /\ o \in States /\ top[p] \in Nat
      /\ NoLocals \in Locals /\ NoLocals.tries <= Tries /\ b + 1 \in Int
  BY StagesType, WSDequeAssumption DEF BInv, Shaped, Locals, NoLocals, Words
<1>2. /\ pc[p] = "pushBottom" /\ Store(p, [o EXCEPT !.bottom = b + 1])
      /\ Goes(p, NoLocals, "idle") /\ UNCHANGED <<top, given, taken>>
  BY DEF PushBottom, Goto, At, Goes
<1>3. /\ o.bottom \in Int /\ Size(Current(o)) \in Nat
      /\ [o EXCEPT !.bottom = b + 1].bottom = b + 1
  BY <1>1, StateType, BottomOnly
<1>4. TakenWasGiven' /\ taken' \in [Words -> Nat]  BY <1>2, TakenStays
<1>5. ASSUME NEW h \in Int, Kept(p, h)
      PROVE  \E m \in Int :
               /\ -1 <= b + 1 /\ h <= m /\ b + 1 <= m /\ m <= top[p] + Size(Current(o)) - 1
               /\ Written(Current(o), top[p], m)
               /\ OwnerKnows([o EXCEPT !.bottom = b + 1], top[p], m, given, NoLocals, "idle")
  <2>1. /\ o.bottom <= h /\ top[p] <= h /\ h <= top[p] + Size(Current(o)) - 1
        /\ Written(Current(o), top[p], h)
        /\ b = o.bottom /\ b - top[p] < Size(Current(o)) - 1 /\ Get(Current(o), b) # Garbage
        /\ o.bottom >= 0
    BY <1>2, <1>5, KnownHere DEF OwnerKnows
  <2> DEFINE m == IF h <= b THEN b + 1 ELSE h
  <2>2. m \in Int /\ -1 <= b + 1 /\ h <= m /\ b + 1 <= m /\ m <= top[p] + Size(Current(o)) - 1
    BY <1>1, <1>3, <2>1
  <2>3. \A i \in top[p]..(m - 1) : i = b \/ i \in top[p]..(h - 1)
    BY <1>1, <1>3, <2>1
  <2>4. Written(Current(o), top[p], m)  BY <2>1, <2>3 DEF Written
  <2>5. OwnerKnows([o EXCEPT !.bottom = b + 1], top[p], m, given, NoLocals, "idle")
    BY <1>1, <1>3, <2>1 DEF OwnerKnows
  <2> HIDE DEF m
  <2> QED  BY <2>2, <2>4, <2>5
<1>6. "idle" \in Places \ Stealing  BY DEF Places, Stealing
<1> HIDE DEF o, b
<1> QED  BY <1>1, <1>2, <1>4, <1>5, <1>6, BottomStores DEF o

\* The owner lowers bottom, below the mark.
LEMMA PopBottomGiven ==
  ASSUME BInv, NEW p \in Threads, PopBottom(p), depth' = depth
  PROVE  BInv'
<1> DEFINE o == Own(p)
           b == o.bottom - 1
<1>1. /\ Shaped /\ loc[p] \in Locals /\ loc[p].tries <= Tries /\ o \in States
  BY StagesType DEF BInv, Shaped
<1>2. o.bottom \in Int /\ b \in Int  BY <1>1, StateType
<1>3. /\ pc[p] = "popBottom" /\ Store(p, [o EXCEPT !.bottom = b])
      /\ Goes(p, loc[p], "popTop") /\ UNCHANGED <<top, given, taken>>
  BY <1>1 DEF PopBottom, Goto, At, Goes, Shaped
<1>4. [o EXCEPT !.bottom = b].bottom = b  BY <1>1, <1>2, BottomOnly
<1>5. TakenWasGiven' /\ taken' \in [Words -> Nat]  BY <1>3, TakenStays
<1>6. ASSUME NEW h \in Int, Kept(p, h)
      PROVE  \E m \in Int :
               /\ -1 <= b /\ h <= m /\ b <= m /\ m <= top[p] + Size(Current(o)) - 1
               /\ Written(Current(o), top[p], m)
               /\ OwnerKnows([o EXCEPT !.bottom = b], top[p], m, given, loc[p], "popTop")
  <2>1. /\ o.bottom <= h /\ h <= top[p] + Size(Current(o)) - 1
        /\ Written(Current(o), top[p], h) /\ o.bottom >= 0
    BY <1>3, <1>6, KnownHere DEF OwnerKnows
  <2>2. h <= h /\ b <= h /\ b < h /\ -1 <= b /\ b >= -1  BY <1>2, <2>1
  <2>3. OwnerKnows([o EXCEPT !.bottom = b], top[p], h, given, loc[p], "popTop")
    BY <1>4, <2>2 DEF OwnerKnows
  <2> QED  BY <2>1, <2>2, <2>3
<1>7. "popTop" \in Places \ Stealing  BY DEF Places, Stealing
<1> HIDE DEF b
<1> QED  BY <1>1, <1>2, <1>3, <1>5, <1>6, <1>7, BottomStores

\* bottom is set to the top that the owner has read.
LEMMA PopResetGiven ==
  ASSUME BInv, NEW p \in Threads, PopReset(p), depth' = depth
  PROVE  BInv'
<1> DEFINE o == Own(p)
           b == loc[p].t
<1>0. /\ Shaped /\ loc[p] \in Locals /\ loc[p].tries <= Tries /\ o \in States /\ top[p] \in Nat
  BY StagesType DEF BInv, Shaped
<1>1. /\ Shaped /\ loc[p] \in Locals /\ loc[p].tries <= Tries /\ o \in States
      /\ b \in Nat /\ b \in Int /\ top[p] \in Nat
  BY <1>0 DEF Locals
<1>2. /\ pc[p] = "popReset" /\ Store(p, [o EXCEPT !.bottom = b])
      /\ Goes(p, loc[p], "choose") /\ UNCHANGED <<top, given, taken>>
  BY <1>1 DEF PopReset, Goto, At, Goes, Shaped
<1>3. [o EXCEPT !.bottom = b].bottom = b  BY <1>1, BottomOnly
<1>4. TakenWasGiven' /\ taken' \in [Words -> Nat]  BY <1>2, TakenStays
<1>5. ASSUME NEW h \in Int, Kept(p, h)
      PROVE  \E m \in Int :
               /\ -1 <= b /\ h <= m /\ b <= m /\ m <= top[p] + Size(Current(o)) - 1
               /\ Written(Current(o), top[p], m)
               /\ OwnerKnows([o EXCEPT !.bottom = b], top[p], m, given, loc[p], "choose")
  <2>1. /\ top[p] <= h /\ h <= top[p] + Size(Current(o)) - 1
        /\ Written(Current(o), top[p], h) /\ b <= top[p]
    BY <1>2, <1>5, KnownHere DEF OwnerKnows
  <2>2. h <= h /\ b <= h /\ b >= 0 /\ -1 <= b /\ b >= -1  BY <1>1, <2>1
  <2>3. OwnerKnows([o EXCEPT !.bottom = b], top[p], h, given, loc[p], "choose")
    BY <1>3, <2>2 DEF OwnerKnows
  <2> QED  BY <2>1, <2>2, <2>3
<1>6. "choose" \in Places \ Stealing  BY DEF Places, Stealing
<1> HIDE DEF b
<1> QED  BY <1>1, <1>2, <1>4, <1>5, <1>6, BottomStores

\* The owner returns its last value; bottom is set back to where it was before the pop.
LEMMA PopLastGiven ==
  ASSUME BInv, NEW p \in Threads, PopLast(p), depth' = depth
  PROVE  BInv'
<1> DEFINE o == Own(p)
           b == loc[p].t + 1
<1>0. Shaped /\ loc[p] \in Locals /\ o \in States
  BY StagesType DEF BInv
<1>1. /\ Shaped /\ loc[p] \in Locals /\ o \in States /\ loc[p].t \in Nat /\ b \in Int
      /\ loc[p].val \in Words
  BY <1>0 DEF Locals
<1>2. /\ pc[p] = "popLast" /\ Store(p, [o EXCEPT !.bottom = b])
      /\ Answer(p, loc[p].val) /\ UNCHANGED <<top, given>>
  BY DEF PopLast, At
<1>3. [o EXCEPT !.bottom = b].bottom = b  BY <1>1, BottomOnly
<1>4. loc[p].val \in given
  <2>1. PICK h \in Int : Kept(p, h)  BY DEF BInv
  <2> QED  BY <1>2, <2>1, KnownHere DEF OwnerKnows
<1>5. /\ TakenWasGiven' /\ taken' \in [Words -> Nat] /\ Goes(p, NoLocals, "idle")
      /\ NoLocals \in Locals /\ NoLocals.tries <= Tries
  BY <1>1, <1>2, <1>4, AnswerGiven
<1>6. ASSUME NEW h \in Int, Kept(p, h)
      PROVE  \E m \in Int :
               /\ -1 <= b /\ h <= m /\ b <= m /\ m <= top[p] + Size(Current(o)) - 1
               /\ Written(Current(o), top[p], m)
               /\ OwnerKnows([o EXCEPT !.bottom = b], top[p], m, given, NoLocals, "idle")
  <2>1. /\ h <= top[p] + Size(Current(o)) - 1
        /\ Written(Current(o), top[p], h) /\ loc[p].t < h
    BY <1>2, <1>6, KnownHere DEF OwnerKnows
  <2>2. h <= h /\ b <= h /\ b >= 0 /\ -1 <= b /\ b >= -1  BY <1>1, <2>1
  <2>3. OwnerKnows([o EXCEPT !.bottom = b], top[p], h, given, NoLocals, "idle")
    BY <1>3, <2>2 DEF OwnerKnows
  <2> QED  BY <2>1, <2>2, <2>3
<1>7. "idle" \in Places \ Stealing  BY DEF Places, Stealing
<1> HIDE DEF b
<1> QED  BY <1>1, <1>2, <1>5, <1>6, <1>7, BottomStores

\* A store reaches memory: the oldest stage is over.
LEMMA DrainGiven ==
  ASSUME BInv, NEW p \in Threads, Drain(p), depth' = depth
  PROVE  BInv'
<1>1. Shaped  BY DEF BInv
<1>2. /\ buffer[p] # <<>> /\ buffer[p] \in Seq(States) /\ seen[p] \in States
      /\ seen' = [seen EXCEPT ![p] = Head(buffer[p])]
      /\ buffer' = [buffer EXCEPT ![p] = Tail(buffer[p])]
      /\ UNCHANGED <<top, pc, loc, given, taken>>
  BY <1>1 DEF Drain, Shaped
<1>3. Head(buffer[p]) \in States /\ Tail(buffer[p]) \in Seq(States)  BY <1>2, HeadTailProperties
<1>4. /\ seen' \in [Threads -> States] /\ buffer' \in [Threads -> Seq(States)]
      /\ seen'[p] = Head(buffer[p]) /\ buffer'[p] = Tail(buffer[p])
      /\ \A d \in Threads \ {p} : seen'[d] = seen[d] /\ buffer'[d] = buffer[d]
  BY <1>1, <1>2, <1>3 DEF Shaped
<1>5. Shaped'  BY <1>1, <1>2, <1>4 DEF Shaped
<1>6. Stages(p)' = Tail(Stages(p))
  <2> DEFINE S == Stages(p)
             H == <<Head(buffer[p])>>
  <2>1. S \in Seq(States) /\ Len(S) = Len(buffer[p]) + 1 /\ S # <<>>
    BY <1>1, StagesType
  <2>2. \A i \in 1..Len(buffer[p]) : S[i + 1] = buffer[p][i]
    BY <1>2 DEF Stages
  <2>3. Tail(S) \in Seq(States) /\ Len(Tail(S)) = Len(buffer[p]) /\ \A i \in 1..Len(buffer[p]) : Tail(S)[i] = buffer[p][i]
    <3> HIDE DEF S
    <3>0. Len(buffer[p]) \in Nat  BY <1>2
    <3>1. Tail(S) \in Seq(States) /\ Len(Tail(S)) = Len(S) - 1 /\ \A i \in 1..Len(Tail(S)) : Tail(S)[i] = S[i + 1]
      BY <2>1, HeadTailProperties
    <3> QED  BY <2>1, <2>2, <3>0, <3>1
  <2> HIDE DEF S
  <2>4. Tail(S) = buffer[p]  BY <1>2, <2>3, SeqEqual
  <2>5. H \o Tail(buffer[p]) = buffer[p]
    <3>1. H \in Seq(States) /\ Len(H) = 1 /\ H[1] = Head(buffer[p]) /\ Len(buffer[p]) \in Nat
      BY <1>2, <1>3
    <3>2. /\ Len(Tail(buffer[p])) = Len(buffer[p]) - 1 /\ Head(buffer[p]) = buffer[p][1]
          /\ \A i \in 1..Len(Tail(buffer[p])) : Tail(buffer[p])[i] = buffer[p][i + 1]
      BY <1>2, HeadTailProperties
    <3> DEFINE C == H \o Tail(buffer[p])
    <3> HIDE DEF H
    <3>3. /\ C \in Seq(States) /\ Len(C) = Len(H) + Len(Tail(buffer[p]))
          /\ \A i \in 1..Len(H) + Len(Tail(buffer[p])) :
               C[i] = IF i <= Len(H) THEN H[i] ELSE Tail(buffer[p])[i - Len(H)]
      BY <1>3, <3>1, ConcatProperties
    <3> HIDE DEF C
    <3>4. Len(C) = Len(buffer[p])  BY <3>1, <3>2, <3>3
    <3>5. ASSUME NEW i \in 1..Len(C) PROVE C[i] = buffer[p][i]
      <4>1. CASE i = 1  BY <3>1, <3>2, <3>3, <3>4, <4>1
      <4>2. CASE i # 1
        <5>1. i - 1 \in 1..Len(Tail(buffer[p])) /\ (i - 1) + 1 = i  BY <3>1, <3>2, <3>4, <4>2
        <5>2. C[i] = Tail(buffer[p])[i - 1]  BY <3>1, <3>2, <3>3, <3>4, <4>2
        <5> QED  BY <3>2, <5>1, <5>2
      <4> QED  BY <4>1, <4>2
    <3>6. C = buffer[p]  BY <1>2, <3>3, <3>4, <3>5, SeqEqual
    <3> QED  BY <3>6 DEF C
  <2>6. Stages(p)' = H \o Tail(buffer[p])  BY <1>4 DEF Stages
  <2> QED  BY <2>4, <2>5, <2>6 DEF S
<1>7. ASSUME NEW d \in Threads PROVE \E h \in Int : Kept(d, h)'
  <2>1. PICK h \in Int : Kept(d, h)  BY DEF BInv
  <2>2. /\ Sound(Stages(d), top[d], h, given)
        /\ OwnerKnows(Newest(Stages(d)), top[d], h, given, loc[d], pc[d])
        /\ \A q \in Threads : pc[q] \in Stealing /\ loc[q].from = d =>
             ThiefKnows(Stages(d), top[d], h, given, loc[q], pc[q])
    BY <2>1 DEF Kept
  <2>3. /\ Newest(Stages(d)') = Newest(Stages(d)) /\ Sound(Stages(d)', top[d], h, given)
        /\ \A l, place : ThiefKnows(Stages(d), top[d], h, given, l, place) => ThiefKnows(Stages(d)', top[d], h, given, l, place)
    <3>1. CASE d # p
      <4>1. Stages(d)' = Stages(d)  BY <1>4, <3>1 DEF Stages
      <4> QED  BY <2>2, <4>1
    <3>2. CASE d = p
      <4>1. Stages(p) \in Seq(States) /\ Len(Stages(p)) = Len(buffer[p]) + 1 /\ top[p] \in Nat
        BY <1>1, StagesType
      <4>2. Len(Stages(p)) > 1  BY <1>2, <4>1
      <4>3. /\ Newest(Tail(Stages(p))) = Newest(Stages(p))
            /\ Sound(Stages(p), top[p], h, given) => Sound(Tail(Stages(p)), top[p], h, given)
            /\ \A l, place : ThiefKnows(Stages(p), top[p], h, given, l, place)
                               => ThiefKnows(Tail(Stages(p)), top[p], h, given, l, place)
        BY <4>1, <4>2, TailKnown
      <4> QED  BY <1>6, <2>2, <3>2, <4>3
    <3> QED  BY <3>1, <3>2
  <2>4. Kept(d, h)'  BY <1>2, <2>2, <2>3 DEF Kept
  <2> QED  BY <2>4
<1>8. TakenWasGiven'  BY <1>2, TakenStays
<1> QED  BY <1>5, <1>7, <1>8 DEF BInv

-----------------------------------------------------------------------------
(* The theorems for every depth. *)

\* In the initial states nothing is written and nothing is stolen: the mark is 0.
LEMMA InitGiven ==
  ASSUME Init
  PROVE  BInv
<1>1. Inv /\ Typed  BY InitInv DEF Inv
<1>2. Shaped
  <2>1. depth \in Nat  BY WSDequeAssumption DEF Init
  <2>2. \A p \in Threads : loc[p].tries <= Tries /\ pc[p] \notin Stealing
    BY WSDequeAssumption DEF Init, NoLocals, Stealing
  <2>3. buffer \in [Threads -> Seq(States)] /\ \A d \in Threads : buffer[d] = <<>>
    BY DEF Init
  <2> QED  BY <1>1, <2>1, <2>2, <2>3 DEF Shaped, Typed
<1>3. ASSUME NEW d \in Threads PROVE Kept(d, 0)
  <2>1. /\ Stages(d) \in Seq(States) /\ Len(Stages(d)) = 1 /\ Newest(Stages(d)) = NewDeque
        /\ Stages(d)[1] = NewDeque /\ NewDeque \in States
    <3>1. buffer[d] = <<>> /\ seen[d] = NewDeque  BY DEF Init
    <3>2. Len(buffer[d]) = 0  BY <3>1
    <3>3. /\ Stages(d) \in Seq(States) /\ Len(Stages(d)) = Len(buffer[d]) + 1
          /\ Stages(d)[1] = seen[d] /\ seen[d] \in States
      BY <1>2, StagesType
    <3> QED  BY <3>1, <3>2, <3>3 DEF Newest
  <2>2. /\ NewDeque.bottom = 0 /\ Active(NewDeque) = 1 /\ Current(NewDeque) = Ring(RingSize)
        /\ NewDeque.rings[1] = Ring(RingSize)
        /\ Size(Ring(RingSize)) \in Nat /\ Size(Ring(RingSize)) > 1
    BY <2>1, StateType DEF NewDeque, Active, Current
  <2>3. \A i \in Int : Get(Ring(RingSize), i) = Garbage
    <3>1. RingSize \in Nat /\ RingSize > 1  BY WSDequeAssumption
    <3>2. DOMAIN Ring(RingSize) = 0..(RingSize - 1)  BY DEF Ring
    <3>3. Size(Ring(RingSize)) = RingSize  BY <3>1, <3>2, FS_Interval DEF Size
    <3>4. \A i \in Int : i % RingSize \in 0..(RingSize - 1)  BY <3>1, RemainderRange
    <3> QED  BY <3>3, <3>4 DEF Get, Ring
  <2>4. OnlyGiven(NewDeque, given)  BY <2>2, <2>3 DEF OnlyGiven
  <2>5. Follows(NewDeque, NewDeque)  BY <2>1, FollowsOn
  <2>6. \A a : Written(a, 0, 0)  BY DEF Written
  <2>7. top[d] = 0 /\ pc[d] = "idle"  BY DEF Init
  <2>8. Sound(Stages(d), top[d], 0, given)
    BY <2>1, <2>2, <2>4, <2>5, <2>6, <2>7 DEF Sound
  <2>9. OwnerKnows(Newest(Stages(d)), top[d], 0, given, loc[d], pc[d])
    BY <2>1, <2>2, <2>7 DEF OwnerKnows
  <2>10. \A p \in Threads : pc[p] \notin Stealing  BY DEF Init, Stealing
  <2> QED  BY <2>8, <2>9, <2>10 DEF Kept
<1> QED  BY <1>1, <1>2, <1>3 DEF BInv, Inv, Contents0

\* Every step keeps the invariant.
LEMMA NextGiven ==
  ASSUME BInv, [Next]_vars
  PROVE  BInv'
<1>1. CASE UNCHANGED vars
  <2>1. \A d : Stages(d)' = Stages(d)  BY <1>1 DEF vars, Stages
  <2>2. \A d, h : Kept(d, h)' = Kept(d, h)  BY <1>1, <2>1 DEF vars, Kept
  <2> QED  BY <1>1, <2>2 DEF vars, BInv, Shaped, TakenWasGiven
<1>2. ASSUME NEW p \in Threads, Step(p), depth' = depth
      PROVE  BInv'
  <2>1. CASE PushTop(p) \/ PushGrow(p) \/ PushPut(p) \/ PushBottom(p)
    BY <1>2, <2>1, PushTopGiven, PushGrowGiven, PushPutGiven, PushBottomGiven
  <2>2. CASE PopBottom(p) \/ PopTop(p) \/ PopReset(p) \/ PopCas(p) \/ PopLast(p)
    BY <1>2, <2>2, PopBottomGiven, PopTopGiven, PopResetGiven, PopCasGiven, PopLastGiven
  <2>3. CASE Choose(p) \/ StealTop(p) \/ StealBottom(p) \/ StealRing(p)
    BY <1>2, <2>3, ChooseGiven, StealTopGiven, StealBottomGiven, StealRingGiven
  <2>4. CASE StealReserved(p) \/ StealGet(p) \/ StealCas(p)
    BY <1>2, <2>4, StealReservedGiven, StealGetGiven, StealCasGiven
  <2> QED  BY <1>2, <2>1, <2>2, <2>3, <2>4 DEF Step
<1>3. ASSUME NEW p \in Threads, Drain(p), depth' = depth PROVE BInv'
  BY <1>3, DrainGiven
<1>4. ASSUME NEW p \in Threads, Dequeue(p), depth' = depth PROVE BInv'
  BY <1>4, DequeueGiven
<1>5. ASSUME NEW p \in Threads, NEW v \in Values, Enqueue(p, v), depth' = depth PROVE BInv'
  BY <1>5, EnqueueGiven
<1> QED  BY <1>1, <1>2, <1>3, <1>4, <1>5 DEF Next

\* The invariant holds for any number of threads, of values, of tries and of pending stores
\* and for any size of the first ring.
LEMMA BufferedInvariance ==
  Spec => []BInv
<1>1. Init => BInv  BY InitGiven
<1>2. BInv /\ [Next]_vars => BInv'  BY NextGiven
<1> QED  BY <1>1, <1>2, PTL DEF Spec

\* What a dequeue returns was enqueued, on every machine: however many stores of an owner
\* are pending, no slot is read that was never written, in a new ring or in one that has
\* been replaced.
THEOREM TakenGiven ==
  Spec => []TakenWasGiven
<1>1. BInv => TakenWasGiven  BY DEF BInv
<1> QED  BY <1>1, BufferedInvariance, PTL

\* Every variable has its type on every machine, and bottom never falls further than one
\* below the first top.
THEOREM TypeCorrect ==
  Spec => []TypeOK
<1>1. ASSUME BInv PROVE TypeOK
  <2>1. Shaped  BY <1>1 DEF BInv
  <2>2. ASSUME NEW d \in Threads, NEW q \in {seen[d], Own(d)}
        PROVE  q.bottom \in Int /\ q.bottom >= -1 /\ Active(q) > 0
    <3>1. seen[d] \in States /\ Own(d) \in States  BY <2>1, StagesType
    <3>2. q \in States  BY <2>2, <3>1
    <3>3. q.bottom \in Int  BY <3>2, StateType
    <3>4. PICK h \in Int : Kept(d, h)  BY <1>1 DEF BInv
    <3>5. /\ Stages(d)[1] = seen[d] /\ Stages(d)[Len(Stages(d))] = Own(d)
          /\ Len(Stages(d)) \in Nat /\ Len(Stages(d)) > 0
      BY <2>1, StagesType DEF Newest
    <3>6. 1 \in 1..Len(Stages(d)) /\ Len(Stages(d)) \in 1..Len(Stages(d))  BY <3>5
    <3>7. -1 <= seen[d].bottom /\ -1 <= Own(d).bottom  BY <3>4, <3>5, <3>6 DEF Kept, Sound
    <3>8. -1 <= q.bottom  BY <2>2, <3>7
    <3>9. q.bottom >= -1  BY <3>3, <3>8
    <3> QED  BY <3>2, <3>9, StateType
  <2>3. ASSUME NEW p \in Threads
        PROVE  /\ loc[p].val \in Words /\ loc[p].ring \in Nat
               /\ loc[p].from \in Threads \cup {Empty} /\ loc[p].tries <= Tries
    BY <2>1 DEF Shaped, Locals
  <2> QED  BY <2>1, <2>2, <2>3 DEF TypeOK, Shaped
<1> QED  BY <1>1, BufferedInvariance, PTL
=============================================================================
