------------------------------ MODULE WSDeque ------------------------------
(***************************************************************************)
(* WSDeque<T> (src/deque/WSDeque.hpp), the work-stealing deques: a thread  *)
(* pushes and pops at the bottom of its own deque, and steals at the top   *)
(* of another one when its own gives nothing.                              *)
(*                                                                         *)
(* bottom and the ring are stored with memory_order_relaxed and release,   *)
(* plain moves in the x86 build: they may reach memory after the loads     *)
(* that follow them in the program.  What the owner has written is own[d], *)
(* what the others see is seen[d], and the store buffer holds the states   *)
(* in between, oldest first.  The CAS of top and the reservation of        *)
(* HazardTracker (a sequentially consistent store) wait for an empty       *)
(* buffer.  A machine of depth 0 has none: every store is visible at once. *)
(*                                                                         *)
(* Rings are never freed: that is the promise of HazardTracker.            *)
(***************************************************************************)
EXTENDS Integers, Sequences, SequencesExt

CONSTANTS
  Threads,     \* the threads; each owns one deque
  Values,      \* the values enqueued, all different
  Empty,       \* m_empty
  Garbage,     \* the content of a new array
  RingSize,    \* the size of the first ring, 1 << 10 in the code
  Tries,       \* the deques a dequeue tries to steal from, 10 in the code
  StoreBuffers \* the machines: how many stores of a thread may be pending

ASSUME WSDequeAssumption ==
  /\ Empty \notin Values /\ Garbage \notin Values \cup {Empty}
  /\ RingSize \in Nat /\ RingSize > 1
  /\ Tries \in Nat
  /\ StoreBuffers \subseteq Nat

VARIABLES
  top,     \* m_nTop of every deque
  seen,    \* m_nBottom, m_pActiveArray and the rings of every deque, in memory
  buffer,  \* the states of these that the owner's stores will bring about
  pc,      \* where each thread is; "idle" outside the deques
  loc,     \* its locals
  given,   \* auxiliary: the values whose enqueue has been called
  taken,   \* auxiliary: how often each word has been returned by a dequeue
  depth    \* the machine: how many stores of a thread may be pending

vars == <<top, seen, buffer, pc, loc, given, taken, depth>>

-----------------------------------------------------------------------------
(* Rings: ring number k has RingSize * 2^(k-1) slots. *)

Ring(n) == [i \in 0..(n - 1) |-> Garbage]
Size(a) == Cardinality(DOMAIN a)
Get(a, i) == a[i % Size(a)]
Put(a, i, v) == [a EXCEPT ![i % Size(a)] = v]

\* Mutant of Grow: the value at top is not copied.
GrowWithoutTop(a, b, t) ==
  LET n == 2 * Size(a)
  IN [j \in 0..(n - 1) |->
        IF \E i \in (t + 1)..(b - 1) : i % n = j
          THEN Get(a, CHOOSE i \in (t + 1)..(b - 1) : i % n = j) ELSE Garbage]

\* ring_t::grow copies the slots of b-t values.
Grow(a, b, t) ==
  LET n == 2 * Size(a)
  IN [j \in 0..(n - 1) |->
        IF \E i \in t..(b - 1) : i % n = j
          THEN Get(a, CHOOSE i \in t..(b - 1) : i % n = j) ELSE Garbage]

\* A deque as its owner or the others see it.
NewDeque == [bottom |-> 0, rings |-> <<Ring(RingSize)>>]
Active(q) == Len(q.rings)   \* m_pActiveArray: grow always activates the new ring
Current(q) == q.rings[Active(q)]

\* What the owner of d reads of its own stores.
Own(d) == IF buffer[d] = <<>> THEN seen[d] ELSE Last(buffer[d])

\* The owner of d stores, which makes its deque q.
Store(d, q) ==
  IF depth = 0
    THEN seen' = [seen EXCEPT ![d] = q] /\ UNCHANGED buffer
    ELSE /\ Len(buffer[d]) < depth
         /\ buffer' = [buffer EXCEPT ![d] = Append(@, q)]
         /\ UNCHANGED seen

\* One of its stores reaches memory.
Drain(d) ==
  /\ buffer[d] # <<>>
  /\ seen' = [seen EXCEPT ![d] = Head(buffer[d])]
  /\ buffer' = [buffer EXCEPT ![d] = Tail(@)]
  /\ UNCHANGED <<top, pc, loc, given, taken>>

-----------------------------------------------------------------------------
Words == Values \cup {Empty, Garbage}

NoLocals == [val |-> Empty, b |-> 0, t |-> 0, ring |-> 1, from |-> Empty, tries |-> 0]

Init ==
  /\ top = [d \in Threads |-> 0]
  /\ seen = [d \in Threads |-> NewDeque]
  /\ buffer = [d \in Threads |-> <<>>]
  /\ pc = [t \in Threads |-> "idle"]
  /\ loc = [t \in Threads |-> NoLocals]
  /\ given = {}
  /\ taken = [v \in Words |-> 0]
  /\ depth \in StoreBuffers

Goto(p, l) == pc' = [pc EXCEPT ![p] = l]
At(p, l) == pc[p] = l

(* push, by the owner p. *)

Enqueue(p, v) ==
  /\ At(p, "idle") /\ v \notin given
  /\ given' = given \cup {v}
  /\ loc' = [loc EXCEPT ![p].val = v]
  /\ Goto(p, "pushTop")
  /\ UNCHANGED <<top, seen, buffer, taken>>

\* Mutant of Full: the ring is filled beyond its last slot.
FullTooLate(p, t) == Own(p).bottom - t > Size(Current(Own(p)))

Full(p, t) == Own(p).bottom - t >= Size(Current(Own(p))) - 1

PushTop(p) ==
  /\ At(p, "pushTop")
  /\ loc' = [loc EXCEPT ![p].b = Own(p).bottom, ![p].t = top[p]]
  /\ Goto(p, IF Full(p, top[p]) THEN "pushGrow" ELSE "pushPut")
  /\ UNCHANGED <<top, seen, buffer, given, taken>>

\* The new ring becomes active, the old one is retired.
PushGrow(p) ==
  /\ At(p, "pushGrow")
  /\ Store(p, [Own(p) EXCEPT !.rings = Append(@, Grow(Current(Own(p)), loc[p].b, loc[p].t))])
  /\ Goto(p, "pushPut")
  /\ UNCHANGED <<top, loc, given, taken>>

PushPut(p) ==
  /\ At(p, "pushPut")
  /\ Store(p, [Own(p) EXCEPT !.rings[Active(Own(p))] = Put(@, loc[p].b, loc[p].val)])
  /\ Goto(p, "pushBottom")
  /\ UNCHANGED <<top, loc, given, taken>>

PushBottom(p) ==
  /\ At(p, "pushBottom")
  /\ Store(p, [Own(p) EXCEPT !.bottom = loc[p].b + 1])
  /\ loc' = [loc EXCEPT ![p] = NoLocals]
  /\ Goto(p, "idle")
  /\ UNCHANGED <<top, given, taken>>

(* pop, by the owner p. *)

\* The dequeue of p ends with v.
Answer(p, v) ==
  /\ taken' = [taken EXCEPT ![v] = @ + 1]
  /\ loc' = [loc EXCEPT ![p] = NoLocals]
  /\ Goto(p, "idle")

Dequeue(p) ==
  /\ At(p, "idle")
  /\ Goto(p, "popBottom")
  /\ UNCHANGED <<top, seen, buffer, loc, given, taken>>

PopBottom(p) ==
  /\ At(p, "popBottom")
  /\ Store(p, [Own(p) EXCEPT !.bottom = @ - 1])
  /\ Goto(p, "popTop")
  /\ UNCHANGED <<top, loc, given, taken>>

\* The value at b, when b is not above the top of a non-empty deque.
PopTop(p) ==
  /\ At(p, "popTop")
  /\ LET b == Own(p).bottom
         t == top[p]
         o == Get(Current(Own(p)), b)
     IN \/ /\ b < t
           /\ loc' = [loc EXCEPT ![p].t = t]
           /\ Goto(p, "popReset") /\ UNCHANGED taken
        \/ b > t /\ Answer(p, o)
        \/ /\ b = t
           /\ loc' = [loc EXCEPT ![p].val = o, ![p].t = t]
           /\ Goto(p, "popCas") /\ UNCHANGED taken
  /\ UNCHANGED <<top, seen, buffer, given>>

\* Mutant of PopReset: bottom stays below top after a pop of an empty deque.
PopWithoutReset(p) ==
  /\ At(p, "popReset")
  /\ Goto(p, "choose")
  /\ UNCHANGED <<top, seen, buffer, loc, given, taken>>

PopReset(p) ==
  /\ At(p, "popReset")
  /\ Store(p, [Own(p) EXCEPT !.bottom = loc[p].t])
  /\ Goto(p, "choose")
  /\ UNCHANGED <<top, loc, given, taken>>

\* Mutant of PopCas: the result of the CAS is ignored.
PopCasIgnored(p) ==
  /\ At(p, "popCas") /\ buffer[p] = <<>>
  /\ top' = [top EXCEPT ![p] = IF @ = loc[p].t THEN @ + 1 ELSE @]
  /\ Goto(p, "popLast")
  /\ UNCHANGED <<seen, buffer, loc, given, taken>>

\* The last value: a thief may win it.  bottom is left where PopBottom put it then.
PopCas(p) ==
  /\ At(p, "popCas") /\ buffer[p] = <<>>
  /\ IF top[p] = loc[p].t
       THEN top' = [top EXCEPT ![p] = @ + 1] /\ Goto(p, "popLast")
       ELSE UNCHANGED top /\ Goto(p, "choose")
  /\ UNCHANGED <<seen, buffer, loc, given, taken>>

PopLast(p) ==
  /\ At(p, "popLast")
  /\ Store(p, [Own(p) EXCEPT !.bottom = loc[p].t + 1])
  /\ Answer(p, loc[p].val)
  /\ UNCHANGED <<top, given>>

(* steal, by p. *)

\* A deque at random, Tries times: its own counts as a try.
Choose(p) ==
  /\ At(p, "choose")
  /\ IF loc[p].tries = Tries
       THEN Answer(p, Empty)
       ELSE /\ \E d \in Threads :
                 /\ loc' = [loc EXCEPT ![p].from = d, ![p].tries = @ + 1]
                 /\ Goto(p, IF d = p THEN "choose" ELSE "stealTop")
            /\ UNCHANGED taken
  /\ UNCHANGED <<top, seen, buffer, given>>

StealTop(p) ==
  /\ At(p, "stealTop")
  /\ loc' = [loc EXCEPT ![p].t = top[loc[p].from]]
  /\ Goto(p, "stealBottom")
  /\ UNCHANGED <<top, seen, buffer, given, taken>>

StealBottom(p) ==
  /\ At(p, "stealBottom")
  /\ loc' = [loc EXCEPT ![p].b = seen[loc[p].from].bottom]
  /\ Goto(p, "stealRing")
  /\ UNCHANGED <<top, seen, buffer, given, taken>>

StealRing(p) ==
  /\ At(p, "stealRing")
  /\ loc' = [loc EXCEPT ![p].ring = Active(seen[loc[p].from])]
  /\ Goto(p, "stealReserved")
  /\ UNCHANGED <<top, seen, buffer, given, taken>>

\* Is there a value between the t and b it has loaded?
Stealable(p) == loc[p].b - loc[p].t > 0

\* After the reservation: start again if the ring has been replaced.
StealReserved(p) ==
  /\ At(p, "stealReserved") /\ buffer[p] = <<>>
  /\ Goto(p, IF loc[p].ring # Active(seen[loc[p].from]) THEN "stealTop"
             ELSE IF Stealable(p) THEN "stealGet" ELSE "choose")
  /\ UNCHANGED <<top, seen, buffer, loc, given, taken>>

StealGet(p) ==
  /\ At(p, "stealGet")
  /\ loc' = [loc EXCEPT ![p].val = Get(seen[loc[p].from].rings[loc[p].ring], loc[p].t)]
  /\ Goto(p, "stealCas")
  /\ UNCHANGED <<top, seen, buffer, given, taken>>

StealCas(p) ==
  /\ At(p, "stealCas") /\ buffer[p] = <<>>
  /\ IF top[loc[p].from] = loc[p].t
       THEN top' = [top EXCEPT ![loc[p].from] = @ + 1] /\ Answer(p, loc[p].val)
       ELSE Goto(p, "choose") /\ UNCHANGED <<top, loc, taken>>
  /\ UNCHANGED <<seen, buffer, given>>

-----------------------------------------------------------------------------
Step(p) ==
  \/ PushTop(p) \/ PushGrow(p) \/ PushPut(p) \/ PushBottom(p)
  \/ PopBottom(p) \/ PopTop(p) \/ PopReset(p) \/ PopCas(p) \/ PopLast(p)
  \/ Choose(p) \/ StealTop(p) \/ StealBottom(p) \/ StealRing(p) \/ StealReserved(p)
  \/ StealGet(p) \/ StealCas(p)

Next ==
  /\ \E p \in Threads :
       Step(p) \/ Drain(p) \/ Dequeue(p) \/ \E v \in Values : Enqueue(p, v)
  /\ UNCHANGED depth

Spec == Init /\ [][Next]_vars

-----------------------------------------------------------------------------
\* Every variable has its type, and bottom never falls further than one below the first top.
TypeOK ==
  /\ top \in [Threads -> Nat]
  /\ \A d \in Threads : \A q \in {seen[d], Own(d)} :
       q.bottom \in Int /\ q.bottom >= -1 /\ Active(q) > 0
  /\ \A p \in Threads : /\ loc[p].val \in Words /\ loc[p].ring \in Nat
                        /\ loc[p].from \in Threads \cup {Empty} /\ loc[p].tries <= Tries
  /\ given \subseteq Values
  /\ taken \in [Words -> Nat]

Quiet == \A p \in Threads : At(p, "idle") /\ buffer[p] = <<>>

\* The values thieves and owner can still get.
Contents(d) == { Get(Current(seen[d]), i) : i \in top[d]..(seen[d].bottom - 1) }

\* "dequeues item from queue" (RContainer.hpp): no value is dequeued twice, by its owner
\* without a CAS and by a thief, or by two thieves.
TakenOnce == \A v \in Values : taken[v] <= 1

\* On a machine where every store is visible at once no value is dequeued twice.
TakenOnceInOrder == depth = 0 => TakenOnce

\* What a dequeue returns was enqueued: no slot is read that was never written, in a new
\* ring or in one that has been replaced, even while stores of the owner are pending.
TakenWasGiven == \A w \in Words : taken[w] > 0 => w \in given \cup {Empty}

\* "enqueues val into queue" (RContainer.hpp): with no operation in progress, every value
\* enqueued has been dequeued or is in a deque.
NothingLost ==
  Quiet => \A v \in given : taken[v] > 0 \/ \E d \in Threads : v \in Contents(d)

\* A thief that wins the CAS of top has read the value that is at top: the ring has not
\* wrapped around over it since, and the ring that replaced it holds the same value.
StealsCurrent ==
  \A p \in Threads :
    pc[p] = "stealCas" /\ pc'[p] = "idle" =>
      loc[p].val = Get(Current(Own(loc[p].from)), loc[p].t)

\* It has on a machine where every store is visible at once.
StealIsCurrentInOrder == [][depth = 0 => StealsCurrent]_vars

\* An owner that lost its last value to a thief leaves bottom below top, but by one only,
\* however often that happens: the next push or pop brings them together again.
BottomGap ==
  \A d \in Threads : At(d, "idle") => Own(d).bottom >= top[d] - 1

\* The gap does not grow on a machine where every store is visible at once.
BottomGapInOrder == depth = 0 => BottomGap
=============================================================================
