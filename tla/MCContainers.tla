---------------------------- MODULE MCContainers ----------------------------
(***************************************************************************)
(* The containers that have a model and no TLC module of their own: those  *)
(* of the list of Main.cpp, and SGLQueue.  Every behaviour is one of one   *)
(* container: its threads run scripts of operations, after a prelude that  *)
(* thread 0 runs alone.  The containers share the variables of this module *)
(* under the names they have in theirs.                                    *)
(***************************************************************************)
EXTENDS DequeOps, TLC

CONSTANTS
  Nodes, Null, Garbage,  \* of MMDeque
  Containers             \* the containers that are run

VARIABLES
  container,  \* the container of this behaviour
  prelude,    \* the operations thread 0 has still to call alone
  todo,       \* the operations each thread has still to call
  sawEmpty    \* history variable of DequeSpec

VARIABLES pc, op, loc, result
VARIABLES m_deque, m_nLock, seen, value               \* SGLDeque
VARIABLES q, lk, v, failed                            \* SGLQueue
VARIABLES m_anchor, haz, free, kept, retired          \* MMDeque
VARIABLES link, data                                  \* MMDeque, TSDeque
VARIABLES ends, taken, timestamp, next_index,         \* TSDeque
          emptiness_check, clock, finished, began

sgldeque == <<m_deque, m_nLock, value>>
sglqueue == <<q, lk, v, failed>>
mmdeque  == <<m_anchor, haz, free, kept, retired>>
tsdeque  == <<ends, taken, timestamp, next_index, emptiness_check, clock, finished, began>>
linked   == <<link, data>>
all == <<container, prelude, todo, sawEmpty, pc, op, loc, result, seen,
         sgldeque, sglqueue, mmdeque, tsdeque, linked>>

\* Bounds: of the clock and the items of a thread; the buffers a removal starts with.
SGLD == INSTANCE SGLDeque
SGLQ == INSTANCE SGLQueue
MM   == INSTANCE MMDeque
TSF  == INSTANCE TSDeque
          WITH TimeStamp <- "AtomicCounter", Starts <- {0, 1}, NumItems <- 2, NumTimes <- 8,
               Threads <- {0, 1}
TSH  == INSTANCE TSDeque
          WITH TimeStamp <- "HardwareInterval", Starts <- {0}, NumItems <- 1, NumTimes <- 10

ASSUME ContainersAssumption ==
  /\ SGLQ!SGLQueueAssumption /\ MM!MMDequeAssumption
  /\ TSF!TSDequeAssumption /\ TSF!TimeStampingAssumption
  /\ TSH!TSDequeAssumption /\ TSH!TimeStampingAssumption
-----------------------------------------------------------------------------
(* The scripts. *)

Scripts(a, b, c) == [t \in Threads |-> CASE t = 0 -> a [] t = 1 -> b [] t = 2 -> c]

\* Two operations of each of two threads, on either side.
Pairs == {<<Push(s, 1), Pop(r)>> : s, r \in Sides}
           \cup {<<Pop("L"), Push("R", 2)>>, <<Push("R", 1), Push("L", 2)>>}

\* Enqueues and dequeues in every order, of three threads.
QueuePairs == {<<Push("R", 1), Pop("L")>>, <<Pop("L"), Pop("L")>>, <<Push("R", 2), Push("R", 1)>>}

\* A push overtaken by a pop of its node and the next push; and, after one push, a second
\* one that stays unstable and is helped by a pop, and a pop that races for the last node.
Overtaken ==
  { <<<<>>, Scripts(<<Push("L", 1), Push("R", 2), Pop(u)>>, <<Push("R", 2), Pop("L")>>, <<>>)>>
      : u \in Sides }
    \cup { <<<<>>, Scripts(<<Push("R", 1), Push("R", 1)>>, <<Pop("R"), Push("R", 2)>>, <<>>)>> }
Helped == { <<<<Push("R", 1)>>, Scripts(<<Pop("R")>>, <<Push("R", 2)>>, <<Pop("L")>>)>> }

\* Pushes and pops at either side.
Stamped ==
  { Scripts(<<Push(s, 1), Pop(u)>>, <<Push("R", 2), Pop("L")>>, <<>>) : s \in Sides, u \in Sides }
    \cup { Scripts(<<Push("R", 1), Push(s, 2), Pop(u)>>, <<Pop("L")>>, <<>>) : s, u \in Sides }

\* A pop while two pushes are under way, one on its side and one on the other.
LatePushes == { Scripts(<<Pop("L")>>, <<Push("R", 1)>>, <<Push("L", 2)>>) }

Alone(scripts) == { <<<<>>, s>> : s \in scripts }

Scenarios(c) ==
  CASE c = "SGLDeque" -> Alone({ Scripts(a, b, <<>>) : a, b \in Pairs })
    [] c = "SGLQueue" -> Alone([Threads -> QueuePairs])
    [] c = "MMDeque"  -> Overtaken \cup Helped
    [] c = "TSDeque-FAI" -> Alone(Stamped)
    [] c = "TSDeque-HWClock" -> Alone(LatePushes)
-----------------------------------------------------------------------------
NoSGLDeque == m_deque = Null /\ m_nLock = Null /\ value = Null
NoSGLQueue == q = Null /\ lk = Null /\ v = Null /\ failed = Null
NoMMDeque  == m_anchor = Null /\ haz = Null /\ free = Null /\ kept = Null /\ retired = Null
NoTSDeque  == /\ ends = Null /\ taken = Null /\ timestamp = Null /\ next_index = Null
              /\ emptiness_check = Null /\ clock = Null /\ finished = Null /\ began = Null

MCInit ==
  /\ container \in Containers
  /\ \E s \in Scenarios(container) : prelude = s[1] /\ todo = s[2]
  /\ sawEmpty = {}
  /\ \/ /\ \/ container = "SGLDeque" /\ SGLD!Init /\ NoSGLQueue
           \/ container = "SGLQueue" /\ SGLQ!Init /\ NoSGLDeque
        /\ loc = Null /\ result = Null /\ link = Null /\ data = Null
        /\ NoMMDeque /\ NoTSDeque
     \/ /\ \/ container = "MMDeque" /\ MM!Init /\ NoTSDeque
           \/ container = "TSDeque-FAI" /\ TSF!Init /\ NoMMDeque
           \/ container = "TSDeque-HWClock" /\ TSH!Init /\ NoMMDeque
        /\ seen = Null /\ NoSGLDeque /\ NoSGLQueue

Idle(t) == t \in DOMAIN pc => pc[t] = "idle"

\* Bound: the two pushes of LatePushes do not overlap each other, only the pop.
InTurn(t) == container = "TSDeque-HWClock" /\ t # 0 => \A u \in Threads \ {0} : Idle(u)

\* The operation that t calls next, if it may call one.
Next(t) == IF prelude # <<>> THEN Head(prelude) ELSE Head(todo[t])
MayCall(t) == IF prelude # <<>> THEN t = 0 ELSE todo[t] # <<>> /\ InTurn(t)

Calls(t) ==
  /\ MayCall(t)
  /\ todo' = IF prelude # <<>> THEN todo ELSE [todo EXCEPT ![t] = Tail(@)]
  /\ UNCHANGED prelude

GoesOn(t) ==
  /\ prelude' = IF prelude # <<>> /\ pc[t] = "return" THEN Tail(prelude) ELSE prelude
  /\ UNCHANGED todo

\* The step of thread t in each of the containers.
SGLDequeStep(t) ==
  /\ container = "SGLDeque"
  /\ \/ Calls(t) /\ SGLD!Call(t, Next(t))
     \/ SGLD!Step(t) /\ GoesOn(t)
  /\ UNCHANGED <<loc, result, sglqueue, mmdeque, tsdeque, linked>>

SGLQueueStep(t) ==
  /\ container = "SGLQueue"
  /\ \/ Calls(t) /\ SGLQ!Call(t, Next(t))
     \/ SGLQ!Step(t) /\ GoesOn(t)
  /\ UNCHANGED <<loc, result, sgldeque, mmdeque, tsdeque, linked>>

MMDequeStep(t) ==
  /\ container = "MMDeque"
  /\ \/ Calls(t) /\ MM!Call(t, Next(t))
     \/ MM!Step(t) /\ GoesOn(t)
  /\ UNCHANGED <<seen, sgldeque, sglqueue, tsdeque>>

MMDequeReuse ==
  /\ container = "MMDeque"
  /\ \E n \in Nodes : MM!Reuse(n)
  /\ UNCHANGED <<prelude, todo, seen, sgldeque, sglqueue, tsdeque>>

TSDequeFAIStep(t) ==
  /\ container = "TSDeque-FAI" /\ t \in DOMAIN pc /\ TSF!Bounded
  /\ \/ Calls(t) /\ TSF!Call(t, Next(t))
     \/ TSF!Step(t) /\ GoesOn(t)
  /\ UNCHANGED <<seen, sgldeque, sglqueue, mmdeque>>

TSDequeHWClockStep(t) ==
  /\ container = "TSDeque-HWClock" /\ TSH!Bounded
  /\ \/ Calls(t) /\ TSH!Call(t, Next(t))
     \/ TSH!Step(t) /\ GoesOn(t)
  /\ UNCHANGED <<seen, sgldeque, sglqueue, mmdeque>>

\* The end of the scripts, or of the clock.
CutOff ==
  \/ container = "TSDeque-FAI" /\ ~TSF!Bounded
  \/ container = "TSDeque-HWClock" /\ ~TSH!Bounded
Finished == prelude = <<>> /\ \A t \in Threads : Idle(t) /\ todo[t] = <<>>
Stop == (Finished \/ CutOff) /\ UNCHANGED all
-----------------------------------------------------------------------------
(* What DequeSpec sees.  The operations of TSDeque take effect at no fixed step: they are *)
(* judged by their answers.                                                               *)

ContentsOf ==
  CASE container = "SGLDeque" -> m_deque
    [] container = "SGLQueue" -> q
    [] container = "MMDeque"  -> MM!Contents
    [] OTHER -> <<>>

StatusOf ==
  CASE container = "SGLDeque" -> SGLD!Status
    [] container = "SGLQueue" -> SGLQ!Status
    [] container = "MMDeque"  -> MM!Status
    [] OTHER -> [t \in Threads |-> "idle"]

RequestOf ==
  IF container \in {"SGLDeque", "SGLQueue", "MMDeque"} THEN op ELSE [t \in Threads |-> Pop("L")]

ReplyOf ==
  CASE container = "SGLDeque" -> SGLD!Reply
    [] container = "SGLQueue" -> SGLQ!Reply
    [] container = "MMDeque"  -> result
    [] OTHER -> [t \in Threads |-> Empty]

Abstract == INSTANCE DequeSpec
  WITH contents <- ContentsOf, status <- StatusOf, request <- RequestOf, reply <- ReplyOf

MCNext ==
  \/ /\ \/ MMDequeReuse
        \/ \E t \in Threads :
             \/ SGLDequeStep(t) \/ SGLQueueStep(t) \/ MMDequeStep(t)
             \/ TSDequeFAIStep(t) \/ TSDequeHWClockStep(t)
     /\ UNCHANGED container
     /\ Abstract!WatchEmpty
  \/ Stop

MCSpec == MCInit /\ [][MCNext]_all
-----------------------------------------------------------------------------
\* Every call takes effect once, between its call and its return, in an order in which a
\* sequential deque would give the same answers (the interface RDeque): under one lock,
\* although the std::deque is not thread safe, and with the anchor of MMDeque.
Linearizable == Abstract!Spec

\* The variables have their types; a critical section has one thread, which the lock names;
\* the lists of MMDeque lead to the same nodes both ways, none of which has been freed;
\* those of TSDeque lead from both ends to the items not taken.
WellFormed ==
  CASE container = "SGLDeque" -> SGLD!TypeOK /\ SGLD!Exclusive
    [] container = "SGLQueue" -> SGLQ!TypeOK /\ SGLQ!OwnerHoldsLock
    [] container = "MMDeque"  -> MM!TypeOK /\ MM!LinksAgree /\ MM!NoUseAfterFree
    [] container = "TSDeque-FAI" -> TSF!TypeOK /\ TSF!Reachable
    [] container = "TSDeque-HWClock" -> TSH!TypeOK

\* The answers of the operations on a TSDeque have an order in which a sequential deque
\* would give them, whichever stamps it takes.
TSDequeExplained ==
  /\ container = "TSDeque-FAI" => TSF!Linearizable
  /\ container = "TSDeque-HWClock" => TSH!Linearizable

\* With hardware stamps no removal takes an item that was stamped after it began and
\* pushed at the other side.
LateItemsStay == [][container = "TSDeque-HWClock" => TSH!OnlyInTime]_all

\* The nodes of MMDeque are alike.
Alike == Permutations(Nodes)
=============================================================================
