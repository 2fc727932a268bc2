------------------------------- MODULE MCScal -------------------------------
(***************************************************************************)
(* The data structures of the Scal suite (scal-master) that have a model,  *)
(* and the work-stealing deques, for TLC.  Every behaviour is one of one   *)
(* structure: its threads run scripts of operations, after a prelude that  *)
(* thread 1 runs alone; those of WSDeque call a number of enqueues and     *)
(* dequeues in any order.  The structures share the variables of this      *)
(* module and of WSDeque under the names they have in theirs; the links    *)
(* and items of all of them are next and items, and the taken of TSStack   *)
(* is out.                                                                 *)
(***************************************************************************)
EXTENDS WSDeque

INSTANCE DequeOps

CONSTANTS
  Structures,  \* the structures that are run
  Unused       \* the value of variables that are not used

VARIABLES
  structure,  \* the structure of this behaviour
  prelude,    \* the operations thread 1 has still to call alone
  todo,       \* the operations each thread has still to call
  sawEmpty    \* history variable of DequeSpec

VARIABLES
  op, result, finished, began,
  head_, tail_, next, value, made, frame,         \* MSQueue, and the pools over it
  backends_, p_, ds_state_, segment_lock_, alive, created, local,  \* DynDistributedQueue
  top_, data,                                     \* TreiberStack
  items, deleted_, markers, remove, turned,       \* the k-FIFO queues and KStack
  spBuffers_, ring, expected, timestamp, emptiness_check, clock,  \* TSQueue, TSStack
  insert, list, out, pushes

script == <<prelude, todo>>
wsdeque == <<top, seen, buffer, given, taken, depth>>
others == <<structure, sawEmpty, op, result, finished, began,
            head_, tail_, next, value, made, frame,
            backends_, p_, ds_state_, segment_lock_, alive, created, local,
            top_, data, items, deleted_, markers, remove, turned,
            spBuffers_, ring, expected, timestamp, emptiness_check, clock,
            insert, list, out, pushes>>
all == <<others, script, wsdeque, pc, loc>>

\* Bounds: nodes and items of a thread, segments, values of the clock.
MSQ == INSTANCE MSQueueLin WITH Queues <- {1}, NumNodes <- 2
TRS == INSTANCE TreiberStack WITH NumNodes <- 2
DQA == INSTANCE DistributedQueue
         WITH Queues <- {1, 2}, NumNodes <- 2, LocalFirst <- FALSE, item <- result,
              PutIds <- [t \in Threads |-> {1, 2}]
DQL == INSTANCE DistributedQueue
         WITH Queues <- {1, 2}, NumNodes <- 2, LocalFirst <- TRUE, item <- result,
              PutIds <- [t \in Threads |-> {((t - 1) % 2) + 1}]
DYN == INSTANCE DynDistributedQueue
         WITH Queues <- {1, 2, 3}, NumNodes <- 2, MaxNodes <- 3, Announced <- <<1, 2>>,
              item <- result
UKF == INSTANCE UnboundedSizeKFifo
         WITH k <- 1, NumSegments <- 4, LocallyLinearizable <- FALSE,
              next_ <- next, items_ <- items
UKL == INSTANCE UnboundedSizeKFifo
         WITH k <- 2, NumSegments <- 4, LocallyLinearizable <- TRUE,
              next_ <- next, items_ <- items
BKF == INSTANCE BoundedSizeKFifo WITH k <- 1, num_segments <- 3, queue_ <- items
BK2 == INSTANCE BoundedSizeKFifo WITH k <- 2, num_segments <- 3, queue_ <- items
KST == INSTANCE KStack WITH k <- 1, NumSegments <- 5, LocallyLinearizable <- FALSE
KSL == INSTANCE KStack WITH k <- 2, NumSegments <- 4, LocallyLinearizable <- TRUE
TSQ == INSTANCE TSQueue
         WITH TimeStamp <- "HardwareInterval", Registered <- {1}, Starts <- {0, 1},
              NumItems <- 1, NumTimes <- 12
TQC == INSTANCE TSQueue
         WITH TimeStamp <- "AtomicCounter", Registered <- {1, 2}, Starts <- {0, 1},
              NumItems <- 2, NumTimes <- 6
TSS == INSTANCE TSStack
         WITH TimeStamp <- "HardwareInterval", Registered <- {1}, Starts <- {0},
              NumItems <- 1, NumTimes <- 10, taken <- out
TSC == INSTANCE TSStack
         WITH TimeStamp <- "AtomicCounter", Registered <- {1, 2}, Starts <- {0},
              NumItems <- 3, NumTimes <- 8, taken <- out

ASSUME ScalAssumption ==
  /\ MSQ!LinAssumption /\ TRS!TreiberAssumption
  /\ DQA!MSQueueAssumption /\ DQA!DistributedQueueAssumption /\ DQL!DistributedQueueAssumption
  /\ DYN!MSQueueAssumption /\ DYN!DynDistributedQueueAssumption
  /\ UKF!KFifoAssumption /\ UKL!KFifoAssumption
  /\ BKF!BoundedKFifoAssumption /\ BK2!BoundedKFifoAssumption
  /\ KST!KStackAssumption /\ KSL!KStackAssumption
  /\ TSQ!SPBuffersAssumption /\ TQC!SPBuffersAssumption
  /\ TSS!SPBuffersAssumption /\ TSC!SPBuffersAssumption
-----------------------------------------------------------------------------
(* The scripts.  put, push and enqueue are Push("R"); get and dequeue are Pop("L"). *)

Add(v) == Push("R", v)
Fetch  == Pop("L")
Take   == Pop("R")

Scripts(a, b, c) == [t \in Threads |-> CASE t = 1 -> a [] t = 2 -> b [] t = 3 -> c]

\* Enqueues and dequeues in every order; enqueues that help each other, with a dequeue
\* that helps them.
Queued ==
  LET pairs == {<<Add(1), Fetch>>, <<Fetch, Fetch>>, <<Add(2), Add(1)>>}
  IN { Scripts(a, b, <<>>) : a, b \in pairs } \cup { Scripts(<<Add(1), Fetch>>, <<Add(2)>>, <<Fetch>>) }

\* Pushes and pops in every order; a pop that stops between its load of next and its swap.
Stacked ==
  LET triples == {<<Add(1), Take, Take>>, <<Take, Add(2), Add(1)>>, <<Add(2), Add(2), Take>>}
  IN { Scripts(a, b, <<>>) : a, b \in triples }
       \cup { Scripts(<<Add(1), Take>>, <<Take, Add(2)>>, c) : c \in {<<Add(2)>>, <<Take>>} }

\* One thread puts, puts and gets while another gets, so that items move behind a get that
\* goes round; and another gets what one thread puts.
Moved  == { Scripts(<<Add(1), Add(2), Fetch>>, <<Fetch>>, <<>>) }
Others == { Scripts(<<Add(1), Add(2)>>, <<Fetch, Fetch>>, <<>>) }

\* Nodes are there before and stay, and items move between them; or the array is full and
\* a third thread needs the slot of one that terminates.
Staying  == { Scripts(<<Add(1), Fetch>>, <<Add(2)>>, <<Fetch>>) }
Crowded  == { Scripts(<<DYN!Terminate>>, <<Add(2), DYN!Terminate>>, <<Add(3)>>) }

\* Segments fill, are emptied and are left: two threads; and behind a segment with one
\* item, which two dequeues empty.
Filled  == { Scripts(<<Add(2)>>, <<Fetch, Fetch>>, <<>>) }
Emptied == { Scripts(<<Add(2)>>, <<Fetch>>, <<Fetch>>) }

\* The ring is full, or nearly, while two threads enqueue and a third dequeues.
Crammed == { Scripts(<<Add(3), Fetch>>, <<Add(4)>>, <<Fetch>>) }

\* The ring turns while an enqueue is preempted, which is all its thread does.
Turning == { Scripts(<<Add(2)>>, <<Add(3), Fetch, Add(4)>>, <<>>) }

\* Segments of a stack fill and are emptied; and pushes into a segment that pops are removing.
Piled   == { Scripts(<<Add(2), Take>>, b, <<>>) : b \in {<<Add(3), Take>>, <<Take, Take>>} }
Removed == { Scripts(<<Take>>, <<Add(3)>>, <<Take>>) }

\* Two threads with a buffer each, of which the second registers while the first is in use;
\* and several items in one buffer and two threads that take them.
Registering(take) == { Scripts(<<Add(1), take>>, <<Add(2), take>>, <<>>) }
OneBuffer  == { Scripts(<<Add(1), Add(2), Fetch>>, <<Fetch, Fetch>>, <<>>) }
OneBufferS == { Scripts(<<Add(2), Take, Add(3)>>, <<Take>>, <<>>) }

\* WSDeque: what thread 1 enqueues does not fit in its first ring.  Thread 2 steals from it
\* and has a value of its own to lose, or only steals.
Counts ==
  LET calls(e, d) == [enqueues |-> e, dequeues |-> d]
  IN { Scripts(calls(3, 1), calls(1, 2), calls(0, 0)), Scripts(calls(3, 2), calls(0, 1), calls(0, 0)) }

Scenarios(c) ==
  CASE c = "MSQueue"  -> {<<>>} \X Queued
    [] c = "TreiberStack" -> {<<>>} \X Stacked
    [] c \in {"DistributedQueue", "DistributedQueue, local"} -> {<<>>} \X (Moved \cup Others)
    [] c = "DynDistributedQueue" -> {<<>>} \X (Staying \cup Crowded)
    [] c = "UnboundedSizeKFifo" -> {<<Add(1)>>} \X Emptied
    [] c = "UnboundedSizeKFifo, local" -> {<<Add(1)>>} \X Filled
    [] c = "BoundedSizeKFifo, 1 slot" -> {<<Add(1), Add(2)>>} \X Crammed
    [] c = "BoundedSizeKFifo, 2 slots" -> {<<Add(1)>>} \X Filled \cup {<<Add(1), Fetch>>} \X Turning
    [] c = "KStack" -> {<<Add(1), Add(2), Take>>} \X Removed
    [] c = "KStack, local" -> {<<Add(1)>>} \X Piled
    [] c = "TSQueue, interval" -> {<<>>} \X Registering(Fetch)
    [] c = "TSQueue, counter" -> {<<>>} \X OneBuffer
    [] c = "TSStack, interval" -> {<<>>} \X Registering(Take)
    [] c = "TSStack, counter" -> {<<Add(1)>>} \X OneBufferS
    [] c = "WSDeque" -> {<<>>} \X Counts
-----------------------------------------------------------------------------
(* The variables a structure does not use. *)

OverMSQueue == {"MSQueue", "DistributedQueue", "DistributedQueue, local", "DynDistributedQueue"}
Unbounded   == {"UnboundedSizeKFifo", "UnboundedSizeKFifo, local"}
Rings       == {"BoundedSizeKFifo, 1 slot", "BoundedSizeKFifo, 2 slots"}
KStacks     == {"KStack", "KStack, local"}
TSQueues    == {"TSQueue, interval", "TSQueue, counter"}
TSStacks    == {"TSStack, interval", "TSStack, counter"}

\* The structures that use a variable, or the variables that go with it.
Uses ==
  LET allBut(S) == Structures \ (S \cup {"WSDeque"})
  IN [history  |-> allBut({"MSQueue", "TreiberStack"}),
      op       |-> allBut({}),
      wsdeque  |-> {"WSDeque"},
      loc      |-> Structures \ {"MSQueue"},
      ends     |-> OverMSQueue \cup Unbounded \cup Rings,
      next     |-> allBut(Rings),
      value    |-> OverMSQueue,
      made     |-> OverMSQueue \cup {"TreiberStack"} \cup KStacks,
      backends |-> {"DynDistributedQueue"},
      top      |-> {"TreiberStack"} \cup KStacks,
      data     |-> {"TreiberStack"} \cup TSQueues \cup TSStacks,
      items    |-> Unbounded \cup Rings \cup KStacks,
      deleted  |-> Unbounded,
      turned   |-> Rings,
      markers  |-> Unbounded \cup KStacks,
      remove   |-> KStacks \cup TSQueues,
      buffers  |-> TSQueues \cup TSStacks,
      insert   |-> TSQueues,
      list     |-> TSStacks]

NotUsed(variable) == structure \notin Uses[variable]

InitRest ==
  /\ IF NotUsed("history") THEN finished = Unused /\ began = Unused /\ result = Unused ELSE TRUE
  /\ IF NotUsed("op")    THEN op = Unused ELSE TRUE
  /\ IF NotUsed("wsdeque") THEN /\ top = Unused /\ seen = Unused /\ buffer = Unused
                                /\ given = {} /\ taken = [w \in Words |-> 0]
                                /\ depth = Unused ELSE TRUE
  /\ IF NotUsed("loc")   THEN loc = Unused ELSE TRUE
  /\ IF NotUsed("ends")  THEN head_ = Unused /\ tail_ = Unused ELSE TRUE
  /\ IF NotUsed("next")  THEN next = Unused ELSE TRUE
  /\ IF NotUsed("value") THEN value = Unused /\ frame = Unused ELSE TRUE
  /\ IF NotUsed("made")  THEN made = Unused ELSE TRUE
  /\ IF NotUsed("backends") THEN /\ backends_ = Unused /\ p_ = Unused /\ ds_state_ = Unused
                                 /\ segment_lock_ = Unused /\ alive = Unused
                                 /\ created = Unused /\ local = Unused ELSE TRUE
  /\ IF NotUsed("top")   THEN top_ = Unused ELSE TRUE
  /\ IF NotUsed("data")  THEN data = Unused ELSE TRUE
  /\ IF NotUsed("items") THEN items = Unused ELSE TRUE
  /\ IF NotUsed("deleted") THEN deleted_ = Unused ELSE TRUE
  /\ IF NotUsed("turned")  THEN turned = Unused ELSE TRUE
  /\ IF NotUsed("markers") THEN markers = Unused ELSE TRUE
  /\ IF NotUsed("remove")  THEN remove = Unused ELSE TRUE
  /\ IF NotUsed("buffers") THEN /\ spBuffers_ = Unused /\ ring = Unused /\ expected = Unused
                                /\ timestamp = Unused /\ emptiness_check = Unused /\ clock = Unused ELSE TRUE
  /\ IF NotUsed("insert")  THEN insert = Unused ELSE TRUE
  /\ IF NotUsed("list")    THEN list = Unused /\ out = Unused /\ pushes = Unused ELSE TRUE

UnchangedRest ==
  /\ NotUsed("history") => UNCHANGED <<finished, began, result>>
  /\ NotUsed("loc")   => UNCHANGED loc
  /\ NotUsed("ends")  => UNCHANGED <<head_, tail_>>
  /\ NotUsed("next")  => UNCHANGED next
  /\ NotUsed("value") => UNCHANGED <<value, frame>>
  /\ NotUsed("made")  => UNCHANGED made
  /\ NotUsed("backends") =>
       UNCHANGED <<backends_, p_, ds_state_, segment_lock_, alive, created, local>>
  /\ NotUsed("top")   => UNCHANGED top_
  /\ NotUsed("data")  => UNCHANGED data
  /\ NotUsed("items") => UNCHANGED items
  /\ NotUsed("deleted") => UNCHANGED deleted_
  /\ NotUsed("turned")  => UNCHANGED turned
  /\ NotUsed("markers") => UNCHANGED markers
  /\ NotUsed("remove")  => UNCHANGED remove
  /\ NotUsed("buffers") =>
       UNCHANGED <<spBuffers_, ring, expected, timestamp, emptiness_check, clock>>
  /\ NotUsed("insert")  => UNCHANGED insert
  /\ NotUsed("list")    => UNCHANGED <<list, out, pushes>>
-----------------------------------------------------------------------------
MCInit ==
  /\ structure \in Structures
  /\ \E s \in Scenarios(structure) : prelude = s[1] /\ todo = s[2]
  /\ sawEmpty = {}
  /\ \/ structure = "MSQueue" /\ MSQ!Init
     \/ structure = "TreiberStack" /\ TRS!Init
     \/ structure = "DistributedQueue" /\ DQA!Init
     \/ structure = "DistributedQueue, local" /\ DQL!Init
     \/ structure = "DynDistributedQueue" /\ DYN!Init
     \/ structure = "UnboundedSizeKFifo" /\ UKF!Init
     \/ structure = "UnboundedSizeKFifo, local" /\ UKL!Init
     \/ structure = "BoundedSizeKFifo, 1 slot" /\ BKF!Init
     \/ structure = "BoundedSizeKFifo, 2 slots" /\ BK2!Init
     \/ structure = "KStack" /\ KST!Init
     \/ structure = "KStack, local" /\ KSL!Init
     \/ structure = "TSQueue, interval" /\ TSQ!Init
     \/ structure = "TSQueue, counter" /\ TQC!Init
     \/ structure = "TSStack, interval" /\ TSS!Init
     \/ structure = "TSStack, counter" /\ TSC!Init
     \/ structure = "WSDeque" /\ Init
  /\ InitRest

\* The operation that t calls next, if it may call one.
NextCall(t) == IF prelude # <<>> THEN Head(prelude) ELSE Head(todo[t])
MayCall(t) == IF prelude # <<>> THEN t = 1 ELSE todo[t] # <<>>

Calls(t) ==
  /\ MayCall(t)
  /\ todo' = IF prelude # <<>> THEN todo ELSE [todo EXCEPT ![t] = Tail(@)]
  /\ UNCHANGED prelude

GoesOn(t) ==
  /\ prelude' = IF prelude # <<>> /\ pc[t] = "return" THEN Tail(prelude) ELSE prelude
  /\ UNCHANGED todo

\* The step of thread t in each structure.
MSQueueStep(t) ==
  /\ structure = "MSQueue"
  /\ (Calls(t) /\ MSQ!Call(t, NextCall(t))) \/ (MSQ!Step(t) /\ GoesOn(t))

TreiberStackStep(t) ==
  /\ structure = "TreiberStack"
  /\ (Calls(t) /\ TRS!Call(t, NextCall(t))) \/ (TRS!Step(t) /\ GoesOn(t))

DistributedQueueStep(t) ==
  \/ /\ structure = "DistributedQueue"
     /\ (Calls(t) /\ DQA!Call(t, NextCall(t))) \/ (DQA!Step(t) /\ GoesOn(t))
  \/ /\ structure = "DistributedQueue, local"
     /\ (Calls(t) /\ DQL!Call(t, NextCall(t))) \/ (DQL!Step(t) /\ GoesOn(t))

DynDistributedQueueStep(t) ==
  /\ structure = "DynDistributedQueue"
  /\ (Calls(t) /\ DYN!Call(t, NextCall(t))) \/ (DYN!Step(t) /\ GoesOn(t))

UnboundedSizeKFifoStep(t) ==
  \/ /\ structure = "UnboundedSizeKFifo"
     /\ (Calls(t) /\ UKF!Call(t, NextCall(t))) \/ (UKF!Step(t) /\ GoesOn(t))
  \/ /\ structure = "UnboundedSizeKFifo, local"
     /\ (Calls(t) /\ UKL!Call(t, NextCall(t))) \/ (UKL!Step(t) /\ GoesOn(t))

\* Bound: how often the tail of a ring is moved; an enqueue that takes its item back and a
\* dequeue that has found it can chase each other round the ring for ever.
TailMoves == 4

BoundedSizeKFifoStep(t) ==
  \/ /\ structure = "BoundedSizeKFifo, 1 slot" /\ tail_.tag < TailMoves
     /\ (Calls(t) /\ BKF!Call(t, NextCall(t))) \/ (BKF!Step(t) /\ GoesOn(t))
  \/ /\ structure = "BoundedSizeKFifo, 2 slots" /\ tail_.tag < TailMoves
     /\ (Calls(t) /\ BK2!Call(t, NextCall(t))) \/ (BK2!Step(t) /\ GoesOn(t))

KStackStep(t) ==
  \/ /\ structure = "KStack"
     /\ (Calls(t) /\ KST!Call(t, NextCall(t))) \/ (KST!Step(t) /\ GoesOn(t))
  \/ /\ structure = "KStack, local"
     /\ (Calls(t) /\ KSL!Call(t, NextCall(t))) \/ (KSL!Step(t) /\ GoesOn(t))

TSQueueStep(t) ==
  \/ /\ structure = "TSQueue, interval" /\ TSQ!Bounded
     /\ (Calls(t) /\ TSQ!Call(t, NextCall(t))) \/ (TSQ!Step(t) /\ GoesOn(t))
  \/ /\ structure = "TSQueue, counter" /\ TQC!Bounded
     /\ (Calls(t) /\ TQC!Call(t, NextCall(t))) \/ (TQC!Step(t) /\ GoesOn(t))

TSStackStep(t) ==
  \/ /\ structure = "TSStack, interval" /\ TSS!Bounded
     /\ (Calls(t) /\ TSS!Call(t, NextCall(t))) \/ (TSS!Step(t) /\ GoesOn(t))
  \/ /\ structure = "TSStack, counter" /\ TSC!Bounded
     /\ (Calls(t) /\ TSC!Call(t, NextCall(t))) \/ (TSC!Step(t) /\ GoesOn(t))

WSDequeCall(t) ==
  \/ /\ todo[t].enqueues > 0
     /\ todo' = [todo EXCEPT ![t].enqueues = @ - 1]
     /\ Enqueue(t, CHOOSE v \in Values : v \notin given)
  \/ /\ todo[t].dequeues > 0
     /\ todo' = [todo EXCEPT ![t].dequeues = @ - 1]
     /\ Dequeue(t)

WSDequeStep(t) ==
  /\ structure = "WSDeque"
  /\ \/ WSDequeCall(t)
     \/ (Step(t) \/ Drain(t)) /\ UNCHANGED todo
  /\ UNCHANGED <<depth, prelude>>

\* The end of the scripts, or of the clock, the segments or the ring, or of the program: a put
\* into a DynDistributedQueue that is full aborts it.
CutOff ==
  \/ structure = "TSQueue, interval" /\ ~TSQ!Bounded
  \/ structure = "TSQueue, counter"  /\ ~TQC!Bounded
  \/ structure = "TSStack, interval" /\ ~TSS!Bounded
  \/ structure = "TSStack, counter"  /\ ~TSC!Bounded
  \/ structure \in Unbounded /\ tail_.value = Cardinality(DOMAIN next)
  \/ structure \in Rings /\ tail_.tag = TailMoves
  \/ structure \in KStacks /\ made = Cardinality(DOMAIN next)
  \/ structure = "DynDistributedQueue" /\ \E t \in Threads : pc[t] = "abort"
Finished ==
  IF structure = "WSDeque"
    THEN Quiet /\ \A t \in Threads : todo[t] = [enqueues |-> 0, dequeues |-> 0]
    ELSE prelude = <<>> /\ \A t \in Threads : pc[t] = "idle" /\ todo[t] = <<>>
Stop == (Finished \/ CutOff) /\ UNCHANGED all
-----------------------------------------------------------------------------
(* What DequeSpec sees of MSQueue and TreiberStack. *)

Fixed == {"MSQueue", "TreiberStack"}

ContentsOf ==
  CASE structure = "MSQueue"      -> MSQ!Contents(1)
    [] structure = "TreiberStack" -> TRS!Contents
    [] OTHER -> <<>>
StatusOf ==
  CASE structure = "MSQueue"      -> MSQ!Status
    [] structure = "TreiberStack" -> TRS!Status
    [] OTHER -> [t \in Threads |-> "idle"]
ReplyOf ==
  CASE structure = "MSQueue"      -> MSQ!Reply
    [] structure = "TreiberStack" -> TRS!Reply
    [] OTHER -> [t \in Threads |-> Empty]
RequestOf == IF structure \in Fixed THEN op ELSE [t \in Threads |-> Fetch]

Abstract == INSTANCE DequeSpec
  WITH contents <- ContentsOf, status <- StatusOf, request <- RequestOf, reply <- ReplyOf

abstractVars == Abstract!vars
AbstractNext == structure \in Fixed => Abstract!Next

MCNext ==
  \/ /\ \E t \in Threads :
          \/ MSQueueStep(t) \/ TreiberStackStep(t) \/ DistributedQueueStep(t)
          \/ DynDistributedQueueStep(t) \/ UnboundedSizeKFifoStep(t) \/ BoundedSizeKFifoStep(t)
          \/ KStackStep(t) \/ TSQueueStep(t) \/ TSStackStep(t)
     /\ UnchangedRest /\ UNCHANGED <<structure, wsdeque>>
     /\ IF structure \in Fixed THEN Abstract!WatchEmpty ELSE UNCHANGED sawEmpty
  \/ (\E t \in Threads : WSDequeStep(t)) /\ UNCHANGED others
  \/ Stop

MCSpec == MCInit /\ [][MCNext]_all
-----------------------------------------------------------------------------
\* The variables have their types, and the structures what their operations rely on: the
\* tail of an MSQueue is its last node or the one before; the nodes of a
\* DynDistributedQueue are the first of the array; a k-FIFO segment behind the head is
\* marked as deleted; every buffer in use is in the ring, with an item where its pointers
\* say that there is one.
WellFormed ==
  CASE structure = "MSQueue" -> MSQ!QueueTypeOK /\ MSQ!TailNearEnd
    [] structure = "TreiberStack" -> TRS!TypeOK
    [] structure = "DistributedQueue" -> DQA!TypeOK /\ DQA!TailNearEnd
    [] structure = "DistributedQueue, local" -> DQL!TypeOK
    [] structure = "DynDistributedQueue" -> DYN!TypeOK /\ DYN!SlotsDense
    [] structure = "UnboundedSizeKFifo" -> UKF!TypeOK /\ UKF!LeftAreDeleted
    [] structure = "UnboundedSizeKFifo, local" -> UKL!TypeOK /\ UKL!LeftAreDeleted
    [] structure = "BoundedSizeKFifo, 1 slot" -> BKF!TypeOK
    [] structure = "BoundedSizeKFifo, 2 slots" -> BK2!TypeOK
    [] structure = "KStack" -> KST!TypeOK
    [] structure = "KStack, local" -> KSL!TypeOK
    [] structure = "TSQueue, interval" -> TSQ!TypeOK /\ TSQ!BuffersFound /\ TSQ!ItemThere
    [] structure = "TSQueue, counter"  -> TQC!TypeOK /\ TQC!BuffersFound /\ TQC!ItemThere
    [] structure = "TSStack, interval" -> TSS!TypeOK
    [] structure = "TSStack, counter"  -> TSC!TypeOK
    [] structure = "WSDeque" -> TypeOK

\* Every operation on an MSQueue or a TreiberStack takes effect once, between its call and
\* its return, in the order of a queue or a stack, and false means that it was empty
\* during the call.  (DequeSpec, of these two structures.)
Linearizable ==
  /\ structure \in Fixed => Abstract!Init
  /\ [][AbstractNext]_abstractVars

\* The answers of the time-stamped queue and stack have an order in which a queue or a
\* stack would give them: the oldest and the youngest items are found by their stamps, and
\* there was none when a removal says so.
Explained ==
  CASE structure = "TSQueue, interval" -> TSQ!Linearizable
    [] structure = "TSQueue, counter"  -> TQC!Linearizable
    [] structure = "TSStack, interval" -> TSS!Linearizable
    [] structure = "TSStack, counter"  -> TSC!Linearizable
    [] OTHER -> TRUE

\* What has been inserted is removed once or still found: no item is left in a segment, a
\* node or a list that removals do not reach.  (BoundedSizeKFifo: not between the head and
\* the tail, once the ring has come round; but still in a slot.)
NoItemLost ==
  CASE structure = "DistributedQueue" -> DQA!NothingLost
    [] structure = "DistributedQueue, local" -> DQL!NothingLost
    [] structure = "DynDistributedQueue" -> DYN!NothingLost
    [] structure = "UnboundedSizeKFifo" -> UKF!NothingLost
    [] structure = "UnboundedSizeKFifo, local" -> UKL!NothingLost
    [] structure = "BoundedSizeKFifo, 1 slot" -> BKF!NothingLost
    [] structure = "BoundedSizeKFifo, 2 slots" -> BK2!NothingLost
    [] structure = "KStack" -> KST!NothingLost
    [] structure = "KStack, local" -> KSL!NothingLost
    [] structure = "TSStack, interval" -> TSS!NothingLost
    [] structure = "TSStack, counter"  -> TSC!NothingLost
    [] OTHER -> TRUE

\* A get says that a pool is empty only if there was a moment when it was, although it
\* looks at the queues one after the other (DynDistributedQueue: as long as no node comes
\* or goes); and the state TreiberStack returns with a false stands for such a moment.
EmptyWhenEmpty ==
  CASE structure = "TreiberStack" -> TRS!EmptyState
    [] structure = "DistributedQueue" -> DQA!EmptyWhenEmpty
    [] structure = "DistributedQueue, local" -> DQL!EmptyWhenEmpty
    [] structure = "DynDistributedQueue" ->
         created = 2 /\ alive[1] /\ alive[2] => DYN!EmptyWhenEmpty
    [] OTHER -> TRUE

\* The k-FIFO queues and the k-stack are out of order up to k: when all have returned
\* there is an order in which every removal takes one of the k items next in turn, and
\* answers false only when there was none.  (BoundedSizeKFifo: until the ring has come round.)
OutOfOrderUpToK ==
  CASE structure = "UnboundedSizeKFifo" -> UKF!OutOfOrderUpToK
    [] structure = "UnboundedSizeKFifo, local" -> UKL!OutOfOrderUpToK
    [] structure = "BoundedSizeKFifo, 1 slot" -> BKF!OutOfOrderUpToK
    [] structure = "BoundedSizeKFifo, 2 slots" -> BK2!OutOfOrderUpToK
    [] structure = "KStack" -> KST!OutOfOrderUpToK
    [] structure = "KStack, local" -> KSL!OutOfOrderUpToK
    [] OTHER -> TRUE

\* Built to be locally linearizable, a pool gives the items of one thread in their order,
\* and no segment of a k-stack holds two of them.
LocallyOrdered ==
  CASE structure = "DistributedQueue, local" -> DQL!LocallyOrdered
    [] structure = "KStack, local" -> KSL!OneOfEach
    [] OTHER -> TRUE
=============================================================================
