----------------------------- MODULE MCSupport -----------------------------
(***************************************************************************)
(* What stands around the containers, for TLC: the free lists and the      *)
(* elimination table they use, the clocks of the time-stamped ones, and    *)
(* the harness and the acceptance tests that run them.  Every behaviour is *)
(* one of one part, which uses the variables of this module under the      *)
(* names they have in its own.                                             *)
(***************************************************************************)
EXTENDS Integers, Sequences, FiniteSets

CONSTANTS
  Parts,                  \* the parts that are run
  Values, Empty, Garbage, \* of ElimTable
  Null                    \* of BlockPool, and the value of variables that are not used

VARIABLES
  part,  \* the part of this behaviour
  todo   \* BlockPool: the calls each thread may still make; ElimTable: the operations

VARIABLES
  pc, loc, contents, arrived, inserting, found,           \* of several parts
  next, next_group, global_pool, head_nodes, arrays, used,  \* BlockPool
  table, op, reply, effects, partner, missed,             \* ElimTable
  created, clock, finish, time_up, ops, total_operations, testComplete, process,  \* ParallelLaunch
  timeUp, hot, usedSign,                                  \* PotatoTest
  passed,                                                 \* QueueVerificationTest
  phase, empty, count_, phaseCount, done, failed,         \* StackVerificationTest
  kind, clock_, clocks_, call, ts, finished, order        \* Timestamps

pool   == <<next, next_group, global_pool, head_nodes, arrays, used>>
elim   == <<table, op, reply, effects, partner, missed>>
launch == <<created, clock, finish, time_up, ops, total_operations, testComplete, process>>
potato == <<timeUp, hot, usedSign>>
stack  == <<phase, empty, count_, phaseCount, done, failed>>
stamps == <<kind, clock_, clocks_, call, ts, finished, order>>
all == <<part, todo, pc, loc, contents, arrived, inserting, found, pool, elim, launch, potato,
         passed, stack, stamps>>

\* Bounds: arrays of blocks and changes of the shared stack; failed attempts; operations of
\* a test, and the last second; the bits of a UID; the phases; the calls.
BP  == INSTANCE BlockPool WITH Threads <- {0, 1}, GROUP_SIZE <- 2, Arrays <- 3, MaxSn <- 12
ET2 == INSTANCE ElimTable WITH N <- 2, Scan0 <- 1, Retries <- 2
ET3 == INSTANCE ElimTable WITH N <- 3, Scan0 <- 1, Retries <- 1
PLT == INSTANCE ParallelLaunch
         WITH task_num <- 3, interval <- 2, timeOut <- TRUE, Test <- "timed", Loopers <- {},
              MaxOps <- 2, Horizon <- 13
PLL == INSTANCE ParallelLaunch
         WITH task_num <- 3, interval <- 9, timeOut <- TRUE, Test <- "latency", Loopers <- {},
              MaxOps <- 1, Horizon <- 20
PLS == INSTANCE ParallelLaunch
         WITH task_num <- 3, interval <- 2, timeOut <- TRUE, Test <- "timed", Loopers <- {0, 1},
              MaxOps <- 1, Horizon <- 13
PT3 == INSTANCE PotatoTest WITH taskNum <- 3, Width <- 5, FollowOverflow <- FALSE
PT2 == INSTANCE PotatoTest WITH taskNum <- 2, Width <- 5, FollowOverflow <- TRUE
QVT == INSTANCE QueueVerificationTest WITH taskNum <- 3, Width <- 4, MaxLen <- 3
SVT == INSTANCE StackVerificationTest
         WITH taskNum <- 3, Width <- 5, opsPerPhase <- 2, MaxPhase <- 5
TM2 == INSTANCE Timestamps
         WITH num_threads_ <- 2, delay_ <- 2, Calls <- 4,
              Kinds <- {"Hardware", "HardwareInterval", "SimulatedInterval", "AtomicCounter",
                        "CAS", "Stuttering"}
TM3 == INSTANCE Timestamps
         WITH num_threads_ <- 3, delay_ <- 2, Calls <- 4, Kinds <- {"CAS", "Stuttering"}

ASSUME SupportAssumption ==
  /\ BP!BlockPoolAssumption /\ ET2!ElimTableAssumption /\ ET3!ElimTableAssumption
  /\ PLT!ParallelLaunchAssumption /\ PLL!ParallelLaunchAssumption /\ PLS!ParallelLaunchAssumption
  /\ PT3!UIDAssumption /\ PT3!PotatoAssumption /\ PT2!UIDAssumption /\ PT2!PotatoAssumption
  /\ QVT!UIDAssumption /\ QVT!QueueTestAssumption /\ SVT!UIDAssumption /\ SVT!StackTestAssumption
  /\ TM2!TimestampsAssumption /\ TM3!TimestampsAssumption
-----------------------------------------------------------------------------
(* The parts, and the variables each does not use. *)

Pools      == {"BlockPool, empty", "BlockPool, stacked"}
ElimTables == {"ElimTable, 2 threads", "ElimTable, 3 threads"}
Launches   == {"timed test", "latency test", "looping test"}
Potatoes   == {"PotatoTest, 3 threads", "PotatoTest, overflow"}
QueueTests == {"QueueVerificationTest"}
StackTests == {"StackVerificationTest"}
Clocks     == {"Timestamps, 2 threads", "Timestamps, 3 threads"}

Uses(variable) == part \in
  CASE variable = "todo"      -> Pools \cup ElimTables
    [] variable = "loc"       -> Pools \cup ElimTables \cup Clocks
    [] variable = "contents"  -> ElimTables \cup Potatoes \cup QueueTests \cup StackTests
    [] variable = "arrived"   -> Launches \cup StackTests
    [] variable = "inserting" -> Potatoes \cup QueueTests \cup StackTests
    [] variable = "found"     -> QueueTests \cup StackTests

NoPool   == /\ next = Null /\ next_group = Null /\ global_pool = Null /\ head_nodes = Null
            /\ arrays = Null /\ used = Null
NoElim   == /\ table = Null /\ op = Null /\ reply = Null /\ effects = Null /\ partner = Null
            /\ missed = Null
NoLaunch == /\ created = Null /\ clock = Null /\ finish = Null /\ time_up = Null /\ ops = Null
            /\ total_operations = Null /\ testComplete = Null /\ process = Null
NoPotato == timeUp = Null /\ hot = Null /\ usedSign = Null
NoStack  == /\ phase = Null /\ empty = Null /\ count_ = Null /\ phaseCount = Null /\ done = Null
            /\ failed = Null
NoStamps == /\ kind = Null /\ clock_ = Null /\ clocks_ = Null /\ call = Null /\ ts = Null
            /\ finished = Null /\ order = Null

InitRest ==
  /\ IF Uses("todo")      THEN TRUE ELSE todo = Null
  /\ IF Uses("loc")       THEN TRUE ELSE loc = Null
  /\ IF Uses("contents")  THEN TRUE ELSE contents = Null
  /\ IF Uses("arrived")   THEN TRUE ELSE arrived = Null
  /\ IF Uses("inserting") THEN TRUE ELSE inserting = Null
  /\ IF Uses("found")     THEN TRUE ELSE found = Null
  /\ IF part \in Pools      THEN TRUE ELSE NoPool
  /\ IF part \in ElimTables THEN TRUE ELSE NoElim
  /\ IF part \in Launches   THEN TRUE ELSE NoLaunch
  /\ IF part \in Potatoes   THEN TRUE ELSE NoPotato
  /\ IF part \in QueueTests THEN TRUE ELSE passed = Null
  /\ IF part \in StackTests THEN TRUE ELSE NoStack
  /\ IF part \in Clocks     THEN TRUE ELSE NoStamps

UnchangedRest ==
  /\ UNCHANGED part
  /\ ~Uses("todo")      => UNCHANGED todo
  /\ ~Uses("loc")       => UNCHANGED loc
  /\ ~Uses("contents")  => UNCHANGED contents
  /\ ~Uses("arrived")   => UNCHANGED arrived
  /\ ~Uses("inserting") => UNCHANGED inserting
  /\ ~Uses("found")     => UNCHANGED found
  /\ part \notin Pools      => UNCHANGED pool
  /\ part \notin ElimTables => UNCHANGED elim
  /\ part \notin Launches   => UNCHANGED launch
  /\ part \notin Potatoes   => UNCHANGED potato
  /\ part \notin QueueTests => UNCHANGED passed
  /\ part \notin StackTests => UNCHANGED stack
  /\ part \notin Clocks     => UNCHANGED stamps
-----------------------------------------------------------------------------
(* BlockPool: the threads allocate and free blocks, a bounded number of times. *)

\* One thread has allocated the blocks of three arrays, and freed those of the first two,
\* whose groups are now on the shared stack.
InitStacked ==
  /\ next = [b \in BP!Blocks |-> IF b % 2 = 1 THEN Null ELSE b + 1]
  /\ next_group = [b \in BP!Blocks |-> IF b = 2 THEN 0 ELSE Null]
  /\ global_pool = [ptr |-> 2, sn |-> 2]
  /\ head_nodes = [t \in {0, 1} |-> [top |-> Null, nth |-> Null, count |-> 0]]
  /\ arrays = 3
  /\ used = {4, 5}
  /\ pc = [t \in {0, 1} |-> "idle"]
  /\ loc = [t \in {0, 1} |-> BP!NoLocals]

PoolInit ==
  \/ part = "BlockPool, empty" /\ BP!Init /\ todo = [t \in {0, 1} |-> 5]
  \/ part = "BlockPool, stacked" /\ InitStacked /\ todo = [t \in {0, 1} |-> IF t = 0 THEN 2 ELSE 8]

PoolStep(t) ==
  /\ part \in Pools /\ t \in DOMAIN pc
  /\ \/ /\ pc[t] = "idle" /\ todo[t] > 0
        /\ todo' = [todo EXCEPT ![t] = @ - 1]
        /\ BP!Step(t) \/ \E b \in BP!Blocks : BP!Free(t, b)
     \/ pc[t] # "idle" /\ BP!Step(t) /\ UNCHANGED todo
-----------------------------------------------------------------------------
(* ElimTable: scripts, in which Empty stands for a pop. *)

\* A push and a pop each way round, and one more operation of each.
PairScripts ==
  { [t \in {0, 1} |-> IF t = 0 THEN <<1, Empty>> ELSE <<Empty, 2>>],
    [t \in {0, 1} |-> IF t = 0 THEN <<1, 2>> ELSE <<Empty, Empty>>] }

\* Two of a kind compete for one partner.
TripleScripts ==
  { [t \in {0, 1, 2} |-> IF t = 0 THEN <<Empty>> ELSE <<t>>],
    [t \in {0, 1, 2} |-> IF t = 0 THEN <<1>> ELSE <<Empty>>] }

ElimInit ==
  \/ part = "ElimTable, 2 threads" /\ ET2!Init /\ todo \in PairScripts
  \/ part = "ElimTable, 3 threads" /\ ET3!Init /\ todo \in TripleScripts

Calls(t) ==
  /\ todo[t] # <<>>
  /\ todo' = [todo EXCEPT ![t] = Tail(@)]

ElimStep(t) ==
  \/ /\ part = "ElimTable, 2 threads" /\ t \in DOMAIN pc
     /\ (Calls(t) /\ ET2!Call(t, Head(todo[t]))) \/ (ET2!Step(t) /\ UNCHANGED todo)
  \/ /\ part = "ElimTable, 3 threads"
     /\ (Calls(t) /\ ET3!Call(t, Head(todo[t]))) \/ (ET3!Step(t) /\ UNCHANGED todo)
-----------------------------------------------------------------------------
(* The harness, the tests and the clocks. *)

HarnessInit ==
  \/ part = "timed test"   /\ PLT!Init
  \/ part = "latency test" /\ PLL!Init
  \/ part = "looping test" /\ PLS!Init
  \/ part = "PotatoTest, 3 threads" /\ PT3!Init
  \/ part = "PotatoTest, overflow"  /\ PT2!Init
  \/ part = "QueueVerificationTest" /\ QVT!Init
  \/ part = "StackVerificationTest" /\ SVT!Init
  \/ part = "Timestamps, 2 threads" /\ TM2!Init
  \/ part = "Timestamps, 3 threads" /\ TM3!Init

MCInit ==
  /\ part \in Parts
  /\ PoolInit \/ ElimInit \/ HarnessInit
  /\ InitRest

LaunchStep(t) ==
  /\ \/ part = "timed test"   /\ PLT!ThreadStep(t)
     \/ part = "latency test" /\ PLL!ThreadStep(t)
     \/ part = "looping test" /\ PLS!ThreadStep(t)
  /\ UnchangedRest

Join ==
  /\ \/ part = "timed test"   /\ PLT!Join
     \/ part = "latency test" /\ PLL!Join
     \/ part = "looping test" /\ PLS!Join
  /\ UnchangedRest

AlarmHandler ==
  /\ \/ part = "timed test"   /\ PLT!AlarmHandler
     \/ part = "latency test" /\ PLL!AlarmHandler
     \/ part = "looping test" /\ PLS!AlarmHandler
  /\ UnchangedRest

Tick ==
  /\ \/ part = "timed test"   /\ PLT!Tick
     \/ part = "latency test" /\ PLL!Tick
     \/ part = "looping test" /\ PLS!Tick
  /\ UnchangedRest

PotatoStep(t) ==
  /\ \/ part = "PotatoTest, 3 threads" /\ PT3!Step(t)
     \/ part = "PotatoTest, overflow" /\ t \in DOMAIN pc /\ PT2!Step(t)
  /\ UnchangedRest

TimeUp ==
  /\ \/ part = "PotatoTest, 3 threads" /\ PT3!TimeUp
     \/ part = "PotatoTest, overflow" /\ PT2!TimeUp
  /\ UnchangedRest

OtherStep ==
  /\ \/ \E t \in {0, 1, 2} : PoolStep(t) \/ ElimStep(t)
     \/ part = "QueueVerificationTest" /\ QVT!Next
     \/ part = "StackVerificationTest" /\ SVT!Next
     \/ part = "Timestamps, 2 threads" /\ TM2!Next
     \/ part = "Timestamps, 3 threads" /\ TM3!Next
  /\ UnchangedRest

MCNext ==
  \/ \E t \in {0, 1, 2} : LaunchStep(t) \/ PotatoStep(t)
  \/ Join \/ AlarmHandler \/ Tick \/ TimeUp
  \/ OtherStep

\* Threads are scheduled, time passes, and a signal that is due is delivered.
MCSpec ==
  /\ MCInit /\ [][MCNext]_all
  /\ \A t \in {0, 1, 2} : WF_all(LaunchStep(t)) /\ WF_all(PotatoStep(t))
  /\ WF_all(Join) /\ WF_all(AlarmHandler) /\ WF_all(Tick) /\ WF_all(TimeUp)
-----------------------------------------------------------------------------
\* BlockPool: every block has one owner, the program, the list of one thread or one group
\* of the shared stack; a group has the number of blocks its taker assumes, and the count
\* and nth of a list are those of its blocks.
OneOwner == part \in Pools => BP!TypeOK /\ BP!OneOwner /\ BP!GroupsWhole /\ BP!CountsRight

\* ElimTable: an operation that returns has taken effect, and once, unless its partner's
\* CAS fell between the load and the exchange of its own removePush or removePop; a pop
\* returns the value of the push it was matched with; and while a thread works on the
\* deque nobody can complete its operation.
OnceUnlessMissed ==
  /\ part = "ElimTable, 2 threads" =>
       ET2!TypeOK /\ ET2!NoneUndone /\ ET2!OnceUnlessMissed /\ ET2!PartnersAgree /\ ET2!NoOfferDuringAttempt
  /\ part = "ElimTable, 3 threads" =>
       ET3!TypeOK /\ ET3!NoneUndone /\ ET3!OnceUnlessMissed /\ ET3!PartnersAgree /\ ET3!NoOfferDuringAttempt

\* The harness and the tests report what happened: all threads operate until the deadline
\* of their phase, all operations are counted, the alarm ends no run in which no thread
\* loops; the potato is neither copied nor lost; a queue and a stack pass their tests,
\* whose phases do not overlap and end together.
VerdictsSound ==
  CASE part = "timed test" ->
         PLT!TypeOK /\ PLT!SameDeadline /\ PLT!AllCounted /\ PLT!NoFalseTimeout
    [] part = "latency test" -> PLL!SameDeadline /\ PLL!AllCounted /\ PLL!NoFalseTimeout
    [] part = "looping test" -> PLS!SameDeadline /\ PLS!NoFalseTimeout
    [] part = "PotatoTest, 3 threads" -> PT3!TypeOK /\ PT3!OnePotato
    [] part = "PotatoTest, overflow"  -> PT2!TypeOK /\ PT2!OnePotato
    [] part = "QueueVerificationTest" -> QVT!TypeOK /\ QVT!NoFalseAlarm /\ QVT!UIDsUnique
    [] part = "StackVerificationTest" ->
         SVT!TypeOK /\ SVT!NoFalseAlarm /\ SVT!PhaseCountRight /\ SVT!PhasesApart /\ SVT!LeaveTogether
    [] OTHER -> TRUE

\* Timestamps: of two stamps taken one after the other the first is never the later one,
\* and but for simulated intervals the second one is later; stamps and the start times of
\* removals are ordered alike.
StampsOrdered ==
  /\ part = "Timestamps, 2 threads" =>
       TM2!TypeOK /\ TM2!NeverReversed /\ TM2!SequentialOrdered /\ TM2!StartTimeSound
  /\ part = "Timestamps, 3 threads" =>
       TM3!TypeOK /\ TM3!NeverReversed /\ TM3!SequentialOrdered /\ TM3!StartTimeSound

\* A run ends, though a remove of PotatoTest does not look at the time: all threads leave,
\* or the alarm ends the process, or thread 0 has finished its test before the alarm and
\* another thread loops, which the handler does not see; or the UIDs are used up.
RunsEnd ==
  <>CASE part = "timed test"   -> PLT!Done
      [] part = "latency test" -> PLL!Done
      [] part = "looping test" -> PLS!EndedOrUnseen
      [] part = "PotatoTest, 3 threads" -> PT3!AllLeft
      [] part = "PotatoTest, overflow"  -> PT2!AllLeft
      [] OTHER -> TRUE
=============================================================================
