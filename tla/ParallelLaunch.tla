--------------------------- MODULE ParallelLaunch ---------------------------
(***************************************************************************)
(* The life of a test run: parallelWork and thread_main of                 *)
(* src/cpp_harness/ParallelLaunch.cpp around the execute of a test.        *)
(*                                                                         *)
(* Test is what runs: "timed" stands for the tests whose threads operate   *)
(* until gtc->finish (InsertRemoveTest, DequeInsertRemoveTest, FAITest and *)
(* their like), "latency" for DequeLatencyTest (src/deque/Tests.cpp), in   *)
(* which thread 0 goes on for a second interval by itself.  A thread of    *)
(* Loopers may enter an endless loop in the container it tests.            *)
(*                                                                         *)
(* Time is counted in seconds, and passes only when every thread waits for *)
(* it: a run the alarm ends too early is no slow run.                      *)
(***************************************************************************)
EXTENDS Integers, FiniteSets, FiniteSetsExt

CONSTANTS
  task_num,  \* the number of threads
  interval,  \* how long the threads operate
  timeOut,   \* whether an alarm is set (not with -z)
  Test,      \* "timed" or "latency"
  Loopers,   \* the threads that may loop for ever
  MaxOps,    \* bound: the operations one thread counts
  Horizon    \* bound: the last second

ParallelLaunchAssumption ==
  /\ task_num \in Nat \ {0} /\ interval \in Nat \ {0} /\ timeOut \in BOOLEAN
  /\ Test \in {"timed", "latency"} /\ Loopers \subseteq 0 .. task_num - 1
  /\ MaxOps \in Nat /\ Horizon \in Nat

Threads == 0 .. task_num - 1

VARIABLES
  pc,                \* where each thread is; thread 0 is the main thread
  created,           \* the number of threads launched
  arrived,           \* per barrier, the threads that wait at it
  clock,             \* the time
  finish,            \* gtc->finish
  time_up,           \* the copy of it each thread's test has made
  ops,               \* the operations each thread reports
  total_operations,  \* gtc->total_operations
  testComplete,      \* what the alarm handler looks at
  process            \* "running", "aborted" by the alarm, or "done"

vars == <<pc, created, arrived, clock, finish, time_up, ops, total_operations,
          testComplete, process>>

\* The barrier of the harness and the one of DequeLatencyTest.
Barriers == {"pthread_barrier", "latency_barrier"}

Init ==
  /\ pc = [t \in Threads |-> IF t = 0 THEN "launch" ELSE "unborn"]
  /\ created = 1
  /\ arrived = [b \in Barriers |-> {}]
  /\ clock = 0
  /\ finish = 0
  /\ time_up = [t \in Threads |-> 0]
  /\ ops = [t \in Threads |-> 0]
  /\ total_operations = 0
  /\ testComplete = FALSE
  /\ process = "running"

alarmAt == interval + 10  \* alarm(gtc->interval+10)

Goto(t, l) == pc' = [pc EXCEPT ![t] = l]

-----------------------------------------------------------------------------
\* Where a thread goes on after each of the barriers it waits at.
After == [first |-> "times", second |-> "execute", last |-> "exit", between |-> "phase2"]

\* pthread_barrier_wait(b) at the point l: the last of task_num threads releases all.
Barrier(t, b, l) ==
  /\ pc[t] = l /\ t \notin arrived[b]
  /\ IF Cardinality(arrived[b]) = task_num - 1
       THEN /\ arrived' = [arrived EXCEPT ![b] = {}]
            /\ pc' = [u \in Threads |-> IF u \in arrived[b] \cup {t} THEN After[pc[u]] ELSE pc[u]]
       ELSE /\ arrived' = [arrived EXCEPT ![b] = @ \cup {t}]
            /\ UNCHANGED pc
  /\ UNCHANGED <<created, clock, finish, time_up, ops, total_operations, testComplete, process>>

\* The loop of parallelWork that creates the threads; then the main thread joins in.
Launch ==
  /\ pc[0] = "launch"
  /\ created' = IF created < task_num THEN created + 1 ELSE created
  /\ pc' = IF created < task_num THEN [pc EXCEPT ![created] = "first"]
                                 ELSE [pc EXCEPT ![0] = "first"]
  /\ UNCHANGED <<arrived, clock, finish, time_up, ops, total_operations, testComplete, process>>

\* Thread 0 sets start and finish between the first two barriers.
Times(t) ==
  /\ pc[t] = "times"
  /\ finish' = IF t = 0 THEN clock + interval ELSE finish
  /\ Goto(t, "second")
  /\ UNCHANGED <<created, arrived, clock, time_up, ops, total_operations, testComplete, process>>

\* The barriers of thread_main, and the one between the phases of DequeLatencyTest.
AtBarrier(t) ==
  \/ \E l \in {"first", "second", "last"} : Barrier(t, "pthread_barrier", l)
  \/ Barrier(t, "latency_barrier", "between")

-----------------------------------------------------------------------------
\* The tests read gtc->finish once.
Execute(t) ==
  /\ pc[t] = "execute"
  /\ time_up' = [time_up EXCEPT ![t] = finish]
  /\ Goto(t, "loop")
  /\ UNCHANGED <<created, arrived, clock, finish, ops, total_operations, testComplete, process>>

\* One operation on the container, whatever the access pattern of the test.
Operate(t) ==
  /\ pc[t] = "loop" /\ clock < time_up[t] /\ ops[t] < MaxOps
  /\ ops' = [ops EXCEPT ![t] = @ + 1]
  /\ UNCHANGED <<pc, created, arrived, clock, finish, time_up, total_operations,
                 testComplete, process>>

\* The same in the second phase of DequeLatencyTest.
OperateAlone(t) ==
  /\ pc[t] = "loop2" /\ clock < time_up[t] /\ ops[t] < MaxOps
  /\ ops' = [ops EXCEPT ![t] = @ + 1]
  /\ UNCHANGED <<pc, created, arrived, clock, finish, time_up, total_operations,
                 testComplete, process>>

\* A container that never returns.
LoopForever(t) ==
  /\ t \in Loopers /\ pc[t] \in {"loop", "stuck"} /\ clock < time_up[t]
  /\ Goto(t, "stuck")
  /\ UNCHANGED <<created, arrived, clock, finish, time_up, ops, total_operations,
                 testComplete, process>>

\* The time is up; DequeLatencyTest drops what its first phase has counted.
TimeUp(t) ==
  /\ pc[t] \in {"loop", "loop2"} /\ clock >= time_up[t]
  /\ LET again == pc[t] = "loop" /\ Test = "latency" IN
       /\ ops' = IF again THEN [ops EXCEPT ![t] = 0] ELSE ops
       /\ Goto(t, IF again THEN "between" ELSE "complete")
  /\ UNCHANGED <<created, arrived, clock, finish, time_up, total_operations,
                 testComplete, process>>

\* The second phase of DequeLatencyTest: thread 0 alone, for another interval.
Phase2(t) ==
  /\ pc[t] = "phase2"
  /\ finish' = IF t = 0 THEN clock + interval ELSE finish
  /\ time_up' = IF t = 0 THEN [time_up EXCEPT ![0] = clock + interval] ELSE time_up
  /\ Goto(t, IF t = 0 THEN "loop2" ELSE "complete")
  /\ UNCHANGED <<created, arrived, clock, ops, total_operations, testComplete, process>>

-----------------------------------------------------------------------------
\* The end of executeTest: thread 0 is the one the alarm handler asks for.
Complete(t) ==
  /\ pc[t] = "complete"
  /\ testComplete' = (testComplete \/ t = 0)
  /\ Goto(t, "record")
  /\ UNCHANGED <<created, arrived, clock, finish, time_up, ops, total_operations, process>>

Record(t) ==
  /\ pc[t] = "record"
  /\ total_operations' = total_operations + ops[t]
  /\ Goto(t, "last")
  /\ UNCHANGED <<created, arrived, clock, finish, time_up, ops, testComplete, process>>

\* The main thread joins the others and cleans up.
Join ==
  /\ process = "running" /\ \A t \in Threads : pc[t] = "exit"
  /\ process' = "done"
  /\ UNCHANGED <<pc, created, arrived, clock, finish, time_up, ops, total_operations,
                 testComplete>>

\* SIGALRM: alarmhandler ends the process unless the test of thread 0 is complete.
AlarmHandler ==
  /\ timeOut /\ clock = alarmAt /\ process = "running" /\ ~testComplete
  /\ process' = "aborted"
  /\ UNCHANGED <<pc, created, arrived, clock, finish, time_up, ops, total_operations,
                 testComplete>>

\* A second passes when every thread waits for that: for the end of the interval,
\* for another thread, or for ever.
Idle(t) ==
  \/ pc[t] \in {"loop", "loop2"} /\ clock < time_up[t]
  \/ pc[t] \in {"stuck", "exit"}
  \/ \E b \in Barriers : t \in arrived[b]

Tick ==
  /\ process = "running" /\ clock < Horizon
  /\ \A t \in Threads : Idle(t)
  /\ ~(timeOut /\ clock = alarmAt /\ ~testComplete)
  /\ clock' = clock + 1
  /\ UNCHANGED <<pc, created, arrived, finish, time_up, ops, total_operations,
                 testComplete, process>>

ThreadStep(t) ==
  /\ process = "running"
  /\ \/ t = 0 /\ Launch
     \/ AtBarrier(t) \/ Times(t) \/ Execute(t) \/ Operate(t) \/ OperateAlone(t)
     \/ LoopForever(t)
     \/ TimeUp(t) \/ Phase2(t) \/ Complete(t) \/ Record(t)

Next == (\E t \in Threads : ThreadStep(t)) \/ Join \/ AlarmHandler \/ Tick

\* Threads are scheduled, time passes, and a signal that is due is delivered.
Spec ==
  /\ Init /\ [][Next]_vars
  /\ \A t \in Threads : WF_vars(ThreadStep(t))
  /\ WF_vars(Join) /\ WF_vars(AlarmHandler) /\ WF_vars(Tick)

-----------------------------------------------------------------------------
\* Type invariant.
TypeOK ==
  /\ pc \in [Threads -> {"launch", "unborn", "first", "times", "second", "execute", "loop",
                         "stuck", "between", "phase2", "loop2", "complete", "record",
                         "last", "exit"}]
  /\ created \in 1 .. task_num
  /\ arrived \in [Barriers -> SUBSET Threads]
  /\ clock \in 0 .. Horizon
  /\ finish \in Nat
  /\ time_up \in [Threads -> Nat]
  /\ ops \in [Threads -> 0 .. MaxOps]
  /\ total_operations \in 0 .. task_num * MaxOps
  /\ testComplete \in BOOLEAN
  /\ process \in {"running", "aborted", "done"}

\* Every thread that operates has the deadline thread 0 has set for this phase:
\* nobody reads finish before it is written, nor keeps an old one.
SameDeadline == \A t \in Threads :
  pc[t] \in {"loop", "loop2", "stuck"} => time_up[t] = finish /\ finish >= interval

\* What main prints: when the run is over the total is what the threads report.
AllCounted ==
  process = "done" =>
    total_operations = FoldSet(LAMBDA t, s : ops[t] + s, 0, Threads)

\* The alarm is for endless loops (ParallelLaunch.cpp:23 "in case of infinite
\* loop"): it ends no run whose threads all make progress.
NoFalseTimeout == process = "aborted" => \E t \in Threads : pc[t] = "stuck"

\* A run whose threads all make progress comes to this end and is not aborted.
Done == process = "done"

\* What the alarm achieves: the run ends, or thread 0 has finished its test before
\* the alarm and another thread loops, which the handler does not see.
EndedOrUnseen ==
  process # "running" \/ (testComplete /\ \E t \in Threads \ {0} : pc[t] = "stuck")
=============================================================================
