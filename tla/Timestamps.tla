----------------------------- MODULE Timestamps -----------------------------
(***************************************************************************)
(* The timestamp classes of the time-stamped pools                         *)
(* (scal-master/src/datastructures/ts_timestamp.h).  A timestamp is an     *)
(* interval <<first, last>>; the classes with one word have last = first.  *)
(*                                                                         *)
(* The threads take stamps and read the time.  finished and order are      *)
(* history variables: what every call returned, and which call had         *)
(* returned before which other one began.                                  *)
(*                                                                         *)
(* get_hwptime is the time stamp counter, taken to be one clock for all    *)
(* cores that has moved on at the next read of any of them.                *)
(***************************************************************************)
EXTENDS Integers, FiniteSets, FiniteSetsExt

CONSTANTS
  num_threads_,
  Kinds,   \* the classes
  delay_,  \* the length of a simulated interval
  Calls    \* bound: calls in all

Kinds_ == {"Hardware", "HardwareInterval", "SimulatedInterval", "AtomicCounter",
           "CAS", "Stuttering"}

TimestampsAssumption ==
  num_threads_ \in Nat \ {0} /\ Kinds \subseteq Kinds_ /\ delay_ \in Nat /\ Calls \in Nat

Threads == 0 .. num_threads_ - 1

VARIABLES
  kind,      \* the class in use
  clock_,    \* the hardware clock, or the counter of the class
  clocks_,   \* the thread-local clocks of StutteringTimestamp
  pc,        \* where each thread is
  call,      \* what it is doing: "set" or "read", and the number of the call
  ts,        \* the timestamp it has acquired so far
  loc,       \* its locals: the value loaded, the loop index and the latest time
  finished,  \* history: the calls that have returned, and their results
  order      \* history: the pairs of calls one after the other

vars == <<kind, clock_, clocks_, pc, call, ts, loc, finished, order>>

NoLocals == [timestamp |-> 0, i |-> 0, latest_time |-> 0]

Init ==
  /\ kind \in Kinds
  /\ clock_ = 1
  /\ clocks_ = [t \in Threads |-> 1]
  /\ pc = [t \in Threads |-> "idle"]
  /\ call = [t \in Threads |-> [what |-> "set", by |-> t, n |-> 0]]
  /\ ts = [t \in Threads |-> <<0, 0>>]
  /\ loc = [t \in Threads |-> NoLocals]
  /\ finished = {}
  /\ order = {}

Goto(t, l) == pc' = [pc EXCEPT ![t] = l]
SetLocal(t, f, v) == loc' = [loc EXCEPT ![t][f] = v]

\* timestamp1 is later than timestamp2.
is_later(timestamp1, timestamp2) == timestamp2[2] < timestamp1[1]

\* A call begins: what has returned by now comes before it.
Call(t) ==
  /\ pc[t] = "idle" /\ MapThenSumSet(LAMBDA u : call[u].n, Threads) < Calls
  /\ \E w \in {"set", "read"} :
       call' = [call EXCEPT ![t] = [what |-> w, by |-> t, n |-> @.n + 1]]
  /\ order' = order \cup { <<c.call, call'[t]>> : c \in finished }
  /\ loc' = [loc EXCEPT ![t] = NoLocals]
  /\ Goto(t, IF kind = "Stuttering" THEN "scan" ELSE call'[t].what)
  /\ UNCHANGED <<kind, clock_, clocks_, ts, finished>>

\* The call returns with the timestamp v.
Finish(t, v) ==
  /\ ts' = [ts EXCEPT ![t] = v]
  /\ finished' = finished \cup {[call |-> call[t], ts |-> v]}
  /\ Goto(t, "idle")

\* Three classes read the hardware clock.
Clocked == kind \in {"Hardware", "HardwareInterval", "SimulatedInterval"}

ReadTime(t) ==
  /\ pc[t] = "read"
  /\ clock_' = IF Clocked THEN clock_ + 1 ELSE clock_
  /\ Finish(t, <<clock_', clock_'>>)
  /\ UNCHANGED <<kind, clocks_, call, loc, order>>

SetHardware(t) ==
  /\ pc[t] = "set" /\ Clocked
  /\ clock_' = clock_ + 1
  /\ \/ kind = "Hardware" /\ Finish(t, <<clock_', clock_'>>)
     \/ kind = "SimulatedInterval" /\ Finish(t, <<clock_', clock_' + delay_>>)
     \/ /\ kind = "HardwareInterval"
        /\ ts' = [ts EXCEPT ![t] = <<clock_', 0>>] /\ Goto(t, "wait")
        /\ UNCHANGED finished
  /\ UNCHANGED <<kind, clocks_, call, loc, order>>

\* The second timestamp of the interval, when delay_ has passed.
EndInterval(t) ==
  /\ pc[t] = "wait"
  /\ clock_' = clock_ + 1
  /\ Finish(t, <<ts[t][1], clock_'>>)
  /\ UNCHANGED <<kind, clocks_, call, loc, order>>

SetCounter(t) ==
  /\ pc[t] = "set" /\ kind = "AtomicCounter"
  /\ clock_' = clock_ + 1
  /\ Finish(t, <<clock_, clock_>>)
  /\ UNCHANGED <<kind, clocks_, call, loc, order>>

\* CASTimestamp: load the clock, wait, and see whether it has moved.
LoadCAS(t) ==
  /\ pc[t] = "set" /\ kind = "CAS"
  /\ SetLocal(t, "timestamp", clock_)
  /\ ts' = [ts EXCEPT ![t] = <<clock_ + 1, 0>>]
  /\ Goto(t, "delayed")
  /\ UNCHANGED <<kind, clock_, clocks_, call, finished, order>>

ReloadCAS(t) ==
  /\ pc[t] = "delayed"
  /\ IF clock_ = loc[t].timestamp THEN Goto(t, "cas") /\ UNCHANGED <<ts, finished>>
                                  ELSE Finish(t, <<ts[t][1], clock_>>)
  /\ UNCHANGED <<kind, clock_, clocks_, call, loc, order>>

\* Mutant of CASClock: the clock does not move.
CASClockStill(t) ==
  /\ pc[t] = "cas"
  /\ Finish(t, <<ts[t][1], loc[t].timestamp + 1>>)
  /\ UNCHANGED <<kind, clock_, clocks_, call, loc, order>>

\* compare_exchange_weak: on the x86 the code is built for it fails only when the clock
\* has moved, and then timestamp is the clock's value.
CASClock(t) ==
  /\ pc[t] = "cas"
  /\ clock_' = IF clock_ = loc[t].timestamp THEN clock_ + 1 ELSE clock_
  /\ Finish(t, <<ts[t][1], clock_'>>)
  /\ UNCHANGED <<kind, clocks_, call, loc, order>>

\* StutteringTimestamp: the latest of all thread-local clocks, one after the other.
Scan(t) ==
  /\ pc[t] = "scan"
  /\ loc' = [loc EXCEPT ![t].latest_time = IF clocks_[loc[t].i] > @ THEN clocks_[loc[t].i] ELSE @,
                        ![t].i = @ + 1]
  /\ Goto(t, IF loc[t].i + 1 < num_threads_ THEN "scan" ELSE "scanned")
  /\ UNCHANGED <<kind, clock_, clocks_, call, ts, finished, order>>

\* A stamp moves the thread's own clock, a read of the time does not.
Scanned(t) ==
  LET latest_time == loc[t].latest_time IN
  /\ pc[t] = "scanned"
  /\ IF call[t].what = "set"
       THEN /\ clocks_' = [clocks_ EXCEPT ![t] = latest_time + 1]
            /\ Finish(t, <<latest_time + 1, latest_time + 1>>)
       ELSE Finish(t, <<latest_time, latest_time>>) /\ UNCHANGED clocks_
  /\ UNCHANGED <<kind, clock_, call, loc, order>>

Next == \E t \in Threads :
  \/ Call(t) \/ ReadTime(t) \/ SetHardware(t) \/ EndInterval(t) \/ SetCounter(t)
  \/ LoadCAS(t) \/ ReloadCAS(t) \/ CASClock(t) \/ Scan(t) \/ Scanned(t)

Spec == Init /\ [][Next]_vars
-----------------------------------------------------------------------------
CallIds == [what : {"set", "read"}, by : Threads, n : 0 .. Calls]

\* Type invariant; no stamp is that of the sentinel, 0.
TypeOK ==
  /\ kind \in Kinds
  /\ clock_ \in Nat /\ clocks_ \in [Threads -> Nat]
  /\ pc \in [Threads -> {"idle", "read", "set", "wait", "delayed", "cas", "scan", "scanned"}]
  /\ call \in [Threads -> CallIds]
  /\ ts \in [Threads -> Nat \X Nat]
  /\ loc \in [Threads -> [timestamp : Nat, i : 0 .. num_threads_, latest_time : Nat]]
  /\ finished \subseteq [call : CallIds, ts : (Nat \ {0}) \X (Nat \ {0})]
  /\ order \subseteq CallIds \X CallIds

InOrder(wa, wb, P(_, _)) == \A a, b \in finished :
  (a.call.what = wa /\ b.call.what = wb /\ <<a.call, b.call>> \in order) => P(a.ts, b.ts)

\* Of two stamps taken one after the other the first is never the later one: this is
\* what the order of items in the pools rests on, for every class.
NeverReversed == InOrder("set", "set", LAMBDA a, b : ~is_later(a, b))

\* Except for simulated intervals the second one is later: sequential insertions are
\* never taken for concurrent ones.
SequentialOrdered ==
  kind # "SimulatedInterval" => InOrder("set", "set", LAMBDA a, b : is_later(b, a))

\* An item that was stamped before a removal read its start time may be removed, and
\* one that is stamped after a removal was invoked is not older than the invocation.
StartTimeSound ==
  /\ InOrder("set", "read", LAMBDA a, r : ~is_later(a, r))
  /\ InOrder("read", "set", LAMBDA r, a : ~is_later(r, a))
=============================================================================
