---------------------------- MODULE TimeStamping ----------------------------
(***************************************************************************)
(* The timestamps of the items of TSDeque, TSStack and TSQueue: two of the *)
(* classes of Timestamps, for one that reads a counter and one that reads  *)
(* the hardware clock and has two words.                                   *)
(***************************************************************************)
EXTENDS Integers

CONSTANTS
  TimeStamp,  \* "AtomicCounter" or "HardwareInterval"
  NumTimes    \* bound: values of the clock

TimeStampingAssumption == TimeStamp \in {"AtomicCounter", "HardwareInterval"}

VARIABLE clock

\* The stamp of an item that has none yet, later than all others, and the sentinel's.
Top      == <<NumTimes, NumTimes>>
Sentinel == <<0, 0>>
Stamps   == (0 .. NumTimes) \X (0 .. NumTimes)

\* timestamp1 is later than timestamp2.
is_later(timestamp1, timestamp2) == timestamp2[2] < timestamp1[1]

\* What is read now: the hardware clock moves whenever it is read, the counter when a stamp
\* is taken.
Now == <<clock, clock>>
Tick == clock' = clock + 1
ReadTick == IF TimeStamp = "AtomicCounter" THEN UNCHANGED clock ELSE Tick

\* An interval is assigned to an item, and read from it, a word at a time.
TwoWords == TimeStamp = "HardwareInterval"
=============================================================================
