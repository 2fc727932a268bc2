----------------------------- MODULE MCOFDeque -----------------------------
(***************************************************************************)
(* OFDequeLin for TLC: every thread runs a script of operations.  Thread   *)
(* t1 first runs a prelude alone: it brings the deque to a state in which  *)
(* the scripts meet at an interesting edge.                                *)
(***************************************************************************)
EXTENDS OFDequeLin, TLC

CONSTANTS
  t1, t2, t3, b1, b2, b3, b4,  \* model values
  Scenarios,   \* pairs of the operations that t1 runs first, alone, and a function from
               \* threads to the operations they run after that
  MaxFailed,   \* bound on the CAS pairs of which only the first one succeeds
  Reclaiming   \* are retired buffers given back to the pool?

VARIABLES
  prelude,  \* the operations of the prelude not yet returned
  todo,     \* the operations each thread has still to call
  failed,   \* how many CAS pairs have failed after their casSafe
  solo      \* the thread that runs alone from now on, or Null

linvars == <<vars, sawEmpty>>
mcvars == <<linvars, prelude, todo, failed, solo>>

MCInit ==
  /\ LinInit
  /\ \E s \in Scenarios : prelude = s[1] /\ todo = s[2]
  /\ failed = 0
  /\ solo = Null

MCCall(t) ==
  \/ /\ prelude # <<>> /\ t = t1
     /\ Call(t, Head(prelude))
     /\ UNCHANGED <<prelude, todo, failed>>
  \/ /\ prelude = <<>> /\ todo[t] # <<>>
     /\ Call(t, Head(todo[t]))
     /\ todo' = [todo EXCEPT ![t] = Tail(@)]
     /\ UNCHANGED <<prelude, failed>>

\* Is t about to fail a pair whose casSafe has succeeded?
Failing(t) == pc[t] = "casEffect" /\ ~Holds(EffectTarget(t))

Run(t) ==
  /\ Step(t)
  /\ prelude' = IF prelude # <<>> /\ pc[t] = "return" THEN Tail(prelude) ELSE prelude
  /\ failed' = IF Failing(t) THEN failed + 1 ELSE failed
  /\ UNCHANGED todo

\* Two threads may fail each other's pairs for ever: obstruction freedom allows it.
\* At the bound a thread stops before its pair fails, the others go on.
CutOff(t) == Failing(t) /\ failed >= MaxFailed

MCStep(t) == ~CutOff(t) /\ Run(t)

\* The end of the scripts: any other state without a step is a deadlock.
Finished == \A t \in Threads : CutOff(t) \/ (pc[t] = "idle" /\ todo[t] = <<>>)
Stop == prelude = <<>> /\ Finished /\ UNCHANGED mcvars

MCNext ==
  /\ solo = Null /\ UNCHANGED solo
  /\ \/ (\E t \in Threads : MCStep(t) \/ MCCall(t)) /\ WatchEmpty
     \/ Reclaiming /\ Reclaims /\ WatchEmpty /\ UNCHANGED <<prelude, todo, failed>>
     \/ Stop

MCSpec == MCInit /\ [][MCNext]_mcvars

\* All buffers but the first are interchangeable.
BufferSymmetry == Permutations(Buffers \ {FirstBuffer})

-----------------------------------------------------------------------------
(* Obstruction freedom: "an unbounded extension of the obstruction-free double-ended   *)
(* queue" (README.md).  At an arbitrary instant, with every operation stopped wherever *)
(* it happens to be, one thread is left to run alone: it must complete its operation.  *)

GoSolo(t) ==
  /\ solo = Null /\ prelude = <<>> /\ pc[t] # "idle"
  /\ solo' = t
  /\ UNCHANGED <<linvars, prelude, todo, failed>>

SoloStep(t) == solo = t /\ Run(t) /\ WatchEmpty /\ UNCHANGED solo

SoloNext == MCNext \/ \E t \in Threads : GoSolo(t) \/ SoloStep(t)

\* The only fairness: the thread that runs alone does run.
SoloSpec ==
  /\ MCInit /\ [][SoloNext]_mcvars
  /\ \A t \in Threads : WF_mcvars(SoloStep(t))

\* A thread that runs alone completes its operation, from whatever state the
\* interrupted operations of the other threads have left the deque in.
ObstructionFree == \A t \in Threads : solo = t ~> pc[t] = "idle"

-----------------------------------------------------------------------------
(* A pop that finds its edge and is then overtaken: t2 waits before it reads the edge  *)
(* until t1 has three operations left.                                                 *)

Patience == 3

Overtaken ==
  prelude = <<>> /\ Len(todo[t1]) > Patience =>
    \/ pc[t2] = "loadNear"
    \/ pc[t1] = "idle" /\ pc[t2] \in {"idle", "loadHint", "reserveHint", "checkHint"} \cup Searching

OvertakenSpec == MCInit /\ [][MCNext /\ Overtaken']_mcvars

-----------------------------------------------------------------------------
(* Values are numbers; a prelude pushes 1, 2, ..., thread t pushes from 11 or 21. *)

Calls(v) == {Push("L", v), Push("R", v), Pop("L"), Pop("R")}

\* The deque empty, with a value at the border of its first buffer, with the left
\* edge straddling two buffers (with and without values), with the first buffer
\* emptied from the right.  Their mirror images behave alike.
Shapes ==
  LET l == Push("L", 1) m == Push("L", 2) IN
  { <<>>, <<l>>, <<l, m>>, <<l, m, Pop("L")>>, <<l, m, Pop("L"), Pop("R")>>,
    <<l, m, Pop("R")>>, <<l, m, Pop("R"), Pop("R")>> }

\* The deque with a value on the left of an edge that straddles two buffers, the
\* outer one empty; and the same with no value at all.
Straddling ==
  LET l == Push("L", 1) m == Push("L", 2) IN
  { <<l, m, Pop("L")>>, <<l, m, Pop("L"), Pop("R")>> }

\* The first of these: the next left pop seals the outer buffer.
Lopsided == { <<Push("L", 1), Push("L", 2), Pop("L")>> }

\* A value at the border of the first buffer, or the first shape of Straddling.
BorderOrStraddling == { <<Push("L", 1)>> } \cup Lopsided

\* Values in the interior of a buffer with three value slots.
Interior == { <<>>, <<Push("R", 1)>>, <<Push("R", 1), Push("L", 2)>> }

\* One operation of either kind and side for each of two threads.
OneEach ==
  { (t1 :> <<o>>) @@ (t2 :> <<p>>) : o \in Calls(11), p \in Calls(21) }

\* Two threads run one or two operations each.  In the first script a pop on the right
\* can find its own buffer sealed by the pop on the left.
TwoEach ==
  { (t1 :> <<Pop("L")>>) @@ (t2 :> <<Pop("R"), Pop("R")>>),
    (t1 :> <<Pop("L"), Pop("L")>>) @@ (t2 :> <<Pop("R"), Push("L", 21)>>),
    (t1 :> <<Push("L", 11), Pop("L")>>) @@ (t2 :> <<Pop("L"), Push("R", 21)>>),
    (t1 :> <<Pop("L"), Push("R", 11)>>) @@ (t2 :> <<Pop("R"), Push("L", 21)>>) }

\* Three threads on one value: pops on both sides, with a second operation on the right.
ThreeThreads ==
  { (t1 :> <<Pop("L")>>) @@ (t2 :> <<Pop("R")>>) @@ (t3 :> <<o>>) :
      o \in {Push("R", 31), Pop("R")} }

\* A pop against two pops on the other side, and a push or pop against a pop on its own.
Rivals ==
  { (t1 :> <<Pop("L")>>) @@ (t2 :> <<Pop("R"), Pop("R")>>),
    (t1 :> <<Push("L", 11)>>) @@ (t2 :> <<Pop("L")>>),
    (t1 :> <<Pop("L")>>) @@ (t2 :> <<Pop("L")>>) }

\* t1 removes and retires the outer buffer while t2 appends on the left, or drains the
\* deque from the right and appends there: t2's buffers are the ones t1 has retired.
Reusing ==
  { (t1 :> <<Pop("L")>>) @@ (t2 :> ops) : ops \in
      { <<Push("L", 11), Push("L", 21)>>, <<Pop("R"), Push("L", 11)>>,
        <<Push("L", 21), Pop("R"), Pop("R"), Push("R", 11)>> } }

\* t2's pop is about to read the edge between the buffers of Lopsided.  t1 fills and
\* empties them from both sides, so that the one t2 is in is removed, a third one is
\* appended in its place and is removed as well.  The deque is never empty.
Emptied ==
  { (t2 :> <<Pop("L")>>) @@
    (t1 :> << Push("L", 11), Push("L", 12), Pop("R"), Pop("R"), Push("R", 13), Push("R", 14),
              Pop("L"), Pop("L"), Push("L", 15), Pop("R"), Pop("R") >>) }

\* The scenarios of the runs.
AnyPair == Shapes \X OneEach
LongerScripts ==
  { <<prefix, script @@ (t3 :> <<>>)>> : prefix \in Straddling, script \in TwoEach }
    \cup (Lopsided \X ThreeThreads)
Competing == BorderOrStraddling \X Rivals
Overtaking == Lopsided \X Emptied
WideAndReused == (Interior \X OneEach) \cup (Lopsided \X Reusing)
=============================================================================
