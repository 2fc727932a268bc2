----------------------------- MODULE PotatoTest -----------------------------
(***************************************************************************)
(* PotatoTest (src/deque/Tests.cpp): threads insert and remove values; one *)
(* negative value, the hot potato, goes from hand to hand, and whoever     *)
(* takes it must put one back before it does anything else.                *)
(*                                                                         *)
(* The container is a correct one in which an operation is one step and a  *)
(* remove takes any element: the test runs on deques, queues and stacks.   *)
(* All the test sees of a value is its sign: the potato is the negative    *)
(* one.                                                                    *)
(***************************************************************************)
EXTENDS UIDGenerator, FiniteSets, Bags

CONSTANT FollowOverflow  \* bound: whether runs go on when the UIDs are used up

PotatoAssumption == FollowOverflow \in BOOLEAN

VARIABLES
  contents,   \* the bag of the signs of the values in the container
  timeUp,     \* the finish time is over
  pc,         \* where each thread is
  hot,        \* whether it has the potato
  inserting,  \* its last UID
  usedSign    \* history variable: a UID has reached the sign bit of int32_t

vars == <<contents, timeUp, pc, hot, inserting, usedSign>>

Init ==
  /\ contents = EmptyBag
  /\ timeUp = FALSE
  /\ pc = [t \in Tids |-> "loop"]
  /\ hot = [t \in Tids |-> t = 0]
  /\ inserting = [t \in Tids |-> initial(t)]
  /\ usedSign = \E t \in Tids : inserting[t] >= 2^(Width - 1)

Goto(t, l) == pc' = [pc EXCEPT ![t] = l]
With(v) == contents (+) SetToBag({v})

\* inserting = ug->next(inserting, tid)
NextUID(t) ==
  /\ inserting' = [inserting EXCEPT ![t] = next(@)]
  /\ usedSign' = (usedSign \/ inserting'[t] >= 2^(Width - 1) \/ inserting'[t] = 0)
KeepUID == UNCHANGED <<inserting, usedSign>>

\* The time runs out.
TimeUp == timeUp = FALSE /\ timeUp' = TRUE /\ UNCHANGED <<contents, pc, hot>> /\ KeepUID

\* The head of the loop: leave, insert (the hot thread always does), or remove.
Loop(t) ==
  /\ pc[t] = "loop"
  /\ \/ timeUp /\ Goto(t, "last") /\ KeepUID
     \/ /\ ~timeUp
        /\ NextUID(t)
        /\ Goto(t, IF inserting'[t] = 0 THEN "last" ELSE "insert")
     \/ ~timeUp /\ ~hot[t] /\ Goto(t, "remove") /\ KeepUID
  /\ UNCHANGED <<contents, timeUp, hot>>

\* The hot thread sleeps for the penalty before it inserts.
Insert(t) ==
  /\ pc[t] = "insert"
  /\ contents' = With(IF hot[t] THEN SignNegated(inserting[t]) ELSE Sign(inserting[t]))
  /\ hot' = [hot EXCEPT ![t] = FALSE]
  /\ Goto(t, "loop")
  /\ UNCHANGED timeUp /\ KeepUID

\* while(j==EMPTY), and EMPTY is 0: the time is not looked at.
Remove(t) ==
  /\ pc[t] = "remove"
  /\ \/ contents = EmptyBag /\ UNCHANGED <<contents, pc, hot>>
     \/ \E j \in BagToSet(contents) :
          /\ contents' = contents (-) SetToBag({j})
          /\ hot' = [hot EXCEPT ![t] = j < 0]
          /\ Goto(t, "loop")
  /\ UNCHANGED timeUp /\ KeepUID

\* Mutant of Last: the thread leaves without a last value.
LastNone(t) ==
  /\ pc[t] = "last"
  /\ Goto(t, "done")
  /\ UNCHANGED <<contents, timeUp, hot>> /\ KeepUID

\* After the loop every thread puts in one more value, for those who still wait.
Last(t) ==
  /\ pc[t] = "last"
  /\ NextUID(t)
  /\ contents' = With(Sign(inserting'[t]))
  /\ Goto(t, "done")
  /\ UNCHANGED <<timeUp, hot>>

Step(t) ==
  /\ usedSign => FollowOverflow
  /\ Loop(t) \/ Insert(t) \/ Remove(t) \/ Last(t)

Next == TimeUp \/ \E t \in Tids : Step(t)

\* Time passes and every thread is scheduled.
Spec == Init /\ [][Next]_vars /\ WF_vars(TimeUp) /\ \A t \in Tids : WF_vars(Step(t))
-----------------------------------------------------------------------------
\* Type invariant.
TypeOK ==
  /\ IsABag(contents) /\ BagToSet(contents) \subseteq {-1, 0, 1}
  /\ timeUp \in BOOLEAN
  /\ pc \in [Tids -> {"loop", "insert", "remove", "last", "done"}]
  /\ hot \in [Tids -> BOOLEAN]
  /\ inserting \in [Tids -> 0 .. UINT_MAX]
  /\ usedSign \in BOOLEAN

Potatoes ==
  Cardinality({t \in Tids : hot[t]})
    + (IF BagIn(-1, contents) THEN contents[-1] ELSE 0)

\* Until a UID has reached the sign bit of int32_t, the potato is neither copied
\* nor lost: one thread has it or it is in the container.
OnePotato == ~usedSign => Potatoes = 1

\* No thread is left waiting in its remove, although that loop does not look at the
\* time: all of them have left the test, or the UIDs are used up.
AllLeft == usedSign \/ \A t \in Tids : pc[t] = "done"
=============================================================================
