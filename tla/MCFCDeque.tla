----------------------------- MODULE MCFCDeque -----------------------------
(***************************************************************************)
(* Instances of FCDeque for TLC: each thread runs a script of operations.  *)
(***************************************************************************)
EXTENDS FCDeque

CONSTANT Scripts  \* the possible [Threads -> Seq(Operations)]

VARIABLE todo  \* the operations each thread has still to call

MCInit == LinInit /\ todo \in Scripts

MCCall(t) ==
  /\ todo[t] # <<>>
  /\ Call(t, Head(todo[t]))
  /\ todo' = [todo EXCEPT ![t] = Tail(@)]

Stop ==
  /\ \A t \in Threads : pc[t] = "idle" /\ todo[t] = <<>>
  /\ UNCHANGED <<linVars, todo>>

MCNext ==
  \/ \E t \in Threads : (MCCall(t) \/ (Step(t) /\ UNCHANGED todo)) /\ WatchEmpty
  \/ Stop

MCSpec == MCInit /\ [][MCNext]_<<linVars, todo>>

\* Nobody has to call an operation, but one that was called goes on.
MCFairSpec ==
  MCSpec /\ \A t \in Threads : WF_<<linVars, todo>>(Step(t) /\ WatchEmpty /\ UNCHANGED todo)

\* Two threads, two operations each: all pairs on a side against all pairs.
Pairs == {<<Push(s, 1), Pop(s)>> : s \in Sides} \cup {<<Pop("L"), Pop("R")>>}
           \cup {<<Push("L", 1), Push("R", 2)>>}
TwoEach == { f \in [Threads -> Pairs \cup {<<>>}] : \A t \in Threads : f[t] = <<>> <=> t > 1 }

\* Three threads: pops on both sides, and pushes that arrive in the middle of a round.
Three == {[t \in Threads |-> IF t = 0 THEN <<Push("L", 1), o>>
                             ELSE IF t = 1 THEN <<Pop("L")>> ELSE <<Pop("R")>>]
            : o \in {Push("R", 2), Pop("R")}}

TwoOrThree == TwoEach \cup Three
=============================================================================
