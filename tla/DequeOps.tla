----------------------------- MODULE DequeOps -----------------------------
(***************************************************************************)
(* The operations of RDeque (src/deque/RDeque.hpp), and what each of them  *)
(* does to the sequence of values in a deque.                              *)
(***************************************************************************)
EXTENDS Integers, Sequences

CONSTANTS
  Threads,  \* the thread identifiers (tid)
  Values,   \* the values clients push
  Empty     \* RContainer's EMPTY, what a pop of an empty deque returns

\* A client that pushed EMPTY could not tell it from the answer of an empty deque.
ASSUME EmptyAssumption == Empty \notin Values

Sides == {"L", "R"}

Push(s, v) == [kind |-> "push", side |-> s, val |-> v]
Pop(s)     == [kind |-> "pop",  side |-> s, val |-> Empty]

Operations == { Push(s, v) : s \in Sides, v \in Values } \cup { Pop(s) : s \in Sides }

\* The sequence q, leftmost value first, seen from side s.
AtEnd(s, v, q)   == IF s = "L" THEN <<v>> \o q ELSE Append(q, v)
EndOf(s, q)      == IF s = "L" THEN Head(q) ELSE q[Len(q)]
WithoutEnd(s, q) == IF s = "L" THEN Tail(q) ELSE SubSeq(q, 1, Len(q) - 1)
=============================================================================
