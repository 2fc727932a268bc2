---------------------------- MODULE DequeHistory ----------------------------
(***************************************************************************)
(* Linearizability of a history of deque operations.  For containers whose *)
(* operations take effect at no fixed step the answers are recorded and an *)
(* order that explains them is looked for afterwards.                      *)
(***************************************************************************)
EXTENDS DequeOps

VARIABLES
  finished,  \* per thread: its finished operations, with their answers
  began      \* per thread: how many operations of each thread had finished
             \* when its current one was called

history == <<finished, began>>

HistoryInit ==
  /\ finished = [t \in Threads |-> <<>>]
  /\ began = [t \in Threads |-> [u \in Threads |-> 0]]

Called(t) ==
  /\ began' = [began EXCEPT ![t] = [u \in Threads |-> Len(finished[u])]]
  /\ UNCHANGED finished

Returned(t, o, r) ==
  /\ finished' = [finished EXCEPT ![t] = Append(@, [op |-> o, reply |-> r, after |-> began[t]])]
  /\ UNCHANGED began

\* o may answer r on a deque that holds the sequence q.
MayAnswer(o, r, q) ==
  \/ o.kind = "push"
  \/ o.kind = "pop" /\ r = IF q = <<>> THEN Empty ELSE EndOf(o.side, q)

Leaves(o, q) ==
  IF o.kind = "push" THEN AtEnd(o.side, o.val, q)
  ELSE IF q = <<>> THEN q ELSE WithoutEnd(o.side, q)

\* The operations from position p of every thread on can be put in an order that explains
\* their answers on a deque holding q, each after all that had finished at its call.
RECURSIVE Explained(_, _)
Explained(p, q) ==
  \/ \A t \in Threads : p[t] = Len(finished[t])
  \/ \E t \in Threads :
       /\ p[t] < Len(finished[t])
       /\ LET c == finished[t][p[t] + 1] IN
            /\ \A u \in Threads : c.after[u] <= p[u]
            /\ MayAnswer(c.op, c.reply, q)
            /\ Explained([p EXCEPT ![t] = @ + 1], Leaves(c.op, q))

\* The same with the pops free to take any of the values, which differ: an order of the
\* operations that explains why a pop found something or nothing.
RECURSIVE PoolExplained(_, _)
PoolExplained(p, pool) ==
  \/ \A t \in Threads : p[t] = Len(finished[t])
  \/ \E t \in Threads :
       /\ p[t] < Len(finished[t])
       /\ LET c == finished[t][p[t] + 1] IN
            /\ \A u \in Threads : c.after[u] <= p[u]
            /\ c.op.kind = "pop" => IF pool = {} THEN c.reply = Empty ELSE c.reply \in pool
            /\ PoolExplained([p EXCEPT ![t] = @ + 1],
                 IF c.op.kind = "push" THEN pool \cup {c.op.val} ELSE pool \ {c.reply})

\* The same with pops that may take any of the k values nearest to their end; the values
\* differ.
Without(v, q) == SelectSeq(q, LAMBDA w : w # v)

RECURSIVE RelaxedExplained(_, _, _)
RelaxedExplained(p, q, k) ==
  \/ \A t \in Threads : p[t] = Len(finished[t])
  \/ \E t \in Threads :
       /\ p[t] < Len(finished[t])
       /\ LET c == finished[t][p[t] + 1]
              near == IF c.op.side = "L" THEN 1 .. k ELSE Len(q) - k + 1 .. Len(q)
          IN
            /\ \A u \in Threads : c.after[u] <= p[u]
            /\ c.op.kind = "pop" =>
                 IF q = <<>> THEN c.reply = Empty ELSE \E j \in near \cap DOMAIN q : q[j] = c.reply
            /\ RelaxedExplained([p EXCEPT ![t] = @ + 1],
                 IF c.op.kind = "push" THEN AtEnd(c.op.side, c.op.val, q) ELSE Without(c.reply, q), k)

OutOfOrder(k) == RelaxedExplained([t \in Threads |-> 0], <<>>, k)
HistoryExplained == Explained([t \in Threads |-> 0], <<>>)
EmptyExplained == PoolExplained([t \in Threads |-> 0], {})
=============================================================================
