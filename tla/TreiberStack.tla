---------------------------- MODULE TreiberStack ----------------------------
(***************************************************************************)
(* TreiberStack (scal-master/src/datastructures/treiber_stack.h): a linked *)
(* stack whose top is exchanged together with a tag.  push is Push("R"),   *)
(* pop and get_return_put_state are Pop("R").                              *)
(*                                                                         *)
(* Nodes come from ThreadLocalMemory and are never freed.                  *)
(***************************************************************************)
EXTENDS DequeOps

CONSTANT NumNodes  \* bound: nodes per thread

TreiberAssumption == NumNodes \in Nat /\ 0 \notin Threads

Node == Threads \X (1 .. NumNodes)
NULL == <<0, 0>>
NodePtr(node, tag) == [value |-> node, tag |-> tag % 65536]

VARIABLES
  top_,
  next, data,  \* of every node
  made,        \* how many nodes each thread has made
  pc, op,
  loc          \* local variables

vars == <<top_, next, data, made, pc, op, loc>>

NoLocals == [top_old |-> NodePtr(NULL, 0), n |-> NULL, item |-> Empty, put_state |-> 0]

Init ==
  /\ top_ = NodePtr(NULL, 0)
  /\ next = [n \in Node |-> NULL] /\ data = [n \in Node |-> Empty]
  /\ made = [t \in Threads |-> 0]
  /\ pc = [t \in Threads |-> "idle"]
  /\ op = [t \in Threads |-> Pop("R")]
  /\ loc = [t \in Threads |-> NoLocals]

Goto(t, l) == pc' = [pc EXCEPT ![t] = l]
Pushing(t) == op[t].kind = "push"

Call(t, o) ==
  LET n == <<t, made[t] + 1>> IN
  /\ pc[t] = "idle"
  /\ op' = [op EXCEPT ![t] = o]
  /\ IF o.kind = "push"
       THEN /\ made' = [made EXCEPT ![t] = @ + 1]
            /\ data' = [data EXCEPT ![n] = o.val]
            /\ loc' = [loc EXCEPT ![t] = [NoLocals EXCEPT !.n = n]]
       ELSE UNCHANGED <<made, data, loc>>
  /\ Goto(t, "top")
  /\ UNCHANGED <<top_, next>>

\* push links its node to the top it has loaded.
LoadTop(t) ==
  /\ pc[t] = "top"
  /\ loc' = [loc EXCEPT ![t].top_old = top_, ![t].put_state = top_.tag]
  /\ next' = IF Pushing(t) THEN [next EXCEPT ![loc[t].n] = top_.value] ELSE next
  /\ Goto(t, IF Pushing(t) THEN "swap" ELSE IF top_.value = NULL THEN "return" ELSE "next")
  /\ UNCHANGED <<top_, data, made, op>>

LoadNext(t) ==
  /\ pc[t] = "next"
  /\ loc' = [loc EXCEPT ![t].n = next[loc[t].top_old.value]]
  /\ Goto(t, "swap")
  /\ UNCHANGED <<top_, next, data, made, op>>

Swap(t) ==
  LET l == loc[t] IN
  /\ pc[t] = "swap"
  /\ IF top_ = l.top_old
       THEN /\ top_' = NodePtr(l.n, l.top_old.tag + 1)
            /\ loc' = IF Pushing(t) THEN loc ELSE [loc EXCEPT ![t].item = data[l.top_old.value]]
            /\ Goto(t, "return")
       ELSE UNCHANGED <<top_, loc>> /\ Goto(t, "top")
  /\ UNCHANGED <<next, data, made, op>>

Return(t) ==
  /\ pc[t] = "return"
  /\ loc' = [loc EXCEPT ![t] = NoLocals]
  /\ Goto(t, "idle")
  /\ UNCHANGED <<top_, next, data, made, op>>

Step(t) == LoadTop(t) \/ LoadNext(t) \/ Swap(t) \/ Return(t)
-----------------------------------------------------------------------------
\* The values from node n down, newest last.
ValuesFrom(n) ==
  LET values[m \in Node] == IF next[m] = NULL THEN <<data[m]>> ELSE Append(values[next[m]], data[m])
  IN IF n = NULL THEN <<>> ELSE values[n]

Contents == ValuesFrom(top_.value)

Status == [t \in Threads |-> IF pc[t] = "idle" THEN "idle" ELSE IF pc[t] = "return" THEN "done" ELSE "pending"]
Reply == [t \in Threads |-> IF pc[t] # "return" THEN Empty ELSE IF Pushing(t) THEN op[t].val ELSE loc[t].item]

\* The state that comes back with a false names an instant at which the stack was empty:
\* while the state is the same nothing has been pushed.
EmptyState == \A t \in Threads :
  pc[t] = "return" /\ ~Pushing(t) /\ loc[t].item = Empty /\ loc[t].put_state = top_.tag => top_.value = NULL

\* Type invariant.
TypeOK ==
  /\ top_ \in [value : Node \cup {NULL}, tag : 0 .. 65535]
  /\ next \in [Node -> Node \cup {NULL}] /\ data \in [Node -> Values \cup {Empty}]
  /\ made \in [Threads -> 0 .. NumNodes]
  /\ pc \in [Threads -> {"idle", "top", "next", "swap", "return"}]
  /\ op \in [Threads -> Operations]
  /\ \A t \in Threads : loc[t].n \in Node \cup {NULL} /\ loc[t].item \in Values \cup {Empty}
=============================================================================
