----------------------------- MODULE DequeSpec -----------------------------
(***************************************************************************)
(* What RDeque promises of a concurrent deque (src/deque/RDeque.hpp): every *)
(* left_push, right_push, left_pop and right_pop takes effect at one       *)
(* instant between its call and its return, a pop takes the value at its   *)
(* own end, and it returns EMPTY only if the deque was empty at some       *)
(* instant of the call.                                                    *)
(*                                                                         *)
(* The deques of the repository are checked to implement this module.      *)
(***************************************************************************)
EXTENDS DequeOps

VARIABLES
  contents,  \* the values of the deque, leftmost first
  status,    \* per thread: "idle", "pending" or "done" (has taken effect)
  request,   \* per thread: its current or last operation
  reply,     \* per thread: the result its operation will return
  sawEmpty   \* the pending pops during which the deque was empty at least once

vars == <<contents, status, request, reply, sawEmpty>>

Init ==
  /\ contents = <<>>
  /\ status  = [t \in Threads |-> "idle"]
  /\ request \in [Threads -> Operations]
  /\ reply   = [t \in Threads |-> Empty]
  /\ sawEmpty = {}

Finish(t, r) ==
  /\ status[t] = "pending"
  /\ status' = [status EXCEPT ![t] = "done"]
  /\ reply'  = [reply EXCEPT ![t] = r]
  /\ UNCHANGED request

Call(t) ==
  /\ status[t] = "idle"
  /\ status' = [status EXCEPT ![t] = "pending"]
  /\ \E o \in Operations : request' = [request EXCEPT ![t] = o]
  /\ UNCHANGED <<contents, reply>>

TakePush(t) ==
  /\ request[t].kind = "push"
  /\ contents' = AtEnd(request[t].side, request[t].val, contents)
  /\ Finish(t, request[t].val)

TakePop(t) ==
  /\ request[t].kind = "pop"
  /\ contents # <<>>
  /\ contents' = WithoutEnd(request[t].side, contents)
  /\ Finish(t, EndOf(request[t].side, contents))

TakeEmpty(t) ==
  /\ request[t].kind = "pop"
  /\ t \in sawEmpty
  /\ Finish(t, Empty)
  /\ UNCHANGED contents

Return(t) ==
  /\ status[t] = "done"
  /\ status' = [status EXCEPT ![t] = "idle"]
  /\ reply'  = [reply EXCEPT ![t] = Empty]
  /\ UNCHANGED <<contents, request>>

(***************************************************************************)
(* A pop that finds the deque empty need not know it at once: it is enough *)
(* that the deque was empty at some instant of the call.  sawEmpty records *)
(* that, for whichever step it happens in.                                 *)
(***************************************************************************)
PendingPops ==
  { t \in Threads : status[t] = "pending" /\ request[t].kind = "pop" }

WatchEmpty ==
  sawEmpty' = { t \in PendingPops' : t \in sawEmpty \/ contents' = <<>> }

Next ==
  /\ \E t \in Threads :
       Call(t) \/ TakePush(t) \/ TakePop(t) \/ TakeEmpty(t) \/ Return(t)
  /\ WatchEmpty

Spec == Init /\ [][Next]_vars
=============================================================================
