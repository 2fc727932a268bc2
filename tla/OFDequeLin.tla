---------------------------- MODULE OFDequeLin ----------------------------
(***************************************************************************)
(* OFDeque is linearizable: it implements DequeSpec.  The contents of the  *)
(* abstract deque are the VALUE slots of the chained buffers, and an       *)
(* operation takes effect with the second CAS of its pair.  sawEmpty is a  *)
(* history variable: the abstract one, recomputed from the contents.       *)
(***************************************************************************)
EXTENDS OFDeque, SequencesExt

VARIABLE sawEmpty

BufferContents(b) ==
  LET valueSlots == SelectSeq([i \in 1..(BufferSize - 2) |-> slots[b][i]],
                              LAMBDA s : s.type = "VALUE")
  IN [i \in DOMAIN valueSlots |-> valueSlots[i].val]

Contents == FlattenSeq([k \in DOMAIN chain |-> BufferContents(chain[k])])

TookEffect == {"bumpLocal", "bumpGlobal", "return"}

Status == [t \in Threads |-> IF pc[t] = "idle" THEN "idle"
                             ELSE IF pc[t] \in TookEffect THEN "done" ELSE "pending"]

PendingPops == { t \in Threads : Status[t] = "pending" /\ ~Pushing(t) }

LinInit == Init /\ sawEmpty = {}

WatchEmpty ==
  sawEmpty' = { t \in PendingPops' : t \in sawEmpty \/ Contents' = <<>> }

LinNext == Next /\ WatchEmpty

LinSpec == LinInit /\ [][LinNext]_<<vars, sawEmpty>>

Abstract == INSTANCE DequeSpec
  WITH contents <- Contents, status <- Status, request <- op, reply <- result

\* Every call takes effect once, between its call and its return, in an order in
\* which a sequential deque would give the same answers (RDeque's interface).
Linearizable == Abstract!Spec

\* "left pop from queue. Returns EMPTY if empty." (RDeque.hpp): a pop whose last check
\* succeeds, so that it will answer EMPTY, has seen the deque empty since its call.
EmptyIfEmpty ==
  \A t \in Threads :
    pc[t] = "confirmEmpty" /\ slots[buf[t]][idx[t]].cnt = near[t].cnt =>
      t \in sawEmpty \/ Contents = <<>>

-----------------------------------------------------------------------------
(* The same with HazardTracker and BlockPool behind it: a retired buffer that no thread   *)
(* has reserved is given back to the pool, and newBuffer hands it out again, filled       *)
(* afresh (Prepare).  The scan of the hazard slots is one step here; its interleavings    *)
(* are in module HazardTracker.                                                           *)

\* Mutant of IsReserved: the scan of the hazard slots is left out.
NoneReserved(b) == FALSE

IsReserved(b) == \E u \in Threads : b \in Reserved(u)

\* HazardTracker::empty, for one buffer of the list of thread t.
Reclaim(t, b) ==
  /\ b \in retired[t]
  /\ ~IsReserved(b)
  /\ retired' = [retired EXCEPT ![t] = @ \ {b}]
  /\ pool' = pool \cup {b}
  /\ UNCHANGED <<slots, localHint, globalHint, hazard, cache, chain>>
  /\ UNCHANGED <<pc, op, result, edge, snaps, stage, upd>>

Reclaims == \E t \in Threads, b \in Buffers : Reclaim(t, b)
=============================================================================
