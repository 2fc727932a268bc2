------------------------------ MODULE MMDeque ------------------------------
(***************************************************************************)
(* MMDeque<T> (src/deque/MMDeque.hpp): Michael's deque, a doubly linked    *)
(* list whose two ends and status are one word, the anchor.  A push swings *)
(* its end of the anchor first and links the node from the inside later    *)
(* (stabilize); whoever finds the anchor unstable helps.                   *)
(*                                                                         *)
(* The code is written out for either side; the model is written for the   *)
(* side of the operation.  One action per access to the anchor, a link or  *)
(* a reservation.  The loads and stores are sequentially consistent: the   *)
(* reservations are such stores, all else is published by a CAS.           *)
(*                                                                         *)
(* HazardTracker appears as its promise (module HazardTracker): a retired  *)
(* node may be freed, and pushed again, as soon as no reservation has      *)
(* stood since before it was retired.                                      *)
(***************************************************************************)
EXTENDS DequeOps, FiniteSets, SequencesExt

CONSTANTS
  Nodes,    \* bound: the nodes of the pool
  Null,
  Garbage   \* the data of a node nobody has used

MMDequeAssumption ==
  Null \notin Nodes /\ Garbage \notin Values \cup {Empty}

VARIABLES
  m_anchor,  \* left end, right end and status
  link,      \* the counted pointers left and right of every node
  data,      \* the value of every node
  haz,       \* the three reservations of every thread
  free,      \* the nodes in the pool
  kept,      \* per retired node, the reservations that have stood since; {} if not retired
  retired,   \* the retired nodes
  pc,        \* where each thread is
  loc,       \* its locals
  op,        \* its operation
  result     \* what it will return

vars == <<m_anchor, link, data, haz, free, kept, retired, pc, loc, op, result>>
-----------------------------------------------------------------------------
Other(s) == IF s = "L" THEN "R" ELSE "L"
Anchor(ends, st) == [ends |-> ends, status |-> st]
PushStatus(s) == IF s = "L" THEN "LPUSH" ELSE "RPUSH"

\* The anchor with node n at end s.
WithEnd(a, s, n, st) == Anchor([a.ends EXCEPT ![s] = n], st)
Both(n, st) == Anchor([s \in Sides |-> n], st)

Ptr(n, k) == [ptr |-> n, sn |-> k]

\* a is the anchor that was loaded, prev and prevNext belong to stabilize, side is the side
\* it works on and back the place to go on at.
NoLocals == [a |-> Both(Null, "STABLE"), node |-> Null, prev |-> Null,
             prevNext |-> Ptr(Null, 0), side |-> "L", back |-> "anchor"]

Init ==
  /\ m_anchor = Both(Null, "STABLE")
  /\ link = [n \in Nodes |-> [s \in Sides |-> Ptr(Null, 0)]]
  /\ data = [n \in Nodes |-> Garbage]
  /\ haz = [t \in Threads |-> [i \in 0 .. 2 |-> Null]]
  /\ free = Nodes
  /\ kept = [n \in Nodes |-> {}]
  /\ retired = {}
  /\ pc = [t \in Threads |-> "idle"]
  /\ loc = [t \in Threads |-> NoLocals]
  /\ op = [t \in Threads |-> Pop("L")]
  /\ result = [t \in Threads |-> Empty]

Goto(t, l) == pc' = [pc EXCEPT ![t] = l]
Pushing(t) == op[t].kind = "push"
Side(t) == op[t].side
Reclaim == <<free, kept, retired>>

\* A call; a push allocates its node and sets the value.
Call(t, o) ==
  /\ pc[t] = "idle"
  /\ op' = [op EXCEPT ![t] = o]
  /\ Goto(t, "anchor")
  /\ IF o.kind = "push"
       THEN \E n \in free :
              /\ free' = free \ {n}
              /\ data' = [data EXCEPT ![n] = o.val]
              /\ loc' = [loc EXCEPT ![t] = [NoLocals EXCEPT !.node = n]]
       ELSE UNCHANGED <<free, data>> /\ loc' = [loc EXCEPT ![t] = NoLocals]
  /\ UNCHANGED <<m_anchor, link, haz, kept, retired, result>>

\* stabilize is called for anchor a, and goes on at back.
Stabilizing(t, a, back) ==
  loc' = [loc EXCEPT ![t] =
    [NoLocals EXCEPT !.node = loc[t].node, !.a = a, !.back = back,
                     !.side = IF a.status = "LPUSH" THEN "L" ELSE "R"]]

\* Mutant of GetAnchor: a pop does not mind an unstable anchor.
GetAnchorUnstable(t) ==
  LET a == m_anchor s == Side(t) IN
  /\ pc[t] = "anchor"
  /\ IF a.ends[s] # Null /\ a.status # "STABLE" /\ Pushing(t)
       THEN Stabilizing(t, a, "anchor") /\ Goto(t, "stabilize0")
       ELSE /\ loc' = [loc EXCEPT ![t] = [NoLocals EXCEPT !.node = loc[t].node, !.a = a]]
            /\ Goto(t, IF Pushing(t) THEN "push"
                       ELSE IF a.ends[s] = Null THEN "return"
                       ELSE IF a.ends["L"] = a.ends["R"] THEN "popLast" ELSE "pop0")
  /\ link' = IF Pushing(t) /\ a.ends[s] # Null /\ a.status = "STABLE"
               THEN [link EXCEPT ![loc[t].node][Other(s)] = Ptr(a.ends[s], 0)] ELSE link
  /\ UNCHANGED <<m_anchor, data, haz, Reclaim, op, result>>

\* getAnchor at the head of the loop, and what it leads to.
GetAnchor(t) ==
  LET a == m_anchor s == Side(t) IN
  /\ pc[t] = "anchor"
  /\ IF a.ends[s] # Null /\ a.status # "STABLE" /\ (Pushing(t) \/ a.ends["L"] # a.ends["R"])
       THEN Stabilizing(t, a, "anchor") /\ Goto(t, "stabilize0")
       ELSE /\ loc' = [loc EXCEPT ![t] = [NoLocals EXCEPT !.node = loc[t].node, !.a = a]]
            /\ Goto(t, IF Pushing(t) THEN "push"
                       ELSE IF a.ends[s] = Null THEN "return"
                       ELSE IF a.ends["L"] = a.ends["R"] THEN "popLast" ELSE "pop0")
  /\ link' = IF Pushing(t) /\ a.ends[s] # Null /\ a.status = "STABLE"
               THEN [link EXCEPT ![loc[t].node][Other(s)] = Ptr(a.ends[s], 0)] ELSE link
  /\ UNCHANGED <<m_anchor, data, haz, Reclaim, op, result>>

\* casAnchor of a push: an empty deque keeps its status, else the push is unstable.
PushCas(t) ==
  LET a == loc[t].a n == loc[t].node s == Side(t)
      new == IF a.ends[s] = Null THEN Both(n, a.status) ELSE WithEnd(a, s, n, PushStatus(s))
  IN
  /\ pc[t] = "push"
  /\ IF m_anchor = a
       THEN /\ m_anchor' = new
            /\ result' = [result EXCEPT ![t] = op[t].val]
            /\ IF a.ends[s] = Null THEN Goto(t, "return") /\ UNCHANGED loc
               ELSE Stabilizing(t, new, "return") /\ Goto(t, "stabilize0")
       ELSE Goto(t, "anchor") /\ UNCHANGED <<m_anchor, result, loc>>
  /\ UNCHANGED <<link, data, haz, Reclaim, op>>

\* reserve: whatever the slot protected before is not kept by it any more.
Reserve(t, i, n) ==
  /\ haz' = [haz EXCEPT ![t][i] = n]
  /\ kept' = [m \in Nodes |-> IF m = n THEN kept[m] ELSE kept[m] \ {<<t, i>>}]
  /\ UNCHANGED <<free, retired>>

\* The two reservations of a pop and of stabilize.
ReserveEnds(t) ==
  /\ \/ pc[t] = "pop0" /\ Goto(t, "pop1") /\ Reserve(t, 0, loc[t].a.ends["L"])
     \/ pc[t] = "pop1" /\ Goto(t, "popCheck") /\ Reserve(t, 1, loc[t].a.ends["R"])
     \/ pc[t] = "stabilize0" /\ Goto(t, "stabilize1") /\ Reserve(t, 0, loc[t].a.ends["L"])
     \/ pc[t] = "stabilize1" /\ Goto(t, "stabCheck1") /\ Reserve(t, 1, loc[t].a.ends["R"])
  /\ UNCHANGED <<m_anchor, link, data, loc, op, result>>

\* a != getAnchor() is false.
Same(t) == m_anchor = loc[t].a

\* A check after reservations: the anchor has not moved, so they hold.  stabilize returns
\* without clearing its reservations.
Recheck(t) ==
  /\ \/ /\ pc[t] = "popCheck"
        /\ Goto(t, IF Same(t) THEN "popPrev" ELSE "anchor")
     \/ /\ pc[t] = "stabCheck1"
        /\ Goto(t, IF Same(t) THEN "stabPrev" ELSE loc[t].back)
     \/ /\ pc[t] = "stabCheck2"
        /\ Goto(t, IF Same(t) THEN "stabNext" ELSE loc[t].back)
     \/ /\ pc[t] = "stabCheck3"
        /\ Goto(t, IF Same(t) THEN "stabLink" ELSE loc[t].back)
  /\ UNCHANGED <<m_anchor, link, data, haz, Reclaim, loc, op, result>>

\* The node inside the end of side s.
PrevOf(t, s) == link[loc[t].a.ends[s]][Other(s)].ptr

PopPrev(t) ==
  /\ pc[t] = "popPrev"
  /\ loc' = [loc EXCEPT ![t].prev = PrevOf(t, Side(t))]
  /\ Goto(t, "pop")
  /\ UNCHANGED <<m_anchor, link, data, haz, Reclaim, op, result>>

\* casAnchor of a pop, of the last node or of one of many.
PopCas(t) ==
  LET a == loc[t].a IN
  /\ pc[t] \in {"popLast", "pop"}
  /\ IF m_anchor = a
       THEN /\ m_anchor' = IF pc[t] = "popLast" THEN Both(Null, a.status)
                           ELSE WithEnd(a, Side(t), loc[t].prev, a.status)
            /\ result' = [result EXCEPT ![t] = data[a.ends[Side(t)]]]
            /\ Goto(t, "retire")
       ELSE Goto(t, "anchor") /\ UNCHANGED <<m_anchor, result>>
  /\ UNCHANGED <<link, data, haz, Reclaim, loc, op>>

\* The node is retired, and clearAll.  (The value was read after the CAS; the node is out
\* of reach and its value does not change.)
Retire(t) ==
  LET n == loc[t].a.ends[Side(t)] IN
  /\ pc[t] = "retire"
  /\ retired' = retired \cup {n}
  /\ kept' = [m \in Nodes |->
       IF m = n THEN {r \in (Threads \ {t}) \X (0 .. 2) : haz[r[1]][r[2]] = n}
       ELSE kept[m] \ ({t} \X (0 .. 2))]
  /\ haz' = [haz EXCEPT ![t] = [i \in 0 .. 2 |-> Null]]
  /\ Goto(t, "return")
  /\ UNCHANGED <<m_anchor, link, data, free, loc, op, result>>

\* stabilizeLeft, stabilizeRight.
StabPrev(t) ==
  /\ pc[t] = "stabPrev"
  /\ loc' = [loc EXCEPT ![t].prev = PrevOf(t, loc[t].side)]
  /\ Goto(t, "stabilize2")
  /\ UNCHANGED <<m_anchor, link, data, haz, Reclaim, op, result>>

ReservePrev(t) ==
  /\ pc[t] = "stabilize2"
  /\ Reserve(t, 2, loc[t].prev)
  /\ Goto(t, "stabCheck2")
  /\ UNCHANGED <<m_anchor, link, data, loc, op, result>>

\* Mutant of StabNext: the link is taken to be there.
StabNextTrusting(t) ==
  /\ pc[t] = "stabNext"
  /\ Goto(t, "stable")
  /\ UNCHANGED <<m_anchor, link, data, haz, Reclaim, loc, op, result>>

\* The inner node's link outward.
StabNext(t) ==
  LET next == link[loc[t].prev][loc[t].side] IN
  /\ pc[t] = "stabNext"
  /\ loc' = [loc EXCEPT ![t].prevNext = next]
  /\ Goto(t, IF next.ptr # loc[t].a.ends[loc[t].side] THEN "stabCheck3" ELSE "stable")
  /\ UNCHANGED <<m_anchor, link, data, haz, Reclaim, op, result>>

\* The inner node is linked to the new end.
StabLink(t) ==
  LET p == loc[t].prev s == loc[t].side IN
  /\ pc[t] = "stabLink"
  /\ IF link[p][s] = loc[t].prevNext
       THEN /\ link' = [link EXCEPT ![p][s] = Ptr(loc[t].a.ends[s], loc[t].prevNext.sn + 1)]
            /\ Goto(t, "stable")
       ELSE Goto(t, loc[t].back) /\ UNCHANGED link
  /\ UNCHANGED <<m_anchor, data, haz, Reclaim, loc, op, result>>

\* casAnchor to STABLE, if nobody else has done it, and clearAll.
Stable(t) ==
  /\ pc[t] = "stable"
  /\ m_anchor' = IF Same(t) THEN [m_anchor EXCEPT !.status = "STABLE"] ELSE m_anchor
  /\ haz' = [haz EXCEPT ![t] = [i \in 0 .. 2 |-> Null]]
  /\ kept' = [n \in Nodes |-> kept[n] \ ({t} \X (0 .. 2))]
  /\ Goto(t, loc[t].back)
  /\ UNCHANGED <<link, data, free, retired, loc, op, result>>

Return(t) ==
  /\ pc[t] = "return"
  /\ Goto(t, "idle")
  /\ result' = [result EXCEPT ![t] = Empty]
  /\ loc' = [loc EXCEPT ![t] = NoLocals]
  /\ UNCHANGED <<m_anchor, link, data, haz, Reclaim, op>>

\* HazardTracker gives a node back to the pool.
Reuse(n) ==
  /\ n \in retired /\ kept[n] = {}
  /\ retired' = retired \ {n}
  /\ free' = free \cup {n}
  /\ UNCHANGED <<m_anchor, link, data, haz, kept, pc, loc, op, result>>

Step(t) ==
  \/ GetAnchor(t) \/ PushCas(t) \/ ReserveEnds(t) \/ Recheck(t) \/ PopPrev(t) \/ PopCas(t)
  \/ Retire(t) \/ StabPrev(t) \/ ReservePrev(t) \/ StabNext(t) \/ StabLink(t) \/ Stable(t)
  \/ Return(t)

Next ==
  \/ \E t \in Threads : Step(t) \/ \E o \in Operations : Call(t, o)
  \/ \E n \in Nodes : Reuse(n)

Spec == Init /\ [][Next]_vars
-----------------------------------------------------------------------------
NodeOrNull == Nodes \cup {Null}
Links == [ptr : NodeOrNull, sn : Nat]
Anchors == [ends : [Sides -> NodeOrNull], status : {"STABLE", "LPUSH", "RPUSH"}]

\* The variables have their types; no pop returns the data of an unused node.
TypeOK ==
  /\ m_anchor \in Anchors
  /\ link \in [Nodes -> [Sides -> Links]]
  /\ data \in [Nodes -> Values \cup {Garbage}]
  /\ haz \in [Threads -> [0 .. 2 -> NodeOrNull]]
  /\ free \subseteq Nodes /\ retired \subseteq Nodes
  /\ kept \in [Nodes -> SUBSET (Threads \X (0 .. 2))]
  /\ \A t \in Threads :
       /\ loc[t].a \in Anchors /\ loc[t].prevNext \in Links
       /\ {loc[t].node, loc[t].prev} \subseteq NodeOrNull
  /\ op \in [Threads -> Operations]
  /\ result \in [Threads -> Values \cup {Empty}]

\* The walk from the node first along the links to side s, which ends behind the node last.
Walk(first, last, links, s) ==
  LET at[k \in 0 .. Cardinality(Nodes)] ==
        IF k = 0 THEN first
        ELSE LET n == at[k - 1] IN IF n \in {Null, last} THEN Null ELSE links[n][s].ptr
  IN  at

\* Its nodes: at most one more than there are.
Trail(first, last, links, s) ==
  LET at == Walk(first, last, links, s)
      len == Cardinality({k \in 0 .. Cardinality(Nodes) : at[k] # Null})
  IN  [k \in 1 .. len |-> at[k - 1]]

\* The nodes from one end of the anchor to the other, along the links to side s.
Path(s) == Trail(m_anchor.ends[Other(s)], m_anchor.ends[s], link, s)

\* The links of a stable deque are the same both ways; in an unstable one, only the link
\* to the new end may be missing, and following the other direction gives every node.
LinksAgree ==
  m_anchor.status = "STABLE" => Path("R") = Reverse(Path("L"))

\* A link that is read or swung belongs to a node that is not in the pool: the
\* reservations and the checks after them suffice.
NoUseAfterFree ==
  \A t \in Threads :
    /\ pc[t] = "popPrev" => loc[t].a.ends[Side(t)] \notin free
    /\ pc[t] = "stabPrev" => loc[t].a.ends[loc[t].side] \notin free
    /\ pc[t] \in {"stabNext", "stabCheck3", "stabLink"} => loc[t].prev \notin free

-----------------------------------------------------------------------------
(* What DequeSpec sees of it: an operation takes effect when it swings the anchor. *)

\* The contents are read along the links that are known to be set: from the pushed end
\* when a push is not stable yet.
Contents ==
  LET nodes == IF m_anchor.status = "RPUSH" THEN Reverse(Path("L")) ELSE Path("R")
  IN  [n \in DOMAIN nodes |-> data[nodes[n]]]

\* A push is done when its CAS has succeeded, although it may still have to be stabilised.
Status == [t \in Threads |->
  IF pc[t] = "idle" THEN "idle"
  ELSE IF pc[t] \in {"return", "retire"} \/ (pc[t] # "anchor" /\ loc[t].back = "return")
  THEN "done" ELSE "pending"]
=============================================================================
