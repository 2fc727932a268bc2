------------------------------ MODULE OFDeque ------------------------------
(***************************************************************************)
(* OFDeque<T, BufferSize, Elimination = false> (src/deque/OFDeque.hpp):    *)
(* the unbounded obstruction-free deque, a doubly linked chain of buffers. *)
(*                                                                         *)
(* Slots 0 and BufferSize-1 of a buffer hold links, the others hold        *)
(* values.  Every update is a pair of CASes: casSafe increments the count  *)
(* of one slot of an edge, the second CAS changes the other one.  The code *)
(* is a template over the side S; here S is op[t].side.                    *)
(*                                                                         *)
(* One action per access to shared memory, executed in program order (the  *)
(* CASes and acquire loads of the x86 build are sequentially consistent).  *)
(* Buffers are not reused after they are retired here: module OFDequeLin   *)
(* adds the reclamation, whose own steps are in module HazardTracker.      *)
(***************************************************************************)
EXTENDS DequeOps

CONSTANTS
  Buffers,       \* the addresses of Buffer objects
  FirstBuffer,   \* the one the constructor allocates
  BufferSize,    \* the template argument
  Null,          \* NULL
  Garbage,       \* the content of an uninitialised m_value
  GarbageCounts  \* the counts an uninitialised m_count may hold

\* The four special indices are case labels of one switch in findEdge.
ASSUME OFDequeAssumption ==
  /\ BufferSize \in Nat /\ BufferSize >= 4
  /\ FirstBuffer \in Buffers
  /\ Null \notin Buffers
  /\ Garbage \notin Buffers
  /\ GarbageCounts \subseteq Nat /\ GarbageCounts # {}

VARIABLES
  slots,       \* m_pSlots of every buffer
  localHint,   \* m_leftLocalHint and m_rightLocalHint of every buffer
  globalHint,  \* m_leftGlobalHint and m_rightGlobalHint
  hazard,      \* the two reservations of every thread in m_pHazTracker
  pool,        \* the buffers m_pBlockPool can hand out
  cache,       \* m_pLeftBufferCache and m_pRightBufferCache
  retired,     \* the buffers each thread has given to m_pHazTracker->retire
  chain        \* auxiliary: the linked buffers, leftmost first

VARIABLES
  pc,      \* where each thread is; "idle" outside the deque
  op,      \* its current or last operation
  result,  \* the result it is about to return
  hint,    \* oracleResult.m_hint
  buf,     \* buffer: first of the search, then of the edge
  idx,     \* index: first of the search, then the edge's near index
  nbr,     \* neighbor; newBuffer in an append
  haz,     \* nextHazSlot of findEdge
  near,    \* nearSlot
  far,     \* farSlot
  reach,   \* reachingSlot, reachSlot
  stage,   \* which of the edge's CAS pairs comes next
  upd      \* the locals of updateHint and findActiveBuffer

shared == <<slots, localHint, globalHint, hazard, pool, cache, retired, chain>>
edge   == <<hint, buf, idx, nbr, haz>>
snaps  == <<near, far, reach>>
vars   == <<shared, pc, op, result, edge, snaps, stage, upd>>

-----------------------------------------------------------------------------
(* Geometry: OFDequeUtils<S>. *)

Opposite(s) == IF s = "L" THEN "R" ELSE "L"

LastIndex == BufferSize - 1
Indices == 0..LastIndex

FarLinkIndex(s)   == IF s = "L" THEN 0 ELSE LastIndex
NearLinkIndex(s)  == IF s = "L" THEN LastIndex ELSE 0

\* Mutant of FarValueIndex: the far value index taken for the far link of the right side.
FarValueOffByOne(s) == IF s = "L" THEN 1 ELSE LastIndex

FarValueIndex(s)  == IF s = "L" THEN 1 ELSE LastIndex - 1
NearValueIndex(s) == IF s = "L" THEN LastIndex - 1 ELSE 1
FarDirection(s)   == IF s = "L" THEN -1 ELSE 1
FarType(s)  == s            \* TYPE_LEFT is "L", TYPE_RIGHT is "R"
NearType(s) == Opposite(s)

Clamp(i) == IF i < 1 THEN 1 ELSE IF i >= LastIndex THEN LastIndex - 1 ELSE i

(* Slots: m_type, m_value or m_pLink, and m_count. *)

Types == {"L", "R", "SEALED", "VALUE"}
Words == Values \cup Buffers \cup {Garbage}
Slots == [type : Types, val : Words, cnt : Nat]
Slot(ty, v, c) == [type |-> ty, val |-> v, cnt |-> c]
Bumped(s) == [s EXCEPT !.cnt = @ + 1]

Hints == [buf : Buffers, cnt : Nat]

-----------------------------------------------------------------------------
(* The constructor, with Buffer::fill(BufferSize / 2). *)

NoSlot == Slot("L", Garbage, 0)
NoHint == [buf |-> FirstBuffer, cnt |-> 0]
NoUpdate == [side |-> "L", threshold |-> 0, hint |-> NoHint, cand |-> FirstBuffer,
             n0 |-> NoSlot, n1 |-> NoSlot, link |-> Garbage, haz |-> 1,
             finding |-> FALSE]

Split == BufferSize \div 2

Init ==
  /\ \E c \in GarbageCounts :
       slots = [b \in Buffers |-> [i \in Indices |->
                  Slot(IF i < Split THEN "L" ELSE "R", Garbage, c)]]
  /\ localHint = [b \in Buffers |->
                    [s \in Sides |-> IF s = "L" THEN Split ELSE Split - 1]]
  /\ globalHint = [s \in Sides |-> NoHint]
  /\ hazard = [t \in Threads |-> [h \in {0, 1} |-> Null]]
  /\ pool = Buffers \ {FirstBuffer}
  /\ cache = [t \in Threads |-> [s \in Sides |-> Null]]
  /\ retired = [t \in Threads |-> {}]
  /\ chain = <<FirstBuffer>>
  /\ pc = [t \in Threads |-> "idle"]
  /\ op = [t \in Threads |-> Pop("L")]
  /\ result = [t \in Threads |-> Empty]
  /\ hint = [t \in Threads |-> NoHint]
  /\ buf = [t \in Threads |-> FirstBuffer]
  /\ idx = [t \in Threads |-> 1]
  /\ nbr = [t \in Threads |-> Null]
  /\ haz = [t \in Threads |-> 1]
  /\ near = [t \in Threads |-> NoSlot]
  /\ far = [t \in Threads |-> NoSlot]
  /\ reach = [t \in Threads |-> NoSlot]
  /\ stage = [t \in Threads |-> "interior"]
  /\ upd = [t \in Threads |-> NoUpdate]

Goto(t, l) == pc' = [pc EXCEPT ![t] = l]

S(t) == op[t].side
Pushing(t) == op[t].kind = "push"

-----------------------------------------------------------------------------
(* oracle and reserveHint: load the global hint, publish it, check it. *)

Call(t, o) ==
  /\ pc[t] = "idle"
  /\ op' = [op EXCEPT ![t] = o]
  /\ Goto(t, "loadHint")
  /\ UNCHANGED <<shared, result, edge, snaps, stage, upd>>

\* The locals of the loops' bodies die with the iteration.
Forget(t) ==
  /\ buf' = [buf EXCEPT ![t] = FirstBuffer]
  /\ idx' = [idx EXCEPT ![t] = 1]
  /\ nbr' = [nbr EXCEPT ![t] = Null]
  /\ haz' = [haz EXCEPT ![t] = 1]
  /\ near' = [near EXCEPT ![t] = NoSlot]
  /\ far' = [far EXCEPT ![t] = NoSlot]
  /\ reach' = [reach EXCEPT ![t] = NoSlot]
  /\ stage' = [stage EXCEPT ![t] = "interior"]
  /\ upd' = [upd EXCEPT ![t] = NoUpdate]

LoadHint(t) ==
  /\ pc[t] = "loadHint"
  /\ hint' = [hint EXCEPT ![t] = globalHint[S(t)]]
  /\ Forget(t)
  /\ Goto(t, "reserveHint")
  /\ UNCHANGED <<shared, op, result>>

ReserveHint(t) ==
  /\ pc[t] = "reserveHint"
  /\ hazard' = [hazard EXCEPT ![t][0] = hint[t].buf]
  /\ Goto(t, "checkHint")
  /\ UNCHANGED <<slots, localHint, globalHint, pool, cache, retired, chain,
                 op, result, edge, snaps, stage, upd>>

\* Mutant of HintUnchanged: the hint is not loaded again after the reservation.
HintAssumed(t) == TRUE

HintUnchanged(t) == hint[t].cnt = globalHint[S(t)].cnt

\* Mutant of CheckHint: nextHazSlot starts at the slot that holds the hint's buffer.
CheckHintSlotZero(t) ==
  /\ pc[t] = "checkHint"
  /\ buf' = [buf EXCEPT ![t] = hint[t].buf]
  /\ haz' = [haz EXCEPT ![t] = 0]
  /\ Goto(t, IF HintUnchanged(t) THEN "loadLocal" ELSE "loadHint")
  /\ UNCHANGED <<shared, op, result, hint, idx, nbr, snaps, stage, upd>>

CheckHint(t) ==
  /\ pc[t] = "checkHint"
  /\ buf' = [buf EXCEPT ![t] = hint[t].buf]
  /\ haz' = [haz EXCEPT ![t] = 1]
  /\ Goto(t, IF HintUnchanged(t) THEN "loadLocal" ELSE "loadHint")
  /\ UNCHANGED <<shared, op, result, hint, idx, nbr, snaps, stage, upd>>

-----------------------------------------------------------------------------
(* findEdge: walk from the hint to the edge of side S. *)

LoadLocal(t) ==
  /\ pc[t] = "loadLocal"
  /\ idx' = [idx EXCEPT ![t] = Clamp(localHint[buf[t]][S(t)])]
  /\ Goto(t, "probe")
  /\ UNCHANGED <<shared, op, result, hint, buf, nbr, haz, snaps, stage, upd>>

\* The slot under the search pointer.
Probed(t) == slots[buf[t]][idx[t]]
FarIdx(t) == idx[t] + FarDirection(S(t))

\* Types that send the search one slot inwards, and those that may be the near
\* slot of an edge: the arms of the switch in findEdge.
Inward(t) ==
  /\ Probed(t).type = FarType(S(t))
  /\ idx[t] # NearLinkIndex(S(t))
NearSide(t) ==
  /\ idx[t] # FarLinkIndex(S(t))
  /\ Probed(t).type \in {NearType(S(t)), "VALUE"}
  /\ idx[t] = NearLinkIndex(S(t)) => Probed(t).type # "VALUE"
AtLink(t) == idx[t] \in {FarLinkIndex(S(t)), NearLinkIndex(S(t))}
AtBorderValue(t) == idx[t] \in {FarValueIndex(S(t)), NearValueIndex(S(t))}
OverLink(t) ==
  /\ AtLink(t)
  /\ idx[t] = NearLinkIndex(S(t)) => Probed(t).type = "VALUE"

ProbeInward(t) ==
  /\ pc[t] = "probe" /\ Inward(t)
  /\ idx' = [idx EXCEPT ![t] = @ - FarDirection(S(t))]
  /\ UNCHANGED <<shared, pc, op, result, hint, buf, nbr, haz, snaps, stage, upd>>

ProbeNear(t) ==
  /\ pc[t] = "probe" /\ NearSide(t)
  /\ Goto(t, "probeFar")
  /\ UNCHANGED <<shared, op, result, edge, snaps, stage, upd>>

ProbeOther(t) ==
  /\ pc[t] = "probe" /\ ~Inward(t) /\ ~NearSide(t)
  /\ nbr' = [nbr EXCEPT ![t] = IF AtLink(t) THEN Probed(t).val ELSE @]
  /\ Goto(t, CASE OverLink(t) -> "reserveNbr"
               [] Probed(t).type = "SEALED" /\ ~AtLink(t) /\ AtBorderValue(t) -> "probeLink"
               [] OTHER -> "fault")
  /\ UNCHANGED <<shared, op, result, hint, buf, idx, haz, snaps, stage, upd>>

ProbeFar(t) ==
  /\ pc[t] = "probeFar"
  /\ IF slots[buf[t]][FarIdx(t)].type = FarType(S(t))
       THEN /\ Goto(t, "loadNear")
            /\ UNCHANGED idx
       ELSE /\ idx' = [idx EXCEPT ![t] = FarIdx(t)]
            /\ Goto(t, "probe")
  /\ UNCHANGED <<shared, op, result, hint, buf, nbr, haz, snaps, stage, upd>>

\* Does the search leave the buffer over its far link or over its near link?
Outward(t) == idx[t] \in {FarLinkIndex(S(t)), FarValueIndex(S(t))}

ProbeLink(t) ==
  /\ pc[t] = "probeLink"
  /\ LET link == IF Outward(t) THEN FarLinkIndex(S(t)) ELSE NearLinkIndex(S(t))
     IN nbr' = [nbr EXCEPT ![t] = slots[buf[t]][link].val]
  /\ Goto(t, "reserveNbr")
  /\ UNCHANGED <<shared, op, result, hint, buf, idx, haz, snaps, stage, upd>>

ReserveNbr(t) ==
  /\ pc[t] = "reserveNbr"
  /\ hazard' = [hazard EXCEPT ![t][haz[t]] = nbr[t]]
  /\ haz' = [haz EXCEPT ![t] = 1 - @]
  /\ Goto(t, "recheckHint")
  /\ UNCHANGED <<slots, localHint, globalHint, pool, cache, retired, chain,
                 op, result, hint, buf, idx, nbr, snaps, stage, upd>>

\* A link that is no buffer would be dereferenced by the next step.
RecheckHint(t) ==
  /\ pc[t] = "recheckHint"
  /\ Goto(t, IF ~HintUnchanged(t) THEN "loadHint"
             ELSE IF nbr[t] \in Buffers THEN "probeNbr" ELSE "fault")
  /\ UNCHANGED <<shared, op, result, edge, snaps, stage, upd>>

\* The neighbor's types at which the search stops: it has straddled the edge.
StraddleTypes(t) ==
  CASE idx[t] = FarLinkIndex(S(t))   -> {FarType(S(t)), "SEALED"}
    [] idx[t] = FarValueIndex(S(t))  -> {FarType(S(t))}
    [] idx[t] = NearLinkIndex(S(t))  -> Types \ {FarType(S(t))}
    [] idx[t] = NearValueIndex(S(t)) -> {NearType(S(t)), "VALUE"}

ProbeNbr(t) ==
  /\ pc[t] = "probeNbr"
  /\ LET facing == IF Outward(t) THEN NearValueIndex(S(t)) ELSE FarValueIndex(S(t))
         found  == slots[nbr[t]][facing].type \in StraddleTypes(t)
     IN /\ buf' = [buf EXCEPT ![t] = IF found /\ Outward(t) THEN @ ELSE nbr[t]]
        /\ idx' = [idx EXCEPT ![t] = IF found THEN FarValueIndex(S(t)) ELSE @]
        /\ Goto(t, IF found THEN "loadNear" ELSE "loadLocal")
  /\ UNCHANGED <<shared, op, result, hint, nbr, haz, snaps, stage, upd>>

-----------------------------------------------------------------------------
(* doPush and doPop: snapshot the edge, check it, choose the CAS pair. *)

LoadNear(t) ==
  /\ pc[t] = "loadNear"
  /\ near' = [near EXCEPT ![t] = slots[buf[t]][idx[t]]]
  /\ Goto(t, "loadFar")
  /\ UNCHANGED <<shared, op, result, edge, far, reach, stage, upd>>

AtBorder(t) == idx[t] = FarValueIndex(S(t))

\* Mutant of ValidEdge: the far slot of an interior edge is not checked.
ValidEdgeFarUnchecked(t, n, f) ==
  /\ n.type # FarType(S(t))
  /\ n.type = "SEALED" => AtBorder(t)
  /\ idx[t] = NearLinkIndex(S(t)) => n.type = NearType(S(t))

\* The oracle edge check, for near slot n and far slot f.
ValidEdge(t, n, f) ==
  /\ n.type # FarType(S(t))
  /\ n.type = "SEALED" => AtBorder(t)
  /\ FarIdx(t) # FarLinkIndex(S(t)) => f.type = FarType(S(t))
  /\ idx[t] = NearLinkIndex(S(t)) => n.type = NearType(S(t))

\* Mutant of EmptyTypes: a pop that would seal does not mind being in a sealed buffer.
EmptyUnlessSealed(s, g) == {NearType(s)}

\* The near types for which a pop about to run CAS pair g first checks for empty.
EmptyTypes(s, g) == {NearType(s)} \cup (IF g = "seal" THEN {"SEALED"} ELSE {})

\* Continue with pair g; n is the near snapshot.
BeginStage(t, g, n) ==
  /\ stage' = [stage EXCEPT ![t] = g]
  /\ Goto(t, IF ~Pushing(t) /\ n.type \in EmptyTypes(S(t), g) THEN "confirmEmpty"
             ELSE IF g = "append" THEN "prepare" ELSE "casSafe")

LoadFar(t) ==
  /\ pc[t] = "loadFar"
  /\ LET f == slots[buf[t]][FarIdx(t)] IN
     /\ far' = [far EXCEPT ![t] = f]
     /\ CASE ~ValidEdge(t, near[t], f) ->
               Goto(t, "loadHint") /\ UNCHANGED <<nbr, stage>>
          [] ValidEdge(t, near[t], f) /\ ~AtBorder(t) ->
               BeginStage(t, "interior", near[t]) /\ UNCHANGED nbr
          [] ValidEdge(t, near[t], f) /\ AtBorder(t) /\ f.type = FarType(S(t)) ->
               /\ BeginStage(t, IF Pushing(t) THEN "append" ELSE "boundary", near[t])
               /\ UNCHANGED nbr
          [] OTHER ->
               /\ nbr' = [nbr EXCEPT ![t] = f.val]
               /\ Goto(t, IF f.val \in Buffers THEN "loadReach" ELSE "fault")
               /\ UNCHANGED stage
  /\ UNCHANGED <<shared, op, result, hint, buf, idx, haz, near, reach, upd>>

LoadReach(t) ==
  /\ pc[t] = "loadReach"
  /\ reach' = [reach EXCEPT ![t] = slots[nbr[t]][NearValueIndex(S(t))]]
  /\ Goto(t, "loadBack")
  /\ UNCHANGED <<shared, op, result, edge, near, far, stage, upd>>

LoadBack(t) ==
  /\ pc[t] = "loadBack"
  /\ LET back == slots[nbr[t]][NearLinkIndex(S(t))].val
         mutual == back = buf[t]
     IN CASE mutual /\ reach[t].type = FarType(S(t)) ->
               BeginStage(t, IF Pushing(t) THEN "straddle" ELSE "seal", near[t])
          [] mutual /\ reach[t].type = "SEALED" -> BeginStage(t, "remove", near[t])
          [] OTHER -> Goto(t, "loadHint") /\ UNCHANGED stage
  /\ UNCHANGED <<shared, op, result, edge, snaps, upd>>

\* The re-read of the near slot's count by which a pop concludes EMPTY.
ConfirmEmpty(t) ==
  /\ pc[t] = "confirmEmpty"
  /\ Goto(t, IF slots[buf[t]][idx[t]].cnt = near[t].cnt THEN "return" ELSE "casSafe")
  /\ UNCHANGED <<shared, op, result, edge, snaps, stage, upd>>

\* newBuffer: from the cache, or allocated and filled; then the link back and
\* the value are pre-inserted.
Prepare(t) ==
  /\ pc[t] = "prepare"
  /\ \E c \in GarbageCounts :
     \E b \in IF cache[t][S(t)] = Null THEN pool ELSE {cache[t][S(t)]} :
       LET s == S(t)
           blank == IF cache[t][s] = Null
                      THEN [i \in Indices |-> Slot(FarType(s), Garbage, c)]
                      ELSE slots[b]
       IN /\ slots' = [slots EXCEPT ![b] =
                         [blank EXCEPT ![NearLinkIndex(s)]  = Slot("VALUE", buf[t], c),
                                       ![NearValueIndex(s)] = Slot("VALUE", op[t].val, c)]]
          /\ localHint' = IF cache[t][s] = Null
                            THEN [localHint EXCEPT ![b] = [u \in Sides |-> NearValueIndex(s)]]
                            ELSE localHint
          /\ pool' = pool \ {b}
          /\ cache' = [cache EXCEPT ![t][s] = b]
          /\ nbr' = [nbr EXCEPT ![t] = b]
  /\ Goto(t, "casSafe")
  /\ UNCHANGED <<globalHint, hazard, retired, chain,
                 op, result, hint, buf, idx, haz, snaps, stage, upd>>

-----------------------------------------------------------------------------
(* The CAS pairs.  A target is a slot's address and the snapshot expected in it. *)

Target(b, i, s) == [buf |-> b, idx |-> i, exp |-> s]
NearTarget(t)  == Target(buf[t], idx[t], near[t])
FarTarget(t)   == Target(buf[t], FarIdx(t), far[t])
ReachTarget(t) == Target(nbr[t], NearValueIndex(S(t)), reach[t])

\* A pop of a value moves inwards: it safes the far slot and empties the near one.
Takes(t) == ~Pushing(t) /\ stage[t] \in {"interior", "boundary"}

SafeTarget(t) == IF Takes(t) THEN FarTarget(t) ELSE NearTarget(t)
EffectTarget(t) ==
  IF Takes(t) THEN NearTarget(t)
  ELSE IF stage[t] \in {"straddle", "seal"} THEN ReachTarget(t) ELSE FarTarget(t)

\* Mutant of Holds: the CAS compares the types only, not the counts.
HoldsType(c) == slots[c.buf][c.idx].type = c.exp.type

Holds(c) == slots[c.buf][c.idx] = c.exp

\* Mutant of Swing: a CAS leaves the count as it is.
SwingSameCount(c, ty, v) ==
  slots' = [slots EXCEPT ![c.buf][c.idx] = Slot(ty, v, c.exp.cnt)]

Swing(c, ty, v) ==
  slots' = [slots EXCEPT ![c.buf][c.idx] = Slot(ty, v, c.exp.cnt + 1)]

\* Mutant of CasSafe: a failed CAS is tried again with the same snapshots.
CasSafeStale(t) ==
  /\ pc[t] = "casSafe"
  /\ LET c == SafeTarget(t) IN
       IF Holds(c) THEN Swing(c, c.exp.type, c.exp.val) /\ Goto(t, "casEffect")
                   ELSE UNCHANGED <<slots, pc>>
  /\ UNCHANGED <<localHint, globalHint, hazard, pool, cache, retired, chain,
                 op, result, edge, snaps, stage, upd>>

CasSafe(t) ==
  /\ pc[t] = "casSafe"
  /\ LET c == SafeTarget(t) IN
       IF Holds(c) THEN Swing(c, c.exp.type, c.exp.val) /\ Goto(t, "casEffect")
                   ELSE UNCHANGED slots /\ Goto(t, "loadHint")
  /\ UNCHANGED <<localHint, globalHint, hazard, pool, cache, retired, chain,
                 op, result, edge, snaps, stage, upd>>

EffectFails(t) ==
  /\ pc[t] = "casEffect"
  /\ ~Holds(EffectTarget(t))
  /\ Goto(t, "loadHint")
  /\ UNCHANGED <<shared, op, result, edge, snaps, stage, upd>>

\* Mutant of EffectOf: the second CAS of a pair is a plain store.
EffectUnchecked(t, g) == pc[t] = "casEffect" /\ stage[t] \in g

EffectOf(t, g) ==
  /\ pc[t] = "casEffect"
  /\ stage[t] \in g
  /\ Holds(EffectTarget(t))

PushValue(t) ==
  /\ Pushing(t) /\ EffectOf(t, {"interior", "straddle"})
  /\ Swing(EffectTarget(t), "VALUE", op[t].val)
  /\ result' = [result EXCEPT ![t] = op[t].val]
  /\ Goto(t, IF stage[t] = "interior" THEN "bumpLocal" ELSE "bumpGlobal")
  /\ UNCHANGED <<localHint, globalHint, hazard, pool, cache, retired, chain,
                 op, edge, snaps, stage, upd>>

PushBuffer(t) ==
  /\ Pushing(t) /\ EffectOf(t, {"append"})
  /\ Swing(EffectTarget(t), "VALUE", nbr[t])
  /\ cache' = [cache EXCEPT ![t][S(t)] = Null]
  /\ chain' = AtEnd(S(t), nbr[t], chain)
  /\ result' = [result EXCEPT ![t] = op[t].val]
  /\ Goto(t, "bumpGlobal")
  /\ UNCHANGED <<localHint, globalHint, hazard, pool, retired,
                 op, edge, snaps, stage, upd>>

TakeValue(t) ==
  /\ Takes(t) /\ EffectOf(t, {"interior", "boundary"})
  /\ Swing(EffectTarget(t), FarType(S(t)), Garbage)
  /\ result' = [result EXCEPT ![t] = near[t].val]
  /\ Goto(t, IF stage[t] = "interior" THEN "bumpLocal" ELSE "bumpGlobal")
  /\ UNCHANGED <<localHint, globalHint, hazard, pool, cache, retired, chain,
                 op, edge, snaps, stage, upd>>

SealNeighbor(t) ==
  /\ EffectOf(t, {"seal"})
  /\ Swing(EffectTarget(t), "SEALED", Garbage)
  /\ reach' = [reach EXCEPT ![t] = [Bumped(@) EXCEPT !.type = "SEALED"]]
  /\ near' = [near EXCEPT ![t] = Bumped(@)]
  /\ BeginStage(t, "remove", near[t])
  /\ UNCHANGED <<localHint, globalHint, hazard, pool, cache, retired, chain,
                 op, result, edge, far, upd>>

\* casType leaves m_value uninitialised, and this slot's is a link that other
\* threads compare with a buffer's address: it may be any word.
RemoveNeighbor(t) ==
  /\ EffectOf(t, {"remove"})
  /\ \E w \in Buffers \cup {Garbage} : Swing(EffectTarget(t), FarType(S(t)), w)
  /\ chain' = WithoutEnd(S(t), chain)
  /\ upd' = [upd EXCEPT ![t] = NoUpdate]
  /\ Goto(t, "updThreshold")
  /\ UNCHANGED <<localHint, globalHint, hazard, pool, cache, retired,
                 op, result, edge, snaps, stage>>

-----------------------------------------------------------------------------
(* After the operation has taken effect: hints, and clearAll. *)

BumpLocal(t) ==
  /\ pc[t] = "bumpLocal"
  /\ localHint' = [localHint EXCEPT ![buf[t]][S(t)] =
                     IF Pushing(t) THEN @ + FarDirection(S(t)) ELSE @ - FarDirection(S(t))]
  /\ Goto(t, "return")
  /\ UNCHANGED <<slots, globalHint, hazard, pool, cache, retired, chain,
                 op, result, edge, snaps, stage, upd>>

BumpGlobal(t) ==
  /\ pc[t] = "bumpGlobal"
  /\ LET to == IF Pushing(t) THEN nbr[t] ELSE buf[t] IN
       globalHint' = IF globalHint[S(t)] = hint[t]
                       THEN [globalHint EXCEPT ![S(t)] = [buf |-> to, cnt |-> hint[t].cnt + 1]]
                       ELSE globalHint
  /\ Goto(t, "return")
  /\ UNCHANGED <<slots, localHint, hazard, pool, cache, retired, chain,
                 op, result, edge, snaps, stage, upd>>

Return(t) ==
  /\ pc[t] = "return"
  /\ hazard' = [hazard EXCEPT ![t] = [h \in {0, 1} |-> Null]]
  /\ result' = [result EXCEPT ![t] = Empty]
  /\ hint' = [hint EXCEPT ![t] = NoHint]
  /\ Forget(t)
  /\ Goto(t, "idle")
  /\ UNCHANGED <<slots, localHint, globalHint, pool, cache, retired, chain, op>>

-----------------------------------------------------------------------------
(* retire: updateHint<SIDE_LEFT>, updateHint<SIDE_RIGHT>, then the tracker. *)

UpdThreshold(t) ==
  /\ pc[t] = "updThreshold"
  /\ upd' = [upd EXCEPT ![t].threshold = globalHint[upd[t].side].cnt]
  /\ Goto(t, "updLoad")
  /\ UNCHANGED <<shared, op, result, edge, snaps, stage>>

UpdLoad(t) ==
  /\ pc[t] = "updLoad"
  /\ LET h == globalHint[upd[t].side] IN
       upd' = [upd EXCEPT ![t].hint = h, ![t].cand = h.buf,
                          ![t].haz = 1, ![t].finding = FALSE]
  /\ Goto(t, "sealed0")
  /\ UNCHANGED <<shared, op, result, edge, snaps, stage>>

\* Buffer::isSealed, three loads.
Sealed0(t) ==
  /\ pc[t] = "sealed0"
  /\ upd' = [upd EXCEPT ![t].n0 = slots[upd[t].cand][1]]
  /\ Goto(t, "sealed1")
  /\ UNCHANGED <<shared, op, result, edge, snaps, stage>>

Sealed1(t) ==
  /\ pc[t] = "sealed1"
  /\ upd' = [upd EXCEPT ![t].n1 = slots[upd[t].cand][LastIndex - 1]]
  /\ Goto(t, "sealed2")
  /\ UNCHANGED <<shared, op, result, edge, snaps, stage>>

\* Mutant of NextSide: retire updates the left hint only.
OneSideOnly(t) == Goto(t, "retire")

\* One side's hint is done: the right side follows the left.
NextSide(t) == Goto(t, IF upd[t].side = "L" THEN "updThreshold" ELSE "retire")
SideDone(u) == [u EXCEPT !.side = "R"]

SealedAt(u) == IF u.n0.type = "SEALED" THEN 1
               ELSE IF u.n1.type = "SEALED" THEN LastIndex - 1 ELSE -1

\* The third load, and what updateHint and findActiveBuffer do with the answer.
Sealed2(t) ==
  /\ pc[t] = "sealed2"
  /\ LET u == upd[t]
         stable == slots[u.cand][1].cnt = u.n0.cnt
         sealed == SealedAt(u) # -1
         overtaken == ~u.finding /\ u.hint.cnt > u.threshold
     IN CASE ~stable                       -> Goto(t, "sealed0") /\ UNCHANGED upd
          [] stable /\ sealed /\ u.finding  -> Goto(t, "updLink") /\ UNCHANGED upd
          [] stable /\ sealed /\ ~u.finding -> /\ upd' = [upd EXCEPT ![t].finding = TRUE]
                                               /\ Goto(t, "sealed0")
          [] stable /\ ~sealed /\ overtaken -> /\ upd' = [upd EXCEPT ![t] = SideDone(@)]
                                               /\ NextSide(t)
          [] OTHER                         -> Goto(t, "updCas") /\ UNCHANGED upd
  /\ UNCHANGED <<shared, op, result, edge, snaps, stage>>

UpdLink(t) ==
  /\ pc[t] = "updLink"
  /\ LET beside == IF SealedAt(upd[t]) = 1 THEN 0 ELSE LastIndex
     IN upd' = [upd EXCEPT ![t].link = slots[upd[t].cand][beside].val]
  /\ Goto(t, "updReserve")
  /\ UNCHANGED <<shared, op, result, edge, snaps, stage>>

UpdReserve(t) ==
  /\ pc[t] = "updReserve"
  /\ hazard' = [hazard EXCEPT ![t][upd[t].haz] = upd[t].link]
  /\ upd' = [upd EXCEPT ![t].haz = 1 - @]
  /\ Goto(t, "updCheck")
  /\ UNCHANGED <<slots, localHint, globalHint, pool, cache, retired, chain,
                 op, result, edge, snaps, stage>>

UpdCheck(t) ==
  /\ pc[t] = "updCheck"
  /\ LET u == upd[t]
         same == u.hint.cnt = globalHint[u.side].cnt
         ok == same /\ u.link \in Buffers
     IN /\ upd' = [upd EXCEPT ![t].cand = IF ok THEN u.link ELSE @]
        /\ Goto(t, IF ~same THEN "updLoad" ELSE IF ok THEN "sealed0" ELSE "fault")
  /\ UNCHANGED <<shared, op, result, edge, snaps, stage>>

UpdCas(t) ==
  /\ pc[t] = "updCas"
  /\ LET u == upd[t] IN
       IF globalHint[u.side] = u.hint
         THEN /\ globalHint' = [globalHint EXCEPT ![u.side] =
                                  [buf |-> u.cand, cnt |-> u.hint.cnt + 1]]
              /\ upd' = [upd EXCEPT ![t] = SideDone(@)]
              /\ NextSide(t)
         ELSE /\ Goto(t, "updLoad")
              /\ UNCHANGED <<globalHint, upd>>
  /\ UNCHANGED <<slots, localHint, hazard, pool, cache, retired, chain,
                 op, result, edge, snaps, stage>>

\* HazardTracker::retire asserts that the thread's list does not hold the buffer
\* yet.  A push backs off; a pop goes on to the boundary pop.
Retire(t) ==
  /\ pc[t] = "retire"
  /\ retired' = [retired EXCEPT ![t] = @ \cup {nbr[t]}]
  /\ far' = [far EXCEPT ![t] = [Bumped(@) EXCEPT !.type = FarType(S(t))]]
  /\ near' = [near EXCEPT ![t] = Bumped(@)]
  /\ CASE nbr[t] \in retired[t] -> Goto(t, "fault") /\ UNCHANGED stage
       [] nbr[t] \notin retired[t] /\ Pushing(t) -> Goto(t, "loadHint") /\ UNCHANGED stage
       [] OTHER -> BeginStage(t, "boundary", near[t])
  /\ UNCHANGED <<slots, localHint, globalHint, hazard, pool, cache, chain,
                 op, result, edge, reach, upd>>

-----------------------------------------------------------------------------
Oracle(t) ==
  \/ LoadHint(t) \/ ReserveHint(t) \/ CheckHint(t)
  \/ LoadLocal(t) \/ ProbeInward(t) \/ ProbeNear(t) \/ ProbeOther(t) \/ ProbeFar(t)
  \/ ProbeLink(t) \/ ReserveNbr(t) \/ RecheckHint(t) \/ ProbeNbr(t)

Edge(t) ==
  \/ LoadNear(t) \/ LoadFar(t) \/ LoadReach(t) \/ LoadBack(t) \/ ConfirmEmpty(t)
  \/ Prepare(t) \/ CasSafe(t) \/ EffectFails(t) \/ PushValue(t) \/ PushBuffer(t)
  \/ TakeValue(t) \/ SealNeighbor(t) \/ RemoveNeighbor(t)
  \/ BumpLocal(t) \/ BumpGlobal(t) \/ Return(t)

UpdateHint(t) ==
  \/ UpdThreshold(t) \/ UpdLoad(t) \/ Sealed0(t) \/ Sealed1(t) \/ Sealed2(t)
  \/ UpdLink(t) \/ UpdReserve(t) \/ UpdCheck(t) \/ UpdCas(t) \/ Retire(t)

Step(t) == Oracle(t) \/ Edge(t) \/ UpdateHint(t)

Next == \E t \in Threads : Step(t) \/ \E o \in Operations : Call(t, o)

Spec == Init /\ [][Next]_vars

-----------------------------------------------------------------------------
(* Types. *)

Words0 == Words \cup {Null}
Stages == {"interior", "append", "straddle", "seal", "remove", "boundary"}
Updates == [side : Sides, threshold : Nat, hint : Hints, cand : Buffers, n0 : Slots,
            n1 : Slots, link : Words, haz : {0, 1}, finding : BOOLEAN]

Searching == {"loadLocal", "probe", "probeFar", "probeLink", "reserveNbr",
              "recheckHint", "probeNbr"}
AtEdge == {"loadNear", "loadFar", "loadReach", "loadBack", "confirmEmpty", "prepare",
           "casSafe", "casEffect"}
Updating == {"updThreshold", "updLoad", "sealed0", "sealed1", "sealed2", "updLink",
             "updReserve", "updCheck", "updCas", "retire"}
Finishing == {"bumpLocal", "bumpGlobal", "return"}
Locations == {"idle", "loadHint", "reserveHint", "checkHint", "fault"}
             \cup Searching \cup AtEdge \cup Updating \cup Finishing

\* The places where the code dereferences neighbor (or newBuffer) sooner or later.
UsesNbr(t) ==
  \/ pc[t] \in {"probeNbr", "loadReach", "loadBack"} \cup Updating
  \/ /\ pc[t] \in {"confirmEmpty", "casSafe", "casEffect"}
     /\ stage[t] \notin {"interior", "boundary"}
  \/ pc[t] = "bumpGlobal" /\ Pushing(t)

VarTypes ==
  /\ slots \in [Buffers -> [Indices -> Slots]]
  /\ localHint \in [Buffers -> [Sides -> Int]]
  /\ globalHint \in [Sides -> Hints]
  /\ hazard \in [Threads -> [{0, 1} -> Words0]]
  /\ pool \subseteq Buffers
  /\ cache \in [Threads -> [Sides -> Buffers \cup {Null}]]
  /\ retired \in [Threads -> SUBSET Buffers]
  /\ pc \in [Threads -> Locations]
  /\ op \in [Threads -> Operations]
  /\ result \in [Threads -> Words \cup {Empty}]
  /\ hint \in [Threads -> Hints]
  /\ buf \in [Threads -> Buffers]
  /\ idx \in [Threads -> Indices]
  /\ nbr \in [Threads -> Words0]
  /\ haz \in [Threads -> {0, 1}]
  /\ near \in [Threads -> Slots]
  /\ far \in [Threads -> Slots]
  /\ reach \in [Threads -> Slots]
  /\ stage \in [Threads -> Stages]
  /\ upd \in [Threads -> Updates]

\* At an edge the far index is inside the buffer, only pushes append, and the neighbor
\* is a buffer wherever the code dereferences it.
PlaceOK(t) ==
  /\ pc[t] = "prepare" => Pushing(t)
  /\ pc[t] \in {"probeFar"} \cup AtEdge \cup Updating => idx[t] # FarLinkIndex(S(t))
  /\ UsesNbr(t) => nbr[t] \in Buffers

\* Every variable has its type, and every access of a slot stays inside a buffer.
TypeOK == VarTypes /\ \A t \in Threads : PlaceOK(t)

-----------------------------------------------------------------------------
(* Safety. *)

\* No assertion of findEdge, findActiveBuffer or HazardTracker::retire fails, and no
\* word that is not a buffer is dereferenced as one.
NoFault == \A t \in Threads : pc[t] # "fault"

\* A sealed end buffer counts as emptied from the side it lies on.
SideOf(k, i) ==
  LET ty == slots[chain[k]][i].type
  IN CASE ty # "SEALED" -> ty
       [] ty = "SEALED" /\ Len(chain) > 1 /\ k = 1 /\ i = LastIndex - 1 -> "L"
       [] ty = "SEALED" /\ Len(chain) > 1 /\ k = Len(chain) /\ i = 1 -> "R"
       [] OTHER -> "SEALED"

Places == (DOMAIN chain) \X Indices
IsLink(p) == \/ p[2] = 0 /\ p[1] > 1
             \/ p[2] = LastIndex /\ p[1] < Len(chain)
Before(p, q) == p[1] < q[1] \/ (p[1] = q[1] /\ p[2] < q[2])

\* The chain is doubly linked, closed at both ends, and reads LEFT...LEFT VALUE...VALUE
\* RIGHT...RIGHT from left to right: the two edges every operation relies on exist,
\* whatever pushes, seals and removals of the two sides are in progress.
ChainShape ==
  /\ chain # <<>>
  /\ \A k \in 1..(Len(chain) - 1) :
       /\ slots[chain[k]][LastIndex].type = "VALUE"
       /\ slots[chain[k]][LastIndex].val = chain[k + 1]
       /\ slots[chain[k + 1]][0].type = "VALUE"
       /\ slots[chain[k + 1]][0].val = chain[k]
  /\ SideOf(1, 0) = "L" /\ SideOf(Len(chain), LastIndex) = "R"
  /\ \A p \in Places : ~IsLink(p) => SideOf(p[1], p[2]) # "SEALED"
  /\ \A p, q \in Places :
       Before(p, q) /\ ~IsLink(p) /\ ~IsLink(q) =>
         /\ SideOf(q[1], q[2]) = "L" => SideOf(p[1], p[2]) = "L"
         /\ SideOf(p[1], p[2]) = "R" => SideOf(q[1], q[2]) = "R"

IsSealed(b) == slots[b][1].type = "SEALED" \/ slots[b][LastIndex - 1].type = "SEALED"

\* Pops of the two sides that meet at two empty buffers never seal both: a linked
\* buffer stays active, so the next push, and updateHint, find a place to go.
SomeActive == \E k \in DOMAIN chain : ~IsSealed(chain[k])

\* A buffer is removed and retired by one thread only, even when a pop and a helping
\* push both find it sealed; and it is out of the chain by then.
Retiring(t) == retired[t] \cup (IF pc[t] \in Updating THEN {nbr[t]} ELSE {})
RetiredOnce ==
  /\ \A t, u \in Threads : t # u => Retiring(t) \cap Retiring(u) = {}
  /\ \A t \in Threads : pc[t] \in Updating => nbr[t] \notin retired[t]
  /\ \A t \in Threads : \A k \in DOMAIN chain : chain[k] \notin Retiring(t)

Retired == UNION { retired[t] : t \in Threads }

\* "now we can retire the buffer": no global hint leads to a retired buffer.
HintsNotRetired == \A s \in Sides : globalHint[s].buf \notin Retired

\* findEdge reads no buffer it has not reserved, and the edge it returns stays reserved
\* through the loads and CASes of doPush and doPop: all but a boundary pop after a
\* removal, whose findActiveBuffer has used both reservations (upd[t].side is "R" then).
Reserved(t) == { hazard[t][0], hazard[t][1] }
SearchIsReserved ==
  \A t \in Threads :
    /\ pc[t] \in Searching => buf[t] \in Reserved(t)
    /\ pc[t] = "probeNbr" => nbr[t] \in Reserved(t)
    /\ pc[t] \in AtEdge /\ upd[t].side = "L" => buf[t] \in Reserved(t)

\* When a reservation passes the recheck of the hint's count, the buffer has not been
\* retired yet: the order of events that hazard pointers need.
ReservedBeforeRetired ==
  [][ \A t \in Threads :
        /\ pc[t] = "checkHint" /\ pc'[t] = "loadLocal" => hint[t].buf \notin Retired
        /\ pc[t] = "recheckHint" /\ pc'[t] = "probeNbr" => nbr[t] \notin Retired ]_vars

\* A seal is final: no push, pop or safe CAS ever reopens a sealed buffer.
SealIsFinal ==
  [][ \A b \in Buffers, i \in Indices :
        slots[b][i].type = "SEALED" => slots'[b][i].type = "SEALED" ]_vars
=============================================================================
