------------------------ MODULE OFDequeRetireProofs ------------------------
(***************************************************************************)
(* A buffer of OFDeque is retired by one thread only, not before the       *)
(* global hints have left it for good, and not before every search that    *)
(* passes its recheck has reserved it: RetiredOnce, HintsNotRetired,       *)
(* NoFault and ReservedBeforeRetired, for any number of threads, buffers,  *)
(* values and slots per buffer, from the inductive invariants RetireInv    *)
(* and ReserveInv.                                                         *)
(***************************************************************************)
EXTENDS OFDequeShapeProofs

-----------------------------------------------------------------------------
(* What the steps leave alone. *)

\* A step of t leaves the locals of the others that RetireInv is about.
Stays(t) ==
  \A u \in Threads \ {t} :
    /\ pc'[u] = pc[u] /\ op'[u] = op[u] /\ hint'[u] = hint[u] /\ buf'[u] = buf[u]
    /\ nbr'[u] = nbr[u] /\ upd'[u] = upd[u] /\ retired'[u] = retired[u]

\* A step of t neither removes nor retires, nor is it one of updateHint; and the copy of
\* the hint is the one it has, or one it has just loaded.
Outside(t) ==
  /\ Stays(t) /\ retired' = retired
  /\ pc[t] \notin Updating /\ pc'[t] \notin Updating
  /\ pc'[t] \notin {"idle", "loadHint"} =>
       /\ S(t)' = S(t)
       /\ hint'[t] = IF pc[t] \in {"idle", "loadHint"} THEN globalHint[S(t)] ELSE hint[t]

\* The call and the oracle are such steps,
LEMMA OracleOutside ==
  ASSUME TypeOK, NEW t \in Threads, Oracle(t) \/ \E o \in Operations : Call(t, o)
  PROVE  Outside(t)
<1>1. ASSUME NEW o \in Operations, Call(t, o) PROVE Outside(t)
  BY <1>1, Locals DEF Call, Outside, Stays, Updating, Goto, shared, edge, snaps
<1>2. CASE LoadHint(t)
  BY <1>2, Locals DEF LoadHint, Outside, Stays, Updating, Goto, Forget, shared, S
<1>3. CASE ReserveHint(t) \/ CheckHint(t) \/ LoadLocal(t)
  BY <1>3, Locals
     DEF ReserveHint, CheckHint, LoadLocal, Outside, Stays, Updating, Goto, shared, edge, snaps, S
<1>4. CASE ProbeInward(t) \/ ProbeNear(t) \/ ProbeOther(t)
  BY <1>4, Locals
     DEF ProbeInward, ProbeNear, ProbeOther, Outside, Stays, Updating, Goto, shared, edge, snaps, S
<1>5. CASE ProbeFar(t) \/ ProbeLink(t) \/ ReserveNbr(t)
  BY <1>5, Locals
     DEF ProbeFar, ProbeLink, ReserveNbr, Outside, Stays, Updating, Goto, shared, edge, snaps, S
<1>6. CASE RecheckHint(t) \/ ProbeNbr(t)
  BY <1>6, Locals
     DEF RecheckHint, ProbeNbr, Outside, Stays, Updating, Goto, shared, edge, snaps, S
<1> QED  BY <1>1, <1>2, <1>3, <1>4, <1>5, <1>6 DEF Oracle

\* and so are all steps at the edge but the removal.
LEMMA EdgeOutside ==
  ASSUME TypeOK, NEW t \in Threads, Edge(t), ~RemoveNeighbor(t)
  PROVE  Outside(t)
<1>1. CASE LoadNear(t) \/ LoadFar(t) \/ LoadReach(t)
  BY <1>1, Locals
     DEF LoadNear, LoadFar, LoadReach, BeginStage, Outside, Stays, Updating, Goto, shared, edge,
         snaps, S
<1>2. CASE LoadBack(t) \/ ConfirmEmpty(t)
  BY <1>2, Locals
     DEF LoadBack, ConfirmEmpty, BeginStage, Outside, Stays, Updating, Goto, shared, edge, snaps, S
<1>3. CASE Prepare(t)
  BY <1>3, Locals DEF Prepare, Outside, Stays, Updating, Goto, snaps, S
<1>4. CASE CasSafe(t) \/ EffectFails(t)
  BY <1>4, Locals
     DEF CasSafe, EffectFails, Outside, Stays, Updating, Goto, shared, edge, snaps, S
<1>5. CASE PushValue(t) \/ PushBuffer(t) \/ TakeValue(t)
  BY <1>5, Locals
     DEF PushValue, PushBuffer, TakeValue, EffectOf, Outside, Stays, Updating, Goto, edge, snaps, S
<1>6. CASE SealNeighbor(t)
  BY <1>6, Locals
     DEF SealNeighbor, EffectOf, BeginStage, Outside, Stays, Updating, Goto, edge, S
<1>7. CASE BumpLocal(t) \/ BumpGlobal(t)
  BY <1>7, Locals DEF BumpLocal, BumpGlobal, Outside, Stays, Updating, Goto, edge, snaps, S
<1>8. CASE Return(t)
  BY <1>8, Locals DEF Return, Outside, Stays, Updating, Goto, Forget
<1> QED  BY <1>1, <1>2, <1>3, <1>4, <1>5, <1>6, <1>7, <1>8 DEF Edge

\* A removal and the steps of updateHint leave the others alone, too.
LEMMA UpdateStays ==
  ASSUME TypeOK, NEW t \in Threads, RemoveNeighbor(t) \/ UpdateHint(t)
  PROVE  Stays(t) /\ op' = op /\ hint' = hint /\ buf' = buf /\ nbr' = nbr
<1>1. CASE RemoveNeighbor(t)
  BY <1>1, Locals DEF RemoveNeighbor, EffectOf, Stays, Goto, edge, snaps
<1>2. CASE UpdThreshold(t) \/ UpdLoad(t) \/ Sealed0(t) \/ Sealed1(t)
  BY <1>2, Locals
     DEF UpdThreshold, UpdLoad, Sealed0, Sealed1, Stays, Goto, shared, edge, snaps
<1>3. CASE Sealed2(t)
  <2>1. \A u \in Threads \ {t} : pc'[u] = pc[u] /\ upd'[u] = upd[u]
    BY <1>3, Locals DEF Sealed2, NextSide, Goto
  <2> QED  BY <1>3, <2>1 DEF Sealed2, Stays, shared, edge, snaps
<1>4. CASE UpdLink(t) \/ UpdReserve(t) \/ UpdCheck(t)
  BY <1>4, Locals DEF UpdLink, UpdReserve, UpdCheck, Stays, Goto, shared, edge, snaps
<1>5. CASE UpdCas(t)
  <2>1. \A u \in Threads \ {t} : pc'[u] = pc[u] /\ upd'[u] = upd[u]
    BY <1>5, Locals DEF UpdCas, NextSide, Goto
  <2> QED  BY <1>5, <2>1 DEF UpdCas, Stays, edge, snaps
<1>6. CASE Retire(t)
  BY <1>6, Locals DEF Retire, BeginStage, Stays, Goto, edge
<1> QED  BY <1>1, <1>2, <1>3, <1>4, <1>5, <1>6 DEF UpdateHint

-----------------------------------------------------------------------------
(* What the steps change: slots, owners, the chain, the global hints. *)

\* The steps of a thread.
Acts(t) == Step(t) \/ \E o \in Operations : Call(t, o)

\* Only CASes and newBuffer write slots.
LEMMA StepWrites ==
  ASSUME ShapeInv, NEW t \in Threads, Acts(t)
  PROVE  \/ slots' = slots
         \/ Prepare(t)
         \/ \E b \in Buffers, i \in Indices : \E ty, v : Written(b, i, ty, v)
<1>1. TypeOK  BY DEF ShapeInv
<1>2. Oracle(t) => slots' = slots
  BY DEF Oracle, LoadHint, ReserveHint, CheckHint, LoadLocal, ProbeInward, ProbeNear,
         ProbeOther, ProbeFar, ProbeLink, ReserveNbr, RecheckHint, ProbeNbr, shared
<1>3. UpdateHint(t) => slots' = slots
  BY DEF UpdateHint, UpdThreshold, UpdLoad, Sealed0, Sealed1, Sealed2, UpdLink, UpdReserve,
         UpdCheck, UpdCas, Retire, shared
<1>4. LoadNear(t) \/ LoadFar(t) \/ LoadReach(t) \/ LoadBack(t) \/ ConfirmEmpty(t)
        \/ EffectFails(t) \/ BumpLocal(t) \/ BumpGlobal(t) \/ Return(t) => slots' = slots
  BY DEF LoadNear, LoadFar, LoadReach, LoadBack, ConfirmEmpty, EffectFails, BumpLocal,
         BumpGlobal, Return, shared
<1>5. CASE CasSafe(t)
  <2> DEFINE c == SafeTarget(t)
  <2>1. CASE Holds(c)
    <3>1. c.buf \in Buffers /\ c.idx \in Indices
          /\ Written(c.buf, c.idx, c.exp.type, c.exp.val)
      BY <1>1, <1>5, <2>1, EffectWrites DEF CasSafe
    <3> QED  BY <3>1
  <2>2. CASE ~Holds(c)  BY <1>5, <2>2 DEF CasSafe
  <2> QED  BY <2>1, <2>2
<1>6. CASE PushValue(t) \/ PushBuffer(t) \/ TakeValue(t) \/ SealNeighbor(t) \/ RemoveNeighbor(t)
  <2> DEFINE c == EffectTarget(t)
  <2>1. pc[t] = "casEffect" /\ Holds(c)
    BY <1>6 DEF PushValue, PushBuffer, TakeValue, SealNeighbor, RemoveNeighbor, EffectOf
  <2>2. PICK ty, v : Swing(c, ty, v)
    BY <1>6 DEF PushValue, PushBuffer, TakeValue, SealNeighbor, RemoveNeighbor
  <2>3. c.buf \in Buffers /\ c.idx \in Indices /\ Written(c.buf, c.idx, ty, v)
    BY <1>1, <2>1, <2>2, EffectWrites
  <2> QED  BY <2>3
<1>7. (\E o \in Operations : Call(t, o)) => slots' = slots
  BY DEF Call, shared
<1> QED  BY <1>2, <1>3, <1>4, <1>5, <1>6, <1>7 DEF Acts, Step, Edge

\* The slots of a published buffer do not get younger.
LEMMA CountsGrow ==
  ASSUME ShapeInv, NEW t \in Threads, Acts(t), NEW x, Published(x), NEW i \in Indices
  PROVE  /\ slots[x][i].cnt \in Nat
         /\ slots'[x][i].cnt \in Nat
         /\ slots[x][i].cnt <= slots'[x][i].cnt
<1>1. x \in Buffers /\ slots[x][i] \in Slots  BY DEF Published, ShapeInv, TypeOK, VarTypes
<1>2. slots[x][i].cnt \in Nat  BY <1>1 DEF Slots
<1>3. CASE slots' = slots  BY <1>2, <1>3
<1>4. CASE Prepare(t)
  <2>1. slots'[x] = slots[x]  BY <1>1, <1>4, PrepareSetting
  <2> QED  BY <1>2, <2>1
<1>5. ASSUME NEW b \in Buffers, NEW j \in Indices, NEW ty, NEW v, Written(b, j, ty, v)
      PROVE  slots'[x][i].cnt \in Nat /\ slots[x][i].cnt <= slots'[x][i].cnt
  <2>1. CASE x = b /\ i = j  BY <1>2, <1>5, <2>1 DEF Written
  <2>2. CASE x # b \/ i # j
    <3>1. slots'[x][i] = slots[x][i]  BY <1>1, <1>5, <2>2 DEF Written
    <3> QED  BY <1>2, <3>1
  <2> QED  BY <2>1, <2>2
<1> QED  BY <1>2, <1>3, <1>4, <1>5, StepWrites

\* Only newBuffer and an append change who owns a buffer, only an append and a removal
\* change the chain.
LEMMA StepOwners ==
  ASSUME NEW t \in Threads, Acts(t), ~Prepare(t), ~PushBuffer(t)
  PROVE  SameOwners /\ (~RemoveNeighbor(t) => chain' = chain)
<1>1. CASE Oracle(t)
  BY <1>1
     DEF Oracle, LoadHint, ReserveHint, CheckHint, LoadLocal, ProbeInward, ProbeNear,
         ProbeOther, ProbeFar, ProbeLink, ReserveNbr, RecheckHint, ProbeNbr, shared, SameOwners
<1>2. CASE UpdateHint(t)
  BY <1>2
     DEF UpdateHint, UpdThreshold, UpdLoad, Sealed0, Sealed1, Sealed2, UpdLink, UpdReserve,
         UpdCheck, UpdCas, Retire, shared, SameOwners
<1>3. CASE Edge(t)
  BY <1>3
     DEF Edge, LoadNear, LoadFar, LoadReach, LoadBack, ConfirmEmpty, CasSafe, EffectFails,
         PushValue, TakeValue, SealNeighbor, RemoveNeighbor, BumpLocal, BumpGlobal, Return,
         shared, SameOwners
<1>4. CASE \E o \in Operations : Call(t, o)
  BY <1>4 DEF Call, shared, SameOwners
<1> QED  BY <1>1, <1>2, <1>3, <1>4 DEF Acts, Step

\* A removal takes the neighbor out of the chain, and nothing else.
LEMMA Removed ==
  ASSUME ShapeInv, NEW t \in Threads, RemoveNeighbor(t)
  PROVE  /\ Published(nbr[t]) /\ InChain(nbr[t])
         /\ \A k \in DOMAIN chain' : chain'[k] # nbr[t] /\ InChain(chain'[k])
<1> DEFINE s == S(t)
           b == buf[t]
           x == nbr[t]
           n == Len(chain)
<1>1. /\ TypeOK /\ Chained /\ Linked /\ stage[t] = "remove" /\ pc[t] = "casEffect"
      /\ Holds(EffectTarget(t)) /\ chain' = WithoutEnd(s, chain)
  BY DEF ShapeInv, RemoveNeighbor, EffectOf, Chained
<1>2. /\ s \in Sides /\ Published(b) /\ SealedOff(s, b, x) /\ Crossing(t)
      /\ FarSlot(t) = far[t] /\ FarIdx(t) = FarLinkIndex(s)
  <2>1. Crossing(t)  BY <1>1, Between DEF Straddles
  <2> QED  BY <1>1, <2>1, Between DEF Crossing
<1>3. Published(x) /\ LinksTo(b, FarLinkIndex(s), x)
  BY <1>2 DEF Crossing, LinksTo, FarSlot
<1>4. /\ n \in Nat /\ n > 1 /\ chain \in Seq(Buffers)
      /\ s = "L" => chain[1] = x
      /\ s = "R" => chain[n] = x
  BY <1>1, <1>2, <1>3, UnlinkSetting DEF Linked
<1>5. DOMAIN chain = 1..n  BY <1>4
<1>6. /\ DOMAIN chain' = 1..(n - 1)
      /\ s = "L" => \A k \in 1..(n - 1) : chain'[k] = chain[k + 1]
      /\ s = "R" => \A k \in 1..(n - 1) : chain'[k] = chain[k]
  <2>1. WithoutEnd(s, chain) \in Seq(Buffers) /\ Len(WithoutEnd(s, chain)) = n - 1
    BY <1>2, <1>4, Shrunk
  <2> QED  BY <1>1, <1>2, <1>4, <2>1, Shrunk
<1>7. InChain(x)
  <2>1. 1 \in 1..n /\ n \in 1..n  BY <1>4
  <2> QED  BY <1>2, <1>4, <1>5, <2>1 DEF InChain, Sides
<1>8. ASSUME NEW k \in 1..(n - 1) PROVE chain'[k] # x /\ InChain(chain'[k])
  <2>1. /\ k \in 1..n /\ k + 1 \in 1..n /\ 1 \in 1..n /\ n \in 1..n /\ k + 1 # 1 /\ k # n
    BY <1>4
  <2>2. \A i, j \in 1..n : chain[i] = chain[j] => i = j  BY <1>1, <1>5 DEF Linked
  <2>3. CASE s = "L"  BY <1>4, <1>5, <1>6, <2>1, <2>2, <2>3 DEF InChain
  <2>4. CASE s = "R"  BY <1>4, <1>5, <1>6, <2>1, <2>2, <2>4 DEF InChain
  <2> QED  BY <1>2, <2>3, <2>4 DEF Sides
<1> QED  BY <1>3, <1>6, <1>7, <1>8

\* What a sequence consists of after it has grown.
LEMMA Grown ==
  ASSUME NEW X, NEW q \in Seq(X), NEW e \in X, NEW s \in Sides,
         NEW k \in DOMAIN AtEnd(s, e, q)
  PROVE  AtEnd(s, e, q)[k] = e \/ \E j \in DOMAIN q : AtEnd(s, e, q)[k] = q[j]
<1>1. Len(q) \in Nat /\ DOMAIN q = 1..Len(q)  OBVIOUS
<1>2. CASE s = "L"
  <2> DEFINE p == AtEnd("L", e, q)
  <2>1. /\ p \in Seq(X) /\ Len(p) = Len(q) + 1 /\ p[1] = e
        /\ \A j \in 1..Len(q) : p[j + 1] = q[j]
    BY GrownLeft
  <2> HIDE DEF p
  <2>2. p = AtEnd(s, e, q)  BY <1>2 DEF p
  <2>3. k \in 1..(Len(q) + 1)  BY <2>1, <2>2
  <2>4. k = 1 \/ (k - 1 \in 1..Len(q) /\ (k - 1) + 1 = k)  BY <1>1, <2>3
  <2> QED  BY <1>1, <2>1, <2>2, <2>4
<1>3. CASE s = "R"
  <2> DEFINE p == AtEnd("R", e, q)
  <2>1. /\ p \in Seq(X) /\ Len(p) = Len(q) + 1 /\ p[Len(q) + 1] = e
        /\ \A j \in 1..Len(q) : p[j] = q[j]
    BY GrownRight
  <2> HIDE DEF p
  <2>2. p = AtEnd(s, e, q)  BY <1>3 DEF p
  <2>3. k \in 1..(Len(q) + 1)  BY <2>1, <2>2
  <2>4. k = Len(q) + 1 \/ k \in 1..Len(q)  BY <1>1, <2>3
  <2> QED  BY <1>1, <2>1, <2>2, <2>4
<1> QED  BY <1>2, <1>3 DEF Sides

\* An append links a buffer that nobody could reach.
LEMMA Appended ==
  ASSUME ShapeInv, NEW t \in Threads, PushBuffer(t)
  PROVE  /\ nbr[t] \in Buffers /\ ~Published(nbr[t])
         /\ \A x : Published(x) => Published(x)'
         /\ \A k \in DOMAIN chain' : chain'[k] = nbr[t] \/ InChain(chain'[k])
<1> DEFINE s == S(t)
           n == nbr[t]
           m == Len(chain)
<1>1. /\ TypeOK /\ Chained /\ Linked /\ Knows(t) /\ stage[t] = "append" /\ pc[t] = "casEffect"
      /\ pool' = pool /\ cache' = [cache EXCEPT ![t][s] = Null] /\ chain' = AtEnd(s, n, chain)
      /\ s \in Sides
  BY Reads DEF ShapeInv, PushBuffer, EffectOf, Chained
<1>2. n \in Buffers /\ cache[t][s] = n  BY <1>1 DEF Knows, Appending
<1>3. ~Published(n)  BY <1>1, <1>2 DEF Published, Private
<1>4. ASSUME NEW x, Published(x) PROVE Published(x)'
  <2>1. \A u \in Threads, r \in Sides : cache'[u][r] \in {Null, cache[u][r]}
    BY <1>1 DEF TypeOK, VarTypes
  <2> QED  BY <1>1, <1>4, <2>1, OFDequeAssumption DEF Published, Private
<1>5. chain \in Seq(Buffers) /\ m \in Nat /\ DOMAIN chain = 1..m
  BY <1>1 DEF Linked
<1>6. ASSUME NEW k \in DOMAIN chain' PROVE chain'[k] = n \/ InChain(chain'[k])
  <2>1. chain'[k] = n \/ \E j \in DOMAIN chain : chain'[k] = chain[j]
    BY <1>1, <1>2, <1>5, <1>6, Grown
  <2> QED  BY <2>1 DEF InChain
<1> QED  BY <1>2, <1>3, <1>4, <1>6

\* A published buffer stays published, and out of the chain once it is.
LEMMA StaysOut ==
  ASSUME ShapeInv, NEW t \in Threads, Acts(t), NEW x, Published(x)
  PROVE  Published(x)' /\ (InChain(x)' => InChain(x))
<1>1. CASE Prepare(t)
  <2>1. PICK b \in Buffers :
          /\ ~Published(b) /\ pool' = pool \ {b}
          /\ \A u \in Threads, r \in Sides :
               cache'[u][r] = IF u = t /\ r = S(t) THEN b ELSE cache[u][r]
    BY <1>1, PrepareSetting
  <2>2. Published(x)'  BY <2>1 DEF Published, Private
  <2>3. chain' = chain  BY <1>1 DEF Prepare
  <2> QED  BY <2>2, <2>3 DEF InChain
<1>2. CASE PushBuffer(t)
  BY <1>2, Appended DEF InChain
<1>3. CASE RemoveNeighbor(t)
  <2>1. ~Prepare(t) /\ ~PushBuffer(t)
    BY <1>3 DEF RemoveNeighbor, EffectOf, Prepare, PushBuffer
  <2>2. Published(x)'  BY <2>1, StepOwners, SamePublished
  <2>3. InChain(x)' => InChain(x)  BY <1>3, Removed DEF InChain
  <2> QED  BY <2>2, <2>3
<1>4. CASE ~Prepare(t) /\ ~PushBuffer(t) /\ ~RemoveNeighbor(t)
  <2>1. SameOwners /\ chain' = chain  BY <1>4, StepOwners
  <2> QED  BY <2>1, SamePublished DEF InChain
<1> QED  BY <1>1, <1>2, <1>3, <1>4

\* A step stores a global hint only over the one it expects: the buffer it is dangerous
\* for, with the next count.
Stores(t, x, s) ==
  /\ Danger(t, x, s) /\ globalHint[s].cnt = Stamp(t)
  /\ globalHint' = [globalHint EXCEPT ![s] = [buf |-> x, cnt |-> Stamp(t) + 1]]

\* The hints move in no other way.
LEMMA HintMoves ==
  ASSUME TypeOK, NEW t \in Threads, Acts(t)
  PROVE  globalHint' = globalHint \/ \E x : \E s \in Sides : Stores(t, x, s)
<1>1. CASE Oracle(t)
  BY <1>1
     DEF Oracle, LoadHint, ReserveHint, CheckHint, LoadLocal, ProbeInward, ProbeNear,
         ProbeOther, ProbeFar, ProbeLink, ReserveNbr, RecheckHint, ProbeNbr, shared
<1>2. CASE UpdateHint(t) /\ ~UpdCas(t)
  BY <1>2
     DEF UpdateHint, UpdThreshold, UpdLoad, Sealed0, Sealed1, Sealed2, UpdLink, UpdReserve,
         UpdCheck, Retire, shared
<1>3. CASE UpdCas(t)
  <2>1. upd[t].side \in Sides  BY Reads, UpdFields
  <2>2. Stamp(t) = upd[t].hint.cnt /\ Danger(t, upd[t].cand, upd[t].side)
    BY <1>3 DEF UpdCas, Stamp, Danger
  <2>3. CASE globalHint[upd[t].side] = upd[t].hint
    <3>1. Stores(t, upd[t].cand, upd[t].side)
      BY <1>3, <2>2, <2>3 DEF UpdCas, Stores
    <3> QED  BY <2>1, <3>1
  <2>4. CASE globalHint[upd[t].side] # upd[t].hint
    BY <1>3, <2>4 DEF UpdCas
  <2> QED  BY <2>3, <2>4
<1>4. CASE Edge(t) /\ ~BumpGlobal(t)
  BY <1>4
     DEF Edge, LoadNear, LoadFar, LoadReach, LoadBack, ConfirmEmpty, Prepare, CasSafe,
         EffectFails, PushValue, PushBuffer, TakeValue, SealNeighbor, RemoveNeighbor,
         BumpLocal, Return, shared
<1>5. CASE BumpGlobal(t)
  <2>1. S(t) \in Sides  BY Reads
  <2>2. Stamp(t) = hint[t].cnt /\ Danger(t, To(t), S(t))
    BY <1>5 DEF BumpGlobal, Stamp, Danger
  <2>3. CASE globalHint[S(t)] = hint[t]
    <3>1. Stores(t, To(t), S(t))
      BY <1>5, <2>2, <2>3 DEF BumpGlobal, Stores, To
    <3> QED  BY <2>1, <3>1
  <2>4. CASE globalHint[S(t)] # hint[t]
    BY <1>5, <2>4 DEF BumpGlobal
  <2> QED  BY <2>3, <2>4
<1>6. CASE \E o \in Operations : Call(t, o)
  BY <1>6 DEF Call, shared
<1> QED  BY <1>1, <1>2, <1>3, <1>4, <1>5, <1>6 DEF Acts, Step

\* So a hint is the same after the step, or has a greater count.
LEMMA HintGrows ==
  ASSUME TypeOK, TypeOK', NEW t \in Threads, Acts(t), NEW s \in Sides
  PROVE  /\ globalHint[s].cnt \in Nat /\ globalHint'[s].cnt \in Nat
         /\ globalHint[s].cnt <= globalHint'[s].cnt
         /\ globalHint[s].cnt = globalHint'[s].cnt => globalHint'[s] = globalHint[s]
<1>1. globalHint \in [Sides -> Hints] /\ globalHint' \in [Sides -> Hints]
  BY DEF TypeOK, VarTypes
<1>2. globalHint[s].cnt \in Nat /\ globalHint'[s].cnt \in Nat  BY <1>1 DEF Hints
<1>3. CASE globalHint' = globalHint  BY <1>2, <1>3
<1>4. ASSUME NEW x, NEW r \in Sides, Stores(t, x, r)
      PROVE  globalHint'[s] = globalHint[s] \/ globalHint'[s].cnt = globalHint[s].cnt + 1
  <2>1. CASE r = s  BY <1>1, <1>4, <2>1 DEF Stores
  <2>2. CASE r # s  BY <1>1, <1>4, <2>2 DEF Stores
  <2> QED  BY <2>1, <2>2
<1> QED  BY <1>2, <1>3, <1>4, HintMoves

-----------------------------------------------------------------------------
(* Who can store a removed buffer as a hint. *)

\* A published buffer out of the chain is sealed.
LEMMA OutIsSealed ==
  ASSUME ShapeInv, NEW x, Published(x), ~InChain(x)
  PROVE  TypeAt(x, 1) = "SEALED" \/ TypeAt(x, LastIndex - 1) = "SEALED"
  BY DEF ShapeInv, Chained, Linked, Published, IsSealed, TypeAt

\* A thread whose second CAS succeeds moves the hint to a buffer that is not sealed, or to
\* the one it appends.
LEMMA GoodTarget ==
  ASSUME ShapeInv, NEW t \in Threads, PushValue(t) \/ PushBuffer(t) \/ TakeValue(t),
         pc'[t] = "bumpGlobal", NEW x, To(t) = x, Published(x)
  PROVE  InChain(x)
<1>1. /\ TypeOK /\ Profiles /\ pc[t] = "casEffect" /\ S(t) \in Sides
      /\ pc'[t] = IF stage[t] = "interior" THEN "bumpLocal" ELSE "bumpGlobal"
  BY Locals, Reads
     DEF ShapeInv, Chained, PushValue, PushBuffer, TakeValue, EffectOf, Goto
<1>2. 1 \in Indices /\ LastIndex - 1 \in Indices
      /\ {1, LastIndex - 1} = {FarValueIndex(S(t)), NearValueIndex(S(t))}
  BY <1>1, Borders DEF FarValueIndex, NearValueIndex, Sides
<1> SUFFICES ASSUME ~InChain(x) PROVE FALSE
  OBVIOUS
<1>3. \/ TypeAt(x, FarValueIndex(S(t))) = "SEALED"
      \/ TypeAt(x, NearValueIndex(S(t))) = "SEALED"
  BY <1>2, OutIsSealed
<1>4. CASE PushBuffer(t)
  BY <1>4, Appended DEF To, PushBuffer
<1>5. CASE PushValue(t)
  <2>1. stage[t] = "straddle" /\ x = nbr[t] /\ Holds(EffectTarget(t))
    BY <1>1, <1>5 DEF PushValue, EffectOf, To
  <2>2. TypeAt(x, NearValueIndex(S(t))) = FarType(S(t))
    BY <1>1, <2>1, Between DEF ReachSlot, TypeAt
  <2>3. NearValueIndex(S(t)) \in Indices \ {FarLinkIndex(S(t)), FarValueIndex(S(t))}
    BY <1>1, Geometry, Places4
  <2> QED  BY <1>1, <1>3, <2>2, <2>3, Looks, Mirror
<1>6. CASE TakeValue(t)
  <2>1. stage[t] = "boundary" /\ x = buf[t] /\ Holds(EffectTarget(t)) /\ Takes(t)
    BY <1>1, <1>6 DEF TakeValue, EffectOf, To, Takes
  <2>2. TypeAt(x, FarValueIndex(S(t))) = "VALUE"
    BY <1>1, <2>1, Between DEF NearSlot, TypeAt
  <2>3. FarValueIndex(S(t)) \in Indices \ {NearLinkIndex(S(t)), NearValueIndex(S(t))}
    BY <1>1, Geometry, Places4
  <2> QED  BY <1>1, <1>3, <2>2, <2>3, Looks, Mirror
<1> QED  BY <1>4, <1>5, <1>6

\* Where a thread becomes dangerous.
LEMMA Arrivals ==
  ASSUME TypeOK, NEW t \in Threads, Acts(t)
  PROVE  /\ pc'[t] = "bumpGlobal" => PushValue(t) \/ PushBuffer(t) \/ TakeValue(t)
         /\ pc'[t] = "sealed2" => Sealed1(t)
         /\ pc'[t] = "updCas" => Sealed2(t)
<1>1. CASE Oracle(t)
  BY <1>1, Locals
     DEF Oracle, LoadHint, ReserveHint, CheckHint, LoadLocal, ProbeInward, ProbeNear,
         ProbeOther, ProbeFar, ProbeLink, ReserveNbr, RecheckHint, ProbeNbr, Goto
<1>2. CASE UpdateHint(t)
  BY <1>2, Locals
     DEF UpdateHint, UpdThreshold, UpdLoad, Sealed0, Sealed1, Sealed2, UpdLink, UpdReserve,
         UpdCheck, UpdCas, Retire, Goto, NextSide, BeginStage
<1>3. CASE Edge(t)
  BY <1>3, Locals
     DEF Edge, LoadNear, LoadFar, LoadReach, LoadBack, ConfirmEmpty, CasSafe, EffectFails,
         PushValue, PushBuffer, TakeValue, SealNeighbor, RemoveNeighbor, BumpLocal,
         BumpGlobal, Return, Prepare, Goto, BeginStage
<1>4. CASE \E o \in Operations : Call(t, o)
  BY <1>4, Locals DEF Call, Goto
<1> QED  BY <1>1, <1>2, <1>3, <1>4 DEF Acts, Step

\* Nobody becomes dangerous for a buffer that is out of the chain: it is sealed, so no CAS
\* on it succeeds any more, and whoever reads its seals sees one of them.
LEMMA NoNewDanger ==
  ASSUME ShapeInv, TypeOK', NEW t \in Threads, Acts(t), Stays(t),
         NEW x, Published(x), ~InChain(x), NEW w \in Threads, NEW s, Danger(w, x, s)'
  PROVE  Danger(w, x, s) /\ Stamp(w)' = Stamp(w)
<1>1. TypeOK /\ Knows(w) /\ x \in Buffers  BY DEF ShapeInv, Published
<1>2. CASE w # t
  <2>1. /\ pc'[w] = pc[w] /\ upd'[w] = upd[w] /\ hint'[w] = hint[w]
        /\ S(w)' = S(w) /\ To(w)' = To(w)
    BY <1>2 DEF Stays, S, To, Pushing
  <2>2. ASSUME pc[w] = "sealed2", upd[w].cand = x, upd[w].n0.cnt = slots'[x][1].cnt
        PROVE  upd[w].n0.cnt = slots[x][1].cnt
    <3>1. upd[w].n0.cnt <= slots[x][1].cnt  BY <1>1, <2>2 DEF Knows, SealReads
    <3>2. upd[w].n0.cnt \in Nat  BY <1>1, Reads, UpdFields, SlotFields
    <3>3. slots[x][1].cnt \in Nat /\ slots'[x][1].cnt \in Nat
          /\ slots[x][1].cnt <= slots'[x][1].cnt
      BY CountsGrow, Borders
    <3> QED  BY <2>2, <3>1, <3>2, <3>3
  <2> QED  BY <2>1, <2>2 DEF Danger, Stamp
<1>3. CASE w = t /\ pc'[t] = "bumpGlobal"
  <2>1. PushValue(t) \/ PushBuffer(t) \/ TakeValue(t)  BY <1>1, <1>3, Arrivals
  <2>2. To(t)' = To(t)
    BY <2>1 DEF PushValue, PushBuffer, TakeValue, To, Pushing, edge
  <2>3. To(t) = x  BY <1>3, <2>2 DEF Danger
  <2> QED  BY <1>3, <2>1, <2>3, GoodTarget
<1>4. CASE w = t /\ pc'[t] = "sealed2"
  <2>1. Sealed1(t)  BY <1>1, <1>4, Arrivals
  <2>2. /\ upd'[t].cand = upd[t].cand /\ upd'[t].n0 = upd[t].n0
        /\ upd'[t].n1 = slots[upd[t].cand][LastIndex - 1] /\ slots' = slots
        /\ pc[t] = "sealed1"
    BY <1>1, <2>1, Reads, UpdFields, Locals DEF Sealed1, shared, Updates
  <2>3. /\ upd[t].cand = x /\ upd[t].n0.type # "SEALED"
        /\ TypeAt(x, LastIndex - 1) # "SEALED" /\ upd[t].n0.cnt = slots[x][1].cnt
    BY <1>4, <2>2 DEF Danger, TypeAt
  <2>4. upd[t].n0.type = slots[x][1].type
    BY <1>1, <1>4, <2>2, <2>3 DEF Knows, SealReads
  <2>5. TypeAt(x, 1) = "SEALED"  BY <2>3, OutIsSealed
  <2> QED  BY <2>3, <2>4, <2>5 DEF TypeAt
<1>5. CASE w = t /\ pc'[t] = "updCas"
  <2>1. Sealed2(t)  BY <1>1, <1>5, Arrivals
  <2>2. /\ slots[upd[t].cand][1].cnt = upd[t].n0.cnt /\ SealedAt(upd[t]) = -1
        /\ upd' = upd /\ pc[t] = "sealed2"
    BY <1>1, <1>5, <2>1, Locals DEF Sealed2, Goto, NextSide
  <2>3. upd[t].n0.type # "SEALED" /\ upd[t].n1.type # "SEALED"
    <3>1. LastIndex - 1 # -1  BY OFDequeAssumption DEF LastIndex
    <3> QED  BY <2>2, <3>1 DEF SealedAt
  <2> QED  BY <1>5, <2>2, <2>3 DEF Danger, Stamp
<1>6. pc'[w] \in {"bumpGlobal", "sealed2", "updCas"}  BY DEF Danger
<1> QED  BY <1>2, <1>3, <1>4, <1>5, <1>6

-----------------------------------------------------------------------------
(* What stays true of the buffers that have been removed. *)

\* A removed buffer is published, and out of the chain.
LEMMA OutOfChain ==
  ASSUME RetireInv, NEW u \in Threads, NEW x \in Retiring(u)
  PROVE  Published(x) /\ ~InChain(x)
  BY DEF RetireInv, RetireKnows, RetiredOnce, InChain

\* The counts of copies are numbers.
LEMMA StampType ==
  ASSUME TypeOK, NEW w \in Threads
  PROVE  /\ Stamp(w) \in Nat /\ hint[w] \in Hints /\ hint[w].cnt \in Nat
         /\ upd[w].hint \in Hints /\ upd[w].hint.cnt \in Nat /\ upd[w].threshold \in Nat
         /\ upd[w].side \in Sides /\ S(w) \in Sides /\ upd[w] \in Updates
<1>1. hint[w] \in Hints /\ upd[w] \in Updates /\ S(w) \in Sides  BY Reads, Locals
<1>2. upd[w].hint \in Hints /\ upd[w].threshold \in Nat /\ upd[w].side \in Sides
  BY <1>1 DEF Updates
<1> QED  BY <1>1, <1>2 DEF Stamp, Hints

\* A hint that has left a removed buffer for good does not come back.
LEMMA ClearedKept ==
  ASSUME ShapeInv, TypeOK', NEW t \in Threads, Acts(t), Stays(t),
         NEW x, Published(x), ~InChain(x), NEW s \in Sides, Cleared(x, s)
  PROVE  Cleared(x, s)'
<1>1. TypeOK  BY DEF ShapeInv
<1>2. globalHint'[s].buf # x
  <2>1. CASE globalHint' = globalHint  BY <2>1 DEF Cleared
  <2>2. ASSUME NEW y, NEW r \in Sides, Stores(t, y, r) PROVE globalHint'[s].buf # x
    <3>1. globalHint \in [Sides -> Hints]  BY <1>1 DEF TypeOK, VarTypes
    <3>2. CASE r # s  BY <2>2, <3>1, <3>2 DEF Stores, Cleared
    <3>3. CASE r = s
      <4>1. globalHint'[s].buf = y  BY <2>2, <3>1, <3>3 DEF Stores
      <4>2. y # x
        <5>1. Stamp(t) = globalHint[s].cnt /\ Danger(t, y, s)  BY <2>2, <3>3 DEF Stores
        <5>2. ~(globalHint[s].cnt < globalHint[s].cnt)
          BY <1>1, HintGrows
        <5> QED  BY <5>1, <5>2 DEF Cleared
      <4> QED  BY <4>1, <4>2
    <3> QED  BY <3>2, <3>3
  <2> QED  BY <1>1, <2>1, <2>2, HintMoves
<1>3. ASSUME NEW w \in Threads, Danger(w, x, s)' PROVE Stamp(w)' < globalHint'[s].cnt
  <2>1. Danger(w, x, s) /\ Stamp(w)' = Stamp(w)  BY <1>3, NoNewDanger
  <2>2. Stamp(w) < globalHint[s].cnt  BY <2>1 DEF Cleared
  <2> QED  BY <1>1, <2>1, <2>2, HintGrows, StampType
<1> QED  BY <1>2, <1>3 DEF Cleared

\* Since a threshold has been loaded, a removed buffer becomes the hint once at most.
LEMMA OnceMoreKept ==
  ASSUME ShapeInv, TypeOK', NEW t \in Threads, Acts(t), Stays(t),
         NEW x, Published(x), ~InChain(x), NEW s \in Sides, NEW th \in Nat, OnceMore(x, s, th)
  PROVE  OnceMore(x, s, th)'
<1>1. TypeOK  BY DEF ShapeInv
<1>2. ASSUME NEW w \in Threads, Danger(w, x, s)' PROVE Stamp(w)' <= th
  <2>1. Danger(w, x, s) /\ Stamp(w)' = Stamp(w)  BY <1>2, NoNewDanger
  <2> QED  BY <2>1 DEF OnceMore
<1>3. globalHint'[s].buf = x => globalHint'[s].cnt <= th + 1
  <2>1. CASE globalHint' = globalHint  BY <2>1 DEF OnceMore
  <2>2. ASSUME NEW y, NEW r \in Sides, Stores(t, y, r)
        PROVE  globalHint'[s].buf = x => globalHint'[s].cnt <= th + 1
    <3>1. globalHint \in [Sides -> Hints]  BY <1>1 DEF TypeOK, VarTypes
    <3>2. CASE r # s  BY <2>2, <3>1, <3>2 DEF Stores, OnceMore
    <3>3. CASE r = s
      <4>1. globalHint'[s].buf = y /\ globalHint'[s].cnt = Stamp(t) + 1 /\ Danger(t, y, s)
        BY <2>2, <3>1, <3>3 DEF Stores
      <4>2. y = x => Stamp(t) <= th  BY <4>1 DEF OnceMore
      <4>3. Stamp(t) \in Nat  BY <1>1, StampType
      <4> QED  BY <4>1, <4>2, <4>3
    <3> QED  BY <3>2, <3>3
  <2> QED  BY <1>1, <2>1, <2>2, HintMoves
<1> QED  BY <1>2, <1>3 DEF OnceMore

\* So does the one that a thread has removed.
LEMMA ExpiringKept ==
  ASSUME ShapeInv, TypeOK', NEW t \in Threads, Acts(t), Stays(t),
         NEW u \in Threads, Published(nbr[u]), ~InChain(nbr[u]), Expiring(u),
         nbr'[u] = nbr[u], upd'[u].side = upd[u].side, upd'[u].threshold = upd[u].threshold
  PROVE  Expiring(u)'
<1>1. PICK x, s, th : x = nbr[u] /\ s = upd[u].side /\ th = upd[u].threshold  OBVIOUS
<1>2. s \in Sides /\ th \in Nat  BY <1>1, StampType DEF ShapeInv
<1>3. OnceMore(x, s, th)'  BY <1>1, <1>2, OnceMoreKept DEF Expiring
<1> QED  BY <1>1, <1>3 DEF Expiring

\* A copy of a hint stays one.
LEMMA CopiedKept ==
  ASSUME TypeOK, TypeOK', NEW t \in Threads, Acts(t), NEW s \in Sides, NEW h \in Hints,
         Copied(h, globalHint[s])
  PROVE  Copied(h, globalHint'[s])
<1>1. h.cnt \in Nat  BY DEF Hints
<1>2. /\ globalHint[s].cnt \in Nat /\ globalHint'[s].cnt \in Nat
      /\ globalHint[s].cnt <= globalHint'[s].cnt
      /\ globalHint[s].cnt = globalHint'[s].cnt => globalHint'[s] = globalHint[s]
  BY HintGrows
<1> QED  BY <1>1, <1>2 DEF Copied

\* The removed buffers stay published and out of reach, whoever moves.
LEMMA RemovedKept ==
  ASSUME RetireInv, TypeOK', NEW t \in Threads, Acts(t), Stays(t), NEW u \in Threads
  PROVE  /\ \A x \in Retiring(u) : Published(x)'
         /\ \A x \in retired[u], s \in Sides : Cleared(x, s)'
<1>1. \A x \in Retiring(u) : Published(x) /\ ~InChain(x)  BY OutOfChain
<1>2. ShapeInv  BY DEF RetireInv
<1>3. ASSUME NEW x \in retired[u], NEW s \in Sides PROVE Cleared(x, s)'
  <2>1. x \in Retiring(u)  BY DEF Retiring
  <2>2. Cleared(x, s)  BY DEF RetireInv, RetireKnows
  <2> QED  BY <1>1, <1>2, <2>1, <2>2, ClearedKept
<1> QED  BY <1>1, <1>2, <1>3, StaysOut

\* A step of t leaves the others what they know.
LEMMA OthersRetire ==
  ASSUME RetireInv, TypeOK', NEW t \in Threads, Acts(t), Stays(t), NEW u \in Threads, u # t
  PROVE  RetireKnows(u)'
<1>1. TypeOK /\ ShapeInv /\ RetireKnows(u)  BY DEF RetireInv, ShapeInv
<1>2. /\ pc'[u] = pc[u] /\ hint'[u] = hint[u] /\ upd'[u] = upd[u] /\ nbr'[u] = nbr[u]
      /\ retired'[u] = retired[u] /\ S(u)' = S(u) /\ Retiring(u)' = Retiring(u)
  BY DEF Stays, S, Retiring
<1>3. \A x \in Retiring(u)' : Published(x)'  BY <1>2, RemovedKept
<1>4. \A x \in retired'[u], s \in Sides : Cleared(x, s)'  BY <1>2, RemovedKept
<1>5. HintSnap(u)'
  <2>1. S(u) \in Sides /\ hint[u] \in Hints /\ upd[u].hint \in Hints /\ upd[u].side \in Sides
    BY <1>1, StampType
  <2>2. Copied(hint[u], globalHint[S(u)]) => Copied(hint[u], globalHint'[S(u)])
    BY <1>1, <2>1, CopiedKept
  <2>3. Copied(upd[u].hint, globalHint[upd[u].side]) =>
          Copied(upd[u].hint, globalHint'[upd[u].side])
    BY <1>1, <2>1, CopiedKept
  <2>4. upd[u].threshold <= globalHint[upd[u].side].cnt =>
          upd[u].threshold <= globalHint'[upd[u].side].cnt
    BY <1>1, <2>1, HintGrows, StampType
  <2> QED  BY <1>1, <1>2, <2>2, <2>3, <2>4 DEF RetireKnows, HintSnap
<1>6. RetireFact(u)'
  <2> SUFFICES ASSUME pc[u] \in Updating PROVE RetireFact(u)'
    BY <1>2 DEF RetireFact
  <2>0. PICK x : x = nbr[u] /\ x = nbr'[u]  BY <1>2
  <2>1. Published(x) /\ ~InChain(x)
    <3>1. x \in Retiring(u)  BY <2>0 DEF Retiring
    <3> QED  BY <3>1, OutOfChain
  <2>2. RetireFact(u)  BY <1>1 DEF RetireKnows
  <2>3. \A s \in Sides : Danger(u, x, s)' => Danger(u, x, s)
    BY <1>1, <2>1, NoNewDanger
  <2>4. \A s \in Sides : Cleared(x, s) => Cleared(x, s)'
    BY <1>1, <2>1, ClearedKept
  <2>5. Expiring(u) => Expiring(u)'
    BY <1>1, <1>2, <2>0, <2>1, ExpiringKept
  <2>6. \A s \in Sides : ~Danger(u, x, s)'
    BY <2>0, <2>2, <2>3 DEF RetireFact
  <2>7. /\ upd[u].side = "R" => Cleared(x, "L")'
        /\ pc[u] = "retire" => upd[u].side = "R" /\ Cleared(x, "R")'
        /\ pc[u] \notin {"updThreshold", "retire"} => Expiring(u)'
    BY <2>0, <2>2, <2>4, <2>5 DEF RetireFact, Sides
  <2> QED  BY <1>2, <2>0, <2>6, <2>7 DEF RetireFact
<1> QED  BY <1>3, <1>4, <1>5, <1>6 DEF RetireKnows

-----------------------------------------------------------------------------
(* What the thread that moves knows: steps outside of updateHint, and the removal. *)

\* Every word the code dereferences as a link is one, and a removed buffer is given to the
\* tracker once.
LEMMA NeverFaults ==
  ASSUME RetireInv, NEW t \in Threads, Acts(t)
  PROVE  pc'[t] # "fault"
<1>1. ShapeInv /\ TypeOK /\ Pointers(t) /\ pc[t] # "fault"
  BY DEF RetireInv, ShapeInv, Knows, NoFault
<1>2. CASE ProbeOther(t)  BY <1>1, <1>2, ProbeOtherGoes
<1>3. CASE RecheckHint(t)
  BY <1>1, <1>3, Locals DEF RecheckHint, Goto, Pointers, Published
<1>4. CASE LoadFar(t)
  <2>1. AtBorder(t) /\ slots[buf[t]][FarIdx(t)].type # FarType(S(t)) =>
          slots[buf[t]][FarIdx(t)].val \in Buffers
    BY <1>1, <1>4, BorderLink DEF Published
  <2> QED  BY <1>1, <1>4, <2>1, Locals DEF LoadFar, BeginStage, Goto
<1>5. CASE UpdCheck(t)
  BY <1>1, <1>5, Locals DEF UpdCheck, Goto, Pointers, Published
<1>6. CASE Retire(t)
  <2>1. nbr[t] \notin retired[t]  BY <1>6 DEF Retire, RetireInv, RetiredOnce, Updating
  <2> QED  BY <1>1, <1>6, <2>1, Locals DEF Retire, BeginStage, Goto
<1>7. CASE Oracle(t) /\ ~ProbeOther(t) /\ ~RecheckHint(t)
  BY <1>1, <1>7, Locals
     DEF Oracle, LoadHint, ReserveHint, CheckHint, LoadLocal, ProbeInward, ProbeNear,
         ProbeFar, ProbeLink, ReserveNbr, ProbeNbr, Goto
<1>8. CASE UpdateHint(t) /\ ~UpdCheck(t) /\ ~Retire(t)
  BY <1>1, <1>8, Locals
     DEF UpdateHint, UpdThreshold, UpdLoad, Sealed0, Sealed1, Sealed2, UpdLink, UpdReserve,
         UpdCas, Goto, NextSide
<1>9. CASE Edge(t) /\ ~LoadFar(t)
  BY <1>1, <1>9, Locals
     DEF Edge, LoadNear, LoadReach, LoadBack, ConfirmEmpty, CasSafe, EffectFails,
         PushValue, PushBuffer, TakeValue, SealNeighbor, RemoveNeighbor, BumpLocal,
         BumpGlobal, Return, Prepare, Goto, BeginStage
<1>10. CASE \E o \in Operations : Call(t, o)
  BY <1>1, <1>10, Locals DEF Call, Goto
<1> QED
  BY <1>2, <1>3, <1>4, <1>5, <1>6, <1>7, <1>8, <1>9, <1>10 DEF Acts, Step

\* A step that adds nothing to what t retires.
LEMMA OnceKept ==
  ASSUME RetireInv, NEW t \in Threads, Acts(t), Stays(t),
         Retiring(t)' \subseteq Retiring(t), pc'[t] \in Updating => nbr'[t] \notin retired'[t]
  PROVE  RetiredOnce'
<1>1. RetiredOnce /\ ShapeInv  BY DEF RetireInv
<1>2. \A u \in Threads : Retiring(u)' \subseteq Retiring(u)
  <2>1. \A u \in Threads \ {t} : Retiring(u)' = Retiring(u)  BY DEF Stays, Retiring
  <2> QED  BY <2>1
<1>3. \A u \in Threads \ {t} : pc'[u] \in Updating => nbr'[u] \notin retired'[u]
  BY <1>1 DEF Stays, RetiredOnce
<1>4. ASSUME NEW u \in Threads, NEW k \in DOMAIN chain', chain'[k] \in Retiring(u)'
      PROVE  FALSE
  <2>0. PICK x : x = chain'[k]  OBVIOUS
  <2>1. x \in Retiring(u)  BY <1>2, <1>4, <2>0
  <2>2. Published(x) /\ ~InChain(x)  BY <2>1, OutOfChain
  <2>3. InChain(x)'
    <3>1. \E l \in DOMAIN chain' : chain'[l] = x  BY <1>4, <2>0
    <3> QED  BY <3>1 DEF InChain
  <2> QED  BY <1>1, <2>2, <2>3, StaysOut
<1> QED  BY <1>1, <1>2, <1>3, <1>4 DEF RetiredOnce

\* Outside of removal and retirement, a thread's copies of the hints stay copies.
LEMMA OutsideRetire ==
  ASSUME RetireInv, TypeOK', NEW t \in Threads, Acts(t), Outside(t)
  PROVE  RetiredOnce' /\ RetireKnows(t)'
<1>1. TypeOK /\ ShapeInv /\ RetireKnows(t) /\ Stays(t)
  BY DEF RetireInv, ShapeInv, Outside
<1>2. Retiring(t)' = Retiring(t) /\ Retiring(t) = retired[t] /\ retired'[t] = retired[t]
  BY DEF Outside, Retiring
<1>3. RetiredOnce'  BY <1>1, <1>2, OnceKept DEF Outside
<1>4. HintSnap(t)'
  <2>1. S(t) \in Sides /\ hint[t] \in Hints /\ globalHint[S(t)] \in Hints
        /\ globalHint[S(t)].cnt \in Nat
    BY <1>1, StampType DEF TypeOK, VarTypes, Hints
  <2>2. ASSUME pc'[t] \notin {"idle", "loadHint"}
        PROVE  Copied(hint[t], globalHint[S(t)])'
    <3>1. CASE pc[t] \in {"idle", "loadHint"}
      <4>1. hint'[t] = globalHint[S(t)] /\ S(t)' = S(t)  BY <2>2, <3>1 DEF Outside
      <4>2. Copied(globalHint[S(t)], globalHint[S(t)])  BY <2>1 DEF Copied
      <4>3. Copied(globalHint[S(t)], globalHint'[S(t)])  BY <1>1, <2>1, <4>2, CopiedKept
      <4> QED  BY <4>1, <4>3
    <3>2. CASE pc[t] \notin {"idle", "loadHint"}
      <4>1. hint'[t] = hint[t] /\ S(t)' = S(t)  BY <2>2, <3>2 DEF Outside
      <4>2. Copied(hint[t], globalHint[S(t)])  BY <1>1, <3>2 DEF RetireKnows, HintSnap
      <4>3. Copied(hint[t], globalHint'[S(t)])  BY <1>1, <2>1, <4>2, CopiedKept
      <4> QED  BY <4>1, <4>3
    <3> QED  BY <3>1, <3>2
  <2>3. pc'[t] \notin Updating  BY DEF Outside
  <2> QED  BY <2>2, <2>3 DEF HintSnap, Updating
<1>5. RetireFact(t)'  BY DEF RetireFact, Outside
<1>6. \A x \in Retiring(t)' : Published(x)'  BY <1>1, <1>2, RemovedKept
<1>7. \A x \in retired'[t], s \in Sides : Cleared(x, s)'  BY <1>1, <1>2, RemovedKept
<1> QED  BY <1>3, <1>4, <1>5, <1>6, <1>7 DEF RetireKnows

\* In a removal and in updateHint, the copy of the search's hint is kept.
LEMMA SearchHint ==
  ASSUME RetireInv, TypeOK', NEW t \in Threads, RemoveNeighbor(t) \/ UpdateHint(t),
         pc[t] \notin {"idle", "loadHint"}
  PROVE  Copied(hint[t], globalHint[S(t)])'
<1>1. TypeOK /\ Acts(t) /\ S(t) \in Sides /\ hint[t] \in Hints
  BY StampType DEF RetireInv, ShapeInv, Acts, Step, Edge
<1>2. hint'[t] = hint[t] /\ S(t)' = S(t)  BY <1>1, UpdateStays DEF S
<1>3. Copied(hint[t], globalHint[S(t)])  BY DEF RetireInv, RetireKnows, HintSnap
<1>4. Copied(hint[t], globalHint'[S(t)])  BY <1>1, <1>3, CopiedKept
<1> QED  BY <1>2, <1>4

\* The buffer that is removed was in the chain, so nobody else has removed it.
LEMMA RemoveRetire ==
  ASSUME RetireInv, TypeOK', NEW t \in Threads, RemoveNeighbor(t)
  PROVE  RetiredOnce' /\ RetireKnows(t)'
<1> DEFINE x == nbr[t]
<1>1. /\ TypeOK /\ ShapeInv /\ RetiredOnce /\ RetireKnows(t) /\ Acts(t) /\ Step(t)
      /\ pc[t] = "casEffect" /\ pc'[t] = "updThreshold" /\ upd'[t] = NoUpdate
      /\ retired' = retired /\ nbr' = nbr
  BY Locals DEF RetireInv, ShapeInv, Acts, Step, Edge, RemoveNeighbor, EffectOf, Goto, edge
<1>2. Stays(t)  BY <1>1, UpdateStays
<1>3. /\ Published(x) /\ InChain(x)
      /\ \A k \in DOMAIN chain' : chain'[k] # x /\ InChain(chain'[k])
  BY <1>1, Removed
<1>4. \A u \in Threads : x \notin Retiring(u)
  BY <1>1, <1>3 DEF RetiredOnce, InChain
<1>5. /\ Retiring(t) = retired[t] /\ Retiring(t)' = retired[t] \cup {x}
      /\ \A u \in Threads \ {t} : Retiring(u)' = Retiring(u)
  BY <1>1, <1>2 DEF Retiring, Updating, Stays
<1>6. RetiredOnce'
  <2>1. \A u, w \in Threads : u # w => Retiring(u)' \cap Retiring(w)' = {}
    BY <1>1, <1>4, <1>5 DEF RetiredOnce
  <2>2. \A u \in Threads : pc'[u] \in Updating => nbr'[u] \notin retired'[u]
    BY <1>1, <1>2, <1>4, <1>5 DEF RetiredOnce, Stays
  <2>3. \A u \in Threads : \A k \in DOMAIN chain' : chain'[k] \notin Retiring(u)'
    <3>1. \A u \in Threads : \A y : InChain(y) => y \notin Retiring(u)
      BY <1>1 DEF RetiredOnce, InChain
    <3> QED  BY <1>3, <1>5, <3>1
  <2> QED  BY <2>1, <2>2, <2>3 DEF RetiredOnce
<1>7. HintSnap(t)'
  <2>1. Copied(hint[t], globalHint[S(t)])'  BY <1>1, SearchHint
  <2> QED  BY <1>1, <2>1 DEF HintSnap
<1>8. RetireFact(t)'
  BY <1>1 DEF RetireFact, Danger, NoUpdate
<1>9. \A y \in Retiring(t)' : Published(y)'
  <2>1. Published(x)'
    <3>1. PICK y : y = x  OBVIOUS
    <3>2. Published(y)'  BY <1>1, <1>3, <3>1, StaysOut
    <3> QED  BY <1>1, <3>1, <3>2
  <2>2. \A y \in Retiring(t) : Published(y)'  BY <1>1, <1>2, RemovedKept
  <2> QED  BY <1>1, <1>5, <2>1, <2>2
<1>10. \A y \in retired'[t], s \in Sides : Cleared(y, s)'  BY <1>1, <1>2, RemovedKept
<1> QED  BY <1>6, <1>7, <1>8, <1>9, <1>10 DEF RetireKnows

-----------------------------------------------------------------------------
(* What the thread that moves knows: updateHint and retire. *)

\* Before the buffer is given to the tracker, it is enough to look at the hints.
LEMMA UpdateKept ==
  ASSUME RetireInv, TypeOK', NEW t \in Threads, UpdateHint(t), retired' = retired,
         pc[t] \in Updating, pc'[t] \in Updating, HintSnap(t)', NEW x, x = nbr[t],
         upd[t].side = "L" /\ upd'[t].side = "R" => Cleared(x, "L")',
         pc'[t] = "retire" => upd'[t].side = "R" /\ Cleared(x, "R")',
         pc'[t] \notin {"updThreshold", "retire"} => Expiring(t)'
  PROVE  RetiredOnce' /\ RetireKnows(t)'
<1>1. TypeOK /\ ShapeInv /\ RetiredOnce /\ RetireKnows(t) /\ Acts(t) /\ nbr'[t] = x
  BY UpdateStays DEF RetireInv, ShapeInv, Acts, Step
<1>2. Stays(t)  BY <1>1, UpdateStays
<1>3. Retiring(t)' = Retiring(t) /\ x \in Retiring(t) /\ x \notin retired'[t]
  BY <1>1 DEF Retiring, RetiredOnce
<1>4. Published(x) /\ ~InChain(x)  BY <1>3, OutOfChain
<1>5. RetiredOnce'  BY <1>1, <1>2, <1>3, OnceKept
<1>6. \A s \in Sides : ~Danger(t, x, s)'
  <2>1. \A s \in Sides : ~Danger(t, x, s)  BY <1>1 DEF RetireKnows, RetireFact
  <2> QED  BY <1>1, <1>2, <1>4, <2>1, NoNewDanger
<1>7. upd'[t].side = "R" => Cleared(x, "L")'
  <2>1. upd[t].side \in Sides  BY <1>1, StampType
  <2>2. upd[t].side = "R" => Cleared(x, "L")  BY <1>1 DEF RetireKnows, RetireFact
  <2>3. "L" \in Sides  BY DEF Sides
  <2>4. Cleared(x, "L") => Cleared(x, "L")'  BY <1>1, <1>2, <1>4, <2>3, ClearedKept
  <2> QED  BY <2>1, <2>2, <2>4 DEF Sides
<1>8. RetireFact(t)'  BY <1>1, <1>6, <1>7 DEF RetireFact
<1>9. \A y \in Retiring(t)' : Published(y)'  BY <1>1, <1>2, <1>3, RemovedKept
<1>10. \A y \in retired'[t], s \in Sides : Cleared(y, s)'  BY <1>1, <1>2, RemovedKept
<1> QED  BY <1>5, <1>8, <1>9, <1>10 DEF RetireKnows

\* The steps of updateHint that go on with the same hint and threshold.
Continues(t) ==
  LET u == upd[t]  v == upd'[t] IN
  /\ retired' = retired
  /\ pc[t] \in Updating \ {"updThreshold", "updLoad", "retire"}
  /\ pc'[t] \in Updating \ {"updThreshold", "retire"}
  /\ v.hint = u.hint /\ v.side = u.side /\ v.threshold = u.threshold
  /\ v.finding \/ (v.finding = u.finding /\ v.cand = u.cand)
  /\ pc'[t] \in {"updLink", "updReserve", "updCheck"} => v.finding

\* They forget nothing.
LEMMA ContinuesRetire ==
  ASSUME RetireInv, TypeOK', NEW t \in Threads, UpdateHint(t), Continues(t)
  PROVE  RetiredOnce' /\ RetireKnows(t)'
<1>1. /\ TypeOK /\ ShapeInv /\ RetireKnows(t) /\ Acts(t) /\ pc[t] \in Updating
      /\ nbr' = nbr /\ Stays(t)
  BY UpdateStays DEF RetireInv, ShapeInv, Acts, Step, Continues
<1>2. PICK x : x = nbr[t]  OBVIOUS
<1>3. x \in Retiring(t) /\ Published(x) /\ ~InChain(x)
  <2>1. x \in Retiring(t)  BY <1>1, <1>2 DEF Retiring
  <2> QED  BY <2>1, OutOfChain
<1>4. HintSnap(t)'
  <2>1. Copied(hint[t], globalHint[S(t)])'  BY <1>1, SearchHint DEF Updating
  <2>2. upd[t].hint \in Hints /\ upd[t].side \in Sides  BY <1>1, StampType
  <2>3. /\ Copied(upd[t].hint, globalHint[upd[t].side])
        /\ upd[t].threshold <= upd[t].hint.cnt
        /\ ~upd[t].finding => upd[t].cand = upd[t].hint.buf
    BY <1>1 DEF RetireKnows, HintSnap, Continues
  <2>4. Copied(upd[t].hint, globalHint'[upd[t].side])  BY <1>1, <2>2, <2>3, CopiedKept
  <2>5. upd[t].threshold <= globalHint'[upd[t].side].cnt
    <3>1. upd[t].hint.cnt <= globalHint'[upd[t].side].cnt  BY <2>4 DEF Copied
    <3> QED  BY <1>1, <2>2, <2>3, <3>1, StampType, HintGrows
  <2>6. Copied(upd[t].hint, globalHint[upd[t].side])'  BY <2>4 DEF Continues
  <2> QED  BY <2>1, <2>3, <2>5, <2>6 DEF HintSnap, Continues
<1>5. Expiring(t)'
  <2>1. Expiring(t)  BY <1>1 DEF RetireKnows, RetireFact, Continues
  <2> QED  BY <1>1, <1>2, <1>3, <2>1, ExpiringKept DEF Continues
<1>6. upd'[t].side = upd[t].side /\ pc'[t] \in Updating /\ pc'[t] # "retire"
  BY DEF Continues
<1>7. ~(upd[t].side = "L" /\ upd'[t].side = "R")  BY <1>6
<1> QED  BY <1>1, <1>2, <1>4, <1>5, <1>6, <1>7, UpdateKept DEF Continues

\* One side's hint is done: it has left the removed buffer for good.
LEMMA SideDoneRetire ==
  ASSUME RetireInv, TypeOK', NEW t \in Threads, UpdateHint(t), retired' = retired,
         pc[t] \in {"sealed2", "updCas"}, NEW s, s = upd[t].side, NEW x, x = nbr[t],
         upd'[t].side = "R", pc'[t] = IF s = "L" THEN "updThreshold" ELSE "retire",
         Cleared(x, s)'
  PROVE  RetiredOnce' /\ RetireKnows(t)'
<1>1. TypeOK /\ pc[t] \in Updating /\ pc'[t] \in {"updThreshold", "retire"}
  BY DEF RetireInv, ShapeInv, Updating
<1>2. HintSnap(t)'
  <2>1. Copied(hint[t], globalHint[S(t)])'  BY SearchHint
  <2> QED  BY <1>1, <2>1 DEF HintSnap
<1>3. s \in Sides  BY <1>1, StampType
<1>4. upd[t].side = "L" /\ upd'[t].side = "R" => Cleared(x, "L")'  OBVIOUS
<1>5. pc'[t] = "retire" => upd'[t].side = "R" /\ Cleared(x, "R")'
  BY <1>3 DEF Sides
<1>6. pc'[t] \in Updating  BY <1>1 DEF Updating
<1> QED  BY <1>1, <1>2, <1>4, <1>5, <1>6, UpdateKept

\* At the threshold, nobody expects a younger hint.
LEMMA UpdThresholdRetire ==
  ASSUME RetireInv, TypeOK', NEW t \in Threads, UpdThreshold(t)
  PROVE  RetiredOnce' /\ RetireKnows(t)'
<1> DEFINE s == upd[t].side
<1>1. /\ TypeOK /\ ShapeInv /\ RetireKnows(t) /\ UpdateHint(t) /\ Acts(t)
      /\ pc[t] = "updThreshold" /\ pc'[t] = "updLoad" /\ retired' = retired
      /\ globalHint' = globalHint /\ s \in Sides
      /\ upd'[t].side = s /\ upd'[t].threshold = globalHint[s].cnt
  <2>1. TypeOK /\ upd[t] \in Updates /\ s \in Sides  BY StampType DEF RetireInv, ShapeInv
  <2> QED
    BY <2>1, Locals
       DEF RetireInv, ShapeInv, UpdThreshold, UpdateHint, Acts, Step, Goto, shared, Updates
<1>2. Stays(t) /\ nbr' = nbr  BY <1>1, UpdateStays
<1>3. PICK x : x = nbr[t] /\ x = nbr'[t]  BY <1>2
<1>4. Published(x) /\ ~InChain(x)
  <2>1. x \in Retiring(t)  BY <1>1, <1>3 DEF Retiring, Updating
  <2> QED  BY <2>1, OutOfChain
<1>5. HintSnap(t)'
  <2>1. Copied(hint[t], globalHint[S(t)])'  BY <1>1, SearchHint
  <2>2. globalHint[s].cnt <= globalHint[s].cnt  BY <1>1, HintGrows
  <2> QED  BY <1>1, <2>1, <2>2 DEF HintSnap
<1>6. Expiring(t)'
  <2>1. PICK r \in Sides : r = s  BY <1>1
  <2>2. ASSUME NEW w \in Threads, Danger(w, x, r)' PROVE Stamp(w)' <= globalHint[r].cnt
    <3>1. Danger(w, x, r) /\ Stamp(w)' = Stamp(w)  BY <1>1, <1>2, <1>4, <2>2, NoNewDanger
    <3>2. HintSnap(w)  BY DEF RetireInv, RetireKnows
    <3>3. Stamp(w) <= globalHint[r].cnt
      BY <3>1, <3>2 DEF Danger, HintSnap, Copied, Stamp, Updating
    <3> QED  BY <3>1, <3>3
  <2>3. globalHint[r].cnt \in Nat  BY <1>1, HintGrows
  <2>4. globalHint'[r].buf = x => globalHint'[r].cnt <= globalHint[r].cnt + 1
    BY <1>1, <2>3
  <2>5. upd'[t].side = r /\ upd'[t].threshold = globalHint[r].cnt  BY <1>1, <2>1
  <2> QED  BY <1>3, <2>2, <2>4, <2>5 DEF Expiring, OnceMore
<1>7. ~(upd[t].side = "L" /\ upd'[t].side = "R")  BY <1>1
<1>8. pc[t] \in Updating /\ pc'[t] \in Updating  BY <1>1 DEF Updating
<1> QED  BY <1>1, <1>3, <1>5, <1>6, <1>7, <1>8, UpdateKept

\* The hint is loaded after the threshold.
LEMMA UpdLoadRetire ==
  ASSUME RetireInv, TypeOK', NEW t \in Threads, UpdLoad(t)
  PROVE  RetiredOnce' /\ RetireKnows(t)'
<1> DEFINE s == upd[t].side
<1>1. /\ TypeOK /\ ShapeInv /\ RetireKnows(t) /\ UpdateHint(t) /\ Acts(t)
      /\ pc[t] = "updLoad" /\ pc'[t] = "sealed0" /\ retired' = retired
      /\ globalHint' = globalHint /\ s \in Sides
      /\ upd'[t].side = s /\ upd'[t].threshold = upd[t].threshold
      /\ upd'[t].hint = globalHint[s] /\ upd'[t].cand = globalHint[s].buf
  <2>1. TypeOK /\ upd[t] \in Updates /\ s \in Sides  BY StampType DEF RetireInv, ShapeInv
  <2> QED
    BY <2>1, Locals
       DEF RetireInv, ShapeInv, UpdLoad, UpdateHint, Acts, Step, Goto, shared, Updates
<1>2. Stays(t) /\ nbr' = nbr  BY <1>1, UpdateStays
<1>3. PICK x : x = nbr[t]  OBVIOUS
<1>4. Published(x) /\ ~InChain(x)
  <2>1. x \in Retiring(t)  BY <1>1, <1>3 DEF Retiring, Updating
  <2> QED  BY <2>1, OutOfChain
<1>5. HintSnap(t)'
  <2>1. Copied(hint[t], globalHint[S(t)])'  BY <1>1, SearchHint
  <2>2. globalHint[s].cnt \in Nat  BY <1>1, HintGrows
  <2>3. Copied(globalHint[s], globalHint[s])  BY <2>2 DEF Copied
  <2>4. upd[t].threshold <= globalHint[s].cnt  BY <1>1 DEF RetireKnows, HintSnap
  <2>5. Copied(upd[t].hint, globalHint[upd[t].side])'  BY <1>1, <2>3
  <2> QED  BY <1>1, <2>1, <2>4, <2>5 DEF HintSnap
<1>6. Expiring(t)'
  <2>1. Expiring(t)  BY <1>1 DEF RetireKnows, RetireFact, Updating
  <2> QED  BY <1>1, <1>2, <1>3, <1>4, <2>1, ExpiringKept
<1>7. ~(upd[t].side = "L" /\ upd'[t].side = "R")  BY <1>1
<1>8. pc[t] \in Updating /\ pc'[t] \in Updating  BY <1>1 DEF Updating
<1> QED  BY <1>1, <1>3, <1>5, <1>6, <1>7, <1>8, UpdateKept

\* The loads of isSealed and of findActiveBuffer, and its reservation.
LEMMA SealReadsRetire ==
  ASSUME RetireInv, TypeOK', NEW t \in Threads,
         Sealed0(t) \/ Sealed1(t) \/ UpdLink(t) \/ UpdReserve(t)
  PROVE  RetiredOnce' /\ RetireKnows(t)'
<1>1. TypeOK /\ upd[t] \in Updates /\ HintSnap(t) /\ UpdateHint(t)
  BY StampType DEF RetireInv, ShapeInv, RetireKnows, UpdateHint
<1>2. CASE Sealed0(t) \/ Sealed1(t)
  <2>1. Continues(t)
    BY <1>1, <1>2, Locals DEF Sealed0, Sealed1, Continues, Updating, Goto, shared, Updates
  <2> QED  BY <1>1, <2>1, ContinuesRetire
<1>3. CASE UpdLink(t)
  <2>1. upd[t].finding  BY <1>1, <1>3 DEF UpdLink, HintSnap
  <2>2. Continues(t)
    BY <1>1, <1>3, <2>1, Locals DEF UpdLink, Continues, Updating, Goto, shared, Updates
  <2> QED  BY <1>1, <2>2, ContinuesRetire
<1>4. CASE UpdReserve(t)
  <2>1. upd[t].finding  BY <1>1, <1>4 DEF UpdReserve, HintSnap
  <2>2. /\ upd'[t].hint = upd[t].hint /\ upd'[t].side = upd[t].side
        /\ upd'[t].threshold = upd[t].threshold /\ upd'[t].finding = upd[t].finding
    BY <1>1, <1>4, Locals DEF UpdReserve, Updates
  <2>3. pc[t] = "updReserve" /\ pc'[t] = "updCheck" /\ retired' = retired
    BY <1>1, <1>4, Locals DEF UpdReserve, Goto
  <2>4. Continues(t)  BY <2>1, <2>2, <2>3 DEF Continues, Updating
  <2> QED  BY <1>1, <2>4, ContinuesRetire
<1> QED  BY <1>2, <1>3, <1>4

\* findActiveBuffer goes on, or loads the hint again.
LEMMA UpdCheckRetire ==
  ASSUME RetireInv, TypeOK', NEW t \in Threads, UpdCheck(t)
  PROVE  RetiredOnce' /\ RetireKnows(t)'
<1>1. /\ TypeOK /\ upd[t] \in Updates /\ HintSnap(t) /\ UpdateHint(t) /\ pc'[t] # "fault"
      /\ pc[t] = "updCheck"
  BY StampType, NeverFaults
     DEF RetireInv, ShapeInv, RetireKnows, UpdateHint, Acts, Step, UpdCheck
<1>2. upd[t].finding  BY <1>1 DEF HintSnap
<1>3. pc'[t] \in {"updLoad", "sealed0"}  BY <1>1, Locals DEF UpdCheck, Goto
<1>4. /\ upd'[t].hint = upd[t].hint /\ upd'[t].side = upd[t].side
      /\ upd'[t].threshold = upd[t].threshold /\ upd'[t].finding = upd[t].finding
  BY <1>1, Locals DEF UpdCheck, Updates
<1>5. Continues(t)
  BY <1>1, <1>2, <1>3, <1>4 DEF UpdCheck, Continues, Updating, shared
<1> QED  BY <1>1, <1>5, ContinuesRetire

\* updateHint is done when somebody has replaced the hint since the threshold: if the
\* removed buffer were the new hint, isSealed would have found it sealed.
LEMMA Sealed2Retire ==
  ASSUME RetireInv, TypeOK', NEW t \in Threads, Sealed2(t)
  PROVE  RetiredOnce' /\ RetireKnows(t)'
<1> DEFINE u == upd[t]
           stable == slots[u.cand][1].cnt = u.n0.cnt
           sealed == SealedAt(u) # -1
           overtaken == ~u.finding /\ u.hint.cnt > u.threshold
<1>1. /\ TypeOK /\ ShapeInv /\ u \in Updates /\ RetireKnows(t) /\ UpdateHint(t) /\ Acts(t)
      /\ pc[t] = "sealed2" /\ retired' = retired
  BY StampType
     DEF RetireInv, ShapeInv, UpdateHint, Acts, Step, Sealed2, shared
<1>2. CASE ~stable
  <2>1. upd' = upd /\ pc'[t] = "sealed0"  BY <1>1, <1>2, Locals DEF Sealed2, Goto
  <2>2. Continues(t)  BY <1>1, <2>1 DEF Continues, Updating
  <2> QED  BY <1>1, <2>2, ContinuesRetire
<1>3. CASE stable /\ sealed /\ u.finding
  <2>1. upd' = upd /\ pc'[t] = "updLink"  BY <1>1, <1>3, Locals DEF Sealed2, Goto
  <2>2. Continues(t)  BY <1>1, <1>3, <2>1 DEF Continues, Updating
  <2> QED  BY <1>1, <2>2, ContinuesRetire
<1>4. CASE stable /\ sealed /\ ~u.finding
  <2>1. upd' = [upd EXCEPT ![t].finding = TRUE] /\ pc'[t] = "sealed0"
    BY <1>1, <1>4, Locals DEF Sealed2, Goto
  <2>2. Continues(t)  BY <1>1, <2>1, Locals DEF Continues, Updating, Updates
  <2> QED  BY <1>1, <2>2, ContinuesRetire
<1>5. CASE stable /\ ~sealed /\ ~overtaken
  <2>1. upd' = upd /\ pc'[t] = "updCas"  BY <1>1, <1>5, Locals DEF Sealed2, Goto
  <2>2. Continues(t)  BY <1>1, <2>1 DEF Continues, Updating
  <2> QED  BY <1>1, <2>2, ContinuesRetire
<1>6. CASE stable /\ ~sealed /\ overtaken
  <2>0. PICK x, s, th : x = nbr[t] /\ s = u.side /\ th = u.threshold  OBVIOUS
  <2>1. /\ upd'[t] = SideDone(u) /\ pc'[t] = IF s = "L" THEN "updThreshold" ELSE "retire"
        /\ Stays(t)
    <3>1. upd'[t] = SideDone(u)  BY <1>1, <1>6, Locals DEF Sealed2
    <3>2. pc'[t] = IF s = "L" THEN "updThreshold" ELSE "retire"
      BY <1>1, <1>6, <2>0, Locals DEF Sealed2, NextSide, Goto
    <3> QED  BY <1>1, <3>1, <3>2, UpdateStays
  <2>2. upd'[t].side = "R"  BY <1>1, <2>1 DEF SideDone, Updates
  <2>3. Published(x) /\ ~InChain(x)
    <3>1. x \in Retiring(t)  BY <1>1, <2>0 DEF Retiring, Updating
    <3> QED  BY <3>1, OutOfChain
  <2>4. /\ s \in Sides /\ u.hint \in Hints /\ u.hint.cnt \in Nat /\ th \in Nat
        /\ globalHint[s] \in Hints /\ globalHint[s].cnt \in Nat
    BY <1>1, <2>0, StampType, HintGrows DEF TypeOK, VarTypes
  <2>5. /\ Copied(u.hint, globalHint[s]) /\ u.cand = u.hint.buf /\ u.hint.cnt > th
        /\ ~Danger(t, x, s) /\ Expiring(t)
    BY <1>1, <1>6, <2>0, <2>4 DEF RetireKnows, HintSnap, RetireFact, Updating
  <2>6. u.n0.type # "SEALED" /\ u.n1.type # "SEALED"
    <3>1. LastIndex - 1 # -1  BY OFDequeAssumption DEF LastIndex
    <3> QED  BY <1>6, <3>1 DEF SealedAt
  <2>7. u.cand # x  BY <1>1, <1>6, <2>0, <2>5, <2>6 DEF Danger
  <2>8. globalHint[s].buf # x
    <3> SUFFICES ASSUME globalHint[s].buf = x PROVE FALSE
      OBVIOUS
    <3>1. globalHint[s].cnt <= th + 1  BY <2>0, <2>5 DEF Expiring, OnceMore
    <3>2. u.hint.cnt = globalHint[s].cnt  BY <2>4, <2>5, <3>1 DEF Copied
    <3>3. u.hint = globalHint[s]  BY <2>5, <3>2 DEF Copied
    <3> QED  BY <2>5, <2>7, <3>3
  <2>9. ASSUME NEW w \in Threads, Danger(w, x, s) PROVE Stamp(w) < globalHint[s].cnt
    <3>1. Stamp(w) <= th  BY <2>0, <2>5, <2>9 DEF Expiring, OnceMore
    <3>2. Stamp(w) \in Nat  BY <1>1, StampType
    <3> QED  BY <2>4, <2>5, <3>1, <3>2 DEF Copied
  <2>10. Cleared(x, s)  BY <2>8, <2>9 DEF Cleared
  <2>11. Cleared(x, s)'  BY <1>1, <2>1, <2>3, <2>4, <2>10, ClearedKept
  <2> QED  BY <1>1, <2>0, <2>1, <2>2, <2>11, SideDoneRetire
<1> QED  BY <1>2, <1>3, <1>4, <1>5, <1>6

\* Or it has stored a hint of its own, that of a buffer it has not found sealed.
LEMMA UpdCasRetire ==
  ASSUME RetireInv, TypeOK', NEW t \in Threads, UpdCas(t)
  PROVE  RetiredOnce' /\ RetireKnows(t)'
<1> DEFINE u == upd[t]
<1>1. /\ TypeOK /\ ShapeInv /\ u \in Updates /\ RetireKnows(t) /\ UpdateHint(t) /\ Acts(t)
      /\ pc[t] = "updCas" /\ retired' = retired
  BY StampType
     DEF RetireInv, ShapeInv, UpdateHint, Acts, Step, UpdCas
<1>2. CASE globalHint[u.side] # u.hint
  <2>1. upd' = upd /\ pc'[t] = "updLoad"  BY <1>1, <1>2, Locals DEF UpdCas, Goto
  <2>2. Continues(t)  BY <1>1, <2>1 DEF Continues, Updating
  <2> QED  BY <1>1, <2>2, ContinuesRetire
<1>3. CASE globalHint[u.side] = u.hint
  <2>0. PICK x, s, th : x = nbr[t] /\ s = u.side /\ th = u.threshold  OBVIOUS
  <2>1. /\ upd'[t] = SideDone(u) /\ pc'[t] = IF s = "L" THEN "updThreshold" ELSE "retire"
        /\ Stays(t)
    <3>1. upd'[t] = SideDone(u)  BY <1>1, <1>3, Locals DEF UpdCas
    <3>2. pc'[t] = IF s = "L" THEN "updThreshold" ELSE "retire"
      BY <1>1, <1>3, <2>0, Locals DEF UpdCas, NextSide, Goto
    <3> QED  BY <1>1, <3>1, <3>2, UpdateStays
  <2>2. upd'[t].side = "R"  BY <1>1, <2>1 DEF SideDone, Updates
  <2>3. Published(x) /\ ~InChain(x)
    <3>1. x \in Retiring(t)  BY <1>1, <2>0 DEF Retiring, Updating
    <3> QED  BY <3>1, OutOfChain
  <2>4. s \in Sides /\ u.hint.cnt \in Nat /\ th \in Nat  BY <1>1, <2>0, StampType
  <2>5. th <= u.hint.cnt /\ ~Danger(t, x, s) /\ Expiring(t)
    BY <1>1, <2>0, <2>4 DEF RetireKnows, HintSnap, RetireFact, Updating
  <2>6. globalHint'[s].buf = u.cand /\ globalHint'[s].cnt = u.hint.cnt + 1
    <3>1. globalHint \in [Sides -> Hints]  BY <1>1 DEF TypeOK, VarTypes
    <3> QED  BY <1>3, <2>0, <2>4, <3>1 DEF UpdCas
  <2>7. u.cand # x  BY <1>1, <2>0, <2>5 DEF Danger
  <2>8. ASSUME NEW w \in Threads, Danger(w, x, s)' PROVE Stamp(w)' < globalHint'[s].cnt
    <3>1. Danger(w, x, s) /\ Stamp(w)' = Stamp(w)
      BY <1>1, <2>1, <2>3, <2>8, NoNewDanger
    <3>2. Stamp(w) <= th  BY <2>0, <2>5, <3>1 DEF Expiring, OnceMore
    <3>3. Stamp(w) \in Nat  BY <1>1, StampType
    <3> QED  BY <2>4, <2>5, <2>6, <3>1, <3>2, <3>3
  <2>9. Cleared(x, s)'  BY <2>6, <2>7, <2>8 DEF Cleared
  <2> QED  BY <1>1, <2>0, <2>1, <2>2, <2>9, SideDoneRetire
<1> QED  BY <1>2, <1>3

\* The tracker gets a buffer that both hints have left.
LEMMA RetireRetire ==
  ASSUME RetireInv, TypeOK', NEW t \in Threads, Retire(t)
  PROVE  RetiredOnce' /\ RetireKnows(t)'
<1>0. PICK x : x = nbr[t]  OBVIOUS
<1>1. /\ TypeOK /\ ShapeInv /\ RetiredOnce /\ RetireKnows(t) /\ UpdateHint(t) /\ Acts(t)
      /\ pc[t] = "retire" /\ x \notin retired[t]
  BY <1>0 DEF RetireInv, ShapeInv, UpdateHint, Acts, Step, Retire, RetiredOnce, Updating
<1>2. Stays(t) /\ nbr' = nbr  BY <1>1, UpdateStays
<1>3. retired'[t] = retired[t] \cup {x}  BY <1>0, <1>1, Locals DEF Retire
<1>4. pc'[t] \in {"loadHint", "confirmEmpty", "prepare", "casSafe"}
  BY <1>0, <1>1, Locals DEF Retire, BeginStage, Goto
<1>5. pc'[t] \notin Updating  BY <1>4 DEF Updating
<1>6. Retiring(t)' = Retiring(t) /\ x \in Retiring(t) /\ Retiring(t)' = retired'[t]
  BY <1>0, <1>1, <1>3, <1>5 DEF Retiring, Updating
<1>7. Published(x) /\ ~InChain(x)  BY <1>6, OutOfChain
<1>8. RetiredOnce'  BY <1>1, <1>2, <1>5, <1>6, OnceKept
<1>9. HintSnap(t)'
  <2>1. Copied(hint[t], globalHint[S(t)])'  BY <1>1, SearchHint
  <2> QED  BY <1>4, <2>1 DEF HintSnap, Updating
<1>10. RetireFact(t)'  BY <1>5 DEF RetireFact
<1>11. \A y \in Retiring(t)' : Published(y)'  BY <1>1, <1>2, <1>6, RemovedKept
<1>12. ASSUME NEW y \in retired'[t], NEW s \in Sides PROVE Cleared(y, s)'
  <2>1. CASE y \in retired[t]  BY <1>1, <1>2, <2>1, RemovedKept
  <2>2. CASE y = x
    <3>1. Cleared(x, "L") /\ Cleared(x, "R")
      BY <1>0, <1>1 DEF RetireKnows, RetireFact, Updating
    <3>2. Cleared(x, s)  BY <3>1 DEF Sides
    <3> QED  BY <1>1, <1>2, <1>7, <2>2, <3>2, ClearedKept
  <2> QED  BY <1>3, <2>1, <2>2
<1> QED  BY <1>8, <1>9, <1>10, <1>11, <1>12 DEF RetireKnows

-----------------------------------------------------------------------------
(* The inductive invariant, and what follows from it. *)

\* Nothing is removed in the beginning.
LEMMA InitRetire == Init => RetireInv
<1> SUFFICES ASSUME Init PROVE RetireInv
  OBVIOUS
<1>1. ShapeInv  BY InitShape
<1>2. /\ \A t \in Threads : pc[t] = "idle" /\ retired[t] = {} /\ Retiring(t) = {}
  BY DEF Init, Retiring, Updating
<1>3. RetiredOnce /\ NoFault  BY <1>2 DEF RetiredOnce, NoFault, Updating
<1>4. ASSUME NEW t \in Threads PROVE RetireKnows(t)
  BY <1>2 DEF RetireKnows, HintSnap, RetireFact, Updating
<1> QED  BY <1>1, <1>3, <1>4 DEF RetireInv

\* The steps of updateHint and retire keep it.
LEMMA UpdateRetire ==
  ASSUME RetireInv, TypeOK', NEW t \in Threads, UpdateHint(t)
  PROVE  RetiredOnce' /\ RetireKnows(t)'
  BY UpdThresholdRetire, UpdLoadRetire, SealReadsRetire, Sealed2Retire, UpdCheckRetire,
     UpdCasRetire, RetireRetire
     DEF UpdateHint

\* So does every step.
LEMMA ActsRetire ==
  ASSUME RetireInv, NEW t \in Threads, Acts(t)
  PROVE  RetireInv'
<1>1. ShapeInv /\ TypeOK /\ NoFault  BY DEF RetireInv, ShapeInv
<1>2. ShapeInv'  BY <1>1, StepShape, CallShape DEF Acts
<1>3. TypeOK'  BY <1>2 DEF ShapeInv
<1>4. Stays(t) /\ RetiredOnce' /\ RetireKnows(t)'
  <2>1. CASE Oracle(t) \/ \E o \in Operations : Call(t, o)
    BY <1>1, <1>3, <2>1, OracleOutside, OutsideRetire DEF Outside
  <2>2. CASE Edge(t) /\ ~RemoveNeighbor(t)
    BY <1>1, <1>3, <2>2, EdgeOutside, OutsideRetire DEF Outside
  <2>3. CASE RemoveNeighbor(t)  BY <1>1, <1>3, <2>3, UpdateStays, RemoveRetire
  <2>4. CASE UpdateHint(t)  BY <1>1, <1>3, <2>4, UpdateStays, UpdateRetire
  <2> QED  BY <2>1, <2>2, <2>3, <2>4 DEF Acts, Step
<1>5. \A u \in Threads \ {t} : RetireKnows(u)'  BY <1>3, <1>4, OthersRetire
<1>6. NoFault'
  <2>1. pc'[t] # "fault"  BY NeverFaults
  <2> QED  BY <1>1, <1>4, <2>1 DEF NoFault, Stays
<1> QED  BY <1>2, <1>4, <1>5, <1>6 DEF RetireInv

\* And a step of the deque, or of something else.
LEMMA NextRetire == RetireInv /\ [Next]_vars => RetireInv'
<1> SUFFICES ASSUME RetireInv, [Next]_vars PROVE RetireInv'
  OBVIOUS
<1>1. CASE UNCHANGED vars
  <2>1. ShapeInv'  BY <1>1, NextShape DEF RetireInv
  <2>2. /\ pc' = pc /\ op' = op /\ hint' = hint /\ buf' = buf /\ nbr' = nbr /\ upd' = upd
        /\ slots' = slots /\ globalHint' = globalHint /\ pool' = pool /\ cache' = cache
        /\ retired' = retired /\ chain' = chain
    BY <1>1 DEF vars, shared, edge
  <2>3. /\ \A w \in Threads : \A x, s : Danger(w, x, s)' <=> Danger(w, x, s)
        /\ \A w \in Threads : Stamp(w)' = Stamp(w)
    BY <2>2 DEF Danger, Stamp, To, S, Pushing
  <2>4. \A x, s : Cleared(x, s)' <=> Cleared(x, s)  BY <2>2, <2>3 DEF Cleared
  <2>5. \A w \in Threads : Retiring(w)' = Retiring(w)  BY <2>2 DEF Retiring
  <2>6. RetiredOnce' /\ NoFault'
    BY <2>2, <2>5 DEF RetireInv, RetiredOnce, NoFault
  <2>7. ASSUME NEW w \in Threads PROVE RetireKnows(w)'
    <3>1. HintSnap(w)'  BY <2>2 DEF RetireInv, RetireKnows, HintSnap, S
    <3>2. Expiring(w)' <=> Expiring(w)  BY <2>2, <2>3 DEF Expiring, OnceMore
    <3>3. RetireFact(w)'
      BY <2>2, <2>3, <2>4, <3>2 DEF RetireInv, RetireKnows, RetireFact
    <3>4. \A x : Published(x)' <=> Published(x)  BY <2>2 DEF Published, Private
    <3> QED  BY <2>2, <2>4, <2>5, <3>1, <3>3, <3>4 DEF RetireInv, RetireKnows
  <2> QED  BY <2>1, <2>6, <2>7 DEF RetireInv
<1>2. ASSUME NEW t \in Threads, Step(t) \/ \E o \in Operations : Call(t, o)
      PROVE  RetireInv'
  BY <1>2, ActsRetire DEF Acts
<1> QED  BY <1>1, <1>2 DEF Next

\* What keeps removed buffers away from the hints holds in every state.
THEOREM RetireCorrect == Spec => []RetireInv
  BY InitRetire, NextRetire, PTL DEF Spec

\* A buffer is removed and retired by one thread only, even when a pop and a helping push
\* both find it sealed; and it is out of the chain by then.
THEOREM RetiresOnce == Spec => []RetiredOnce
<1>1. RetireInv => RetiredOnce  BY DEF RetireInv
<1> QED  BY RetireCorrect, <1>1, PTL

\* "now we can retire the buffer": when updateHint is done with a side, that side's hint
\* never leads to the buffer again, in spite of the pushes and pops that still move hints.
THEOREM HintsLeaveRetired == Spec => []HintsNotRetired
<1>1. RetireInv => HintsNotRetired
  BY DEF RetireInv, RetireKnows, Cleared, HintsNotRetired, Retired
<1> QED  BY RetireCorrect, <1>1, PTL

\* No assertion of findEdge, findActiveBuffer or HazardTracker::retire fails, and no word
\* that is not a buffer is dereferenced as one.
THEOREM AssertionsHold == Spec => []NoFault
<1>1. RetireInv => NoFault  BY DEF RetireInv
<1> QED  BY RetireCorrect, <1>1, PTL

-----------------------------------------------------------------------------
(* Searches: when a reservation passes the recheck of the hint's count, the buffer has    *)
(* not been retired yet, from the inductive invariant ReserveInv.                         *)

(* Links into the removed buffers. *)

Links == {0, LastIndex}

\* The links of the chain lead to the chain.
LEMMA ChainCloses ==
  ASSUME ShapeInv, NEW k \in DOMAIN chain, NEW i \in Links, NEW x, LinksTo(chain[k], i, x)
  PROVE  InChain(x)
<1> DEFINE n == Len(chain)
<1>1. n \in Nat \ {0} /\ DOMAIN chain = 1..n /\ Linked
  BY InnerLinks DEF ShapeInv, Chained
<1>2. ASSUME i = 0 PROVE InChain(x)
  <2>1. 1 < k
    <3>1. TypeAt(chain[1], 0) = "L"  BY <1>1 DEF Linked
    <3>2. k # 1  BY <1>2, <3>1 DEF LinksTo, TypeAt
    <3> QED  BY <1>1, <3>2
  <2>2. LinksTo(chain[k], 0, chain[k - 1])  BY <1>1, <2>1, InnerLinks
  <2>3. x = chain[k - 1] /\ k - 1 \in DOMAIN chain
    BY <1>1, <1>2, <2>1, <2>2 DEF LinksTo
  <2> QED  BY <2>3 DEF InChain
<1>3. ASSUME i = LastIndex PROVE InChain(x)
  <2>1. k < n
    <3>1. TypeAt(chain[n], LastIndex) = "R"  BY <1>1 DEF Linked
    <3>2. k # n  BY <1>3, <3>1 DEF LinksTo, TypeAt
    <3> QED  BY <1>1, <3>2
  <2>2. k + 1 \in 1..n /\ 1 < k + 1 /\ (k + 1) - 1 = k  BY <1>1, <2>1
  <2>3. LinksTo(chain[(k + 1) - 1], LastIndex, chain[k + 1])  BY <2>2, InnerLinks
  <2>4. x = chain[k + 1] /\ k + 1 \in DOMAIN chain
    BY <1>1, <1>3, <2>2, <2>3 DEF LinksTo
  <2> QED  BY <2>4 DEF InChain
<1> QED  BY <1>2, <1>3 DEF Links

\* So all the buffers that have been removed are detached.
LEMMA GoneDetached ==
  ASSUME ShapeInv
  PROVE  Detached({y \in Buffers : Published(y) /\ ~InChain(y)})
<1> DEFINE G == {y \in Buffers : Published(y) /\ ~InChain(y)}
<1>1. ASSUME NEW b \in Buffers, NEW i \in {0, LastIndex}, NEW y \in G,
             Published(b), LinksTo(b, i, y)
      PROVE  b \in G
  <2>1. ~InChain(b)
    <3> SUFFICES ASSUME NEW k \in DOMAIN chain, chain[k] = b PROVE FALSE
      BY DEF InChain
    <3>1. InChain(y)  BY <1>1, ChainCloses DEF Links
    <3> QED  BY <1>1, <3>1
  <2> QED  BY <1>1, <2>1
<1> QED  BY <1>1 DEF Detached

\* The links into buffers that have been removed are old: a push stores a value, and an
\* append links a buffer that nobody could reach to one of the chain.
LEMMA NoNewLinks ==
  ASSUME ShapeInv, NEW t \in Threads, Acts(t), NEW b \in Buffers, NEW i \in Links,
         NEW y, Published(y), ~InChain(y), Published(b)', LinksTo(b, i, y)'
  PROVE  Published(b) /\ LinksTo(b, i, y)
<1>1. TypeOK /\ Chained /\ i \in Indices  BY Borders DEF ShapeInv, Links
<1>2. CASE Prepare(t)
  <2>1. PICK c \in Buffers :
          /\ ~Published(c) /\ pool' = pool \ {c} /\ nbr'[t] = c
          /\ \A x \in Buffers : x # c => slots'[x] = slots[x]
          /\ \A u \in Threads, r \in Sides :
               cache'[u][r] = IF u = t /\ r = S(t) THEN c ELSE cache[u][r]
    BY <1>2, PrepareSetting
  <2>2. S(t) \in Sides /\ Null \notin Buffers  BY <1>1, Reads, OFDequeAssumption
  <2>3. b # c  BY <2>1, <2>2 DEF Published, Private
  <2>4. cache[t][S(t)] \in {Null, c}
    <3>1. PICK d \in (IF cache[t][S(t)] = Null THEN pool ELSE {cache[t][S(t)]}) :
            nbr' = [nbr EXCEPT ![t] = d]
      BY <1>2 DEF Prepare
    <3>2. nbr'[t] = d  BY <1>1, <3>1, Locals
    <3> QED  BY <2>1, <3>1, <3>2
  <2>5. Published(b)  BY <2>1, <2>2, <2>3, <2>4 DEF Published, Private
  <2> QED  BY <2>1, <2>3, <2>5 DEF LinksTo
<1>3. CASE PushBuffer(t)
  <2> DEFINE s == S(t)
             n == nbr[t]
             c == EffectTarget(t)
  <2>1. /\ stage[t] = "append" /\ pc[t] = "casEffect" /\ Holds(c) /\ Swing(c, "VALUE", n)
        /\ Knows(t) /\ Pushing(t) /\ Uncaches(t, s)
    BY <1>3 DEF PushBuffer, EffectOf, ShapeInv, Uncaches
  <2>2. /\ ~Takes(t) /\ s \in Sides /\ Published(buf[t])
        /\ idx[t] = FarValueIndex(s) /\ FarIdx(t) = FarLinkIndex(s)
        /\ FarSlot(t).type = FarType(s) /\ NearSlot(t).type \notin {FarType(s), "SEALED"}
    BY <2>1, Between DEF Takes
  <2>3. c.buf = buf[t] /\ c.idx = FarLinkIndex(s)  BY <1>1, <2>1, <2>2, TargetFields
  <2>4. Written(buf[t], FarLinkIndex(s), "VALUE", n)
    BY <1>1, <2>1, <2>3, EffectWrites
  <2>5. n \in Buffers /\ cache[t][s] = n /\ slots[n][NearLinkIndex(s)].val = buf[t]
    BY <2>1 DEF Knows, Appending
  <2>6. /\ TypeAt(buf[t], FarLinkIndex(s)) = FarType(s)
        /\ TypeAt(buf[t], FarValueIndex(s)) \notin {FarType(s), "SEALED"}
    BY <2>2 DEF TypeAt, FarSlot, NearSlot
  <2>7. /\ ~Published(n) /\ n # buf[t] /\ \A x : Published(x)' <=> Published(x) \/ x = n
        /\ Len(chain) \in Nat \ {0} /\ chain[IF s = "L" THEN 1 ELSE Len(chain)] = buf[t]
    BY <1>1, <2>1, <2>2, <2>5, <2>6, AppendSetting
  <2>8. InChain(buf[t])
    <3>1. DOMAIN chain = 1..Len(chain)  BY InnerLinks
    <3>2. (IF s = "L" THEN 1 ELSE Len(chain)) \in DOMAIN chain  BY <2>7, <3>1
    <3> QED  BY <2>7, <3>2 DEF InChain
  <2>9. b # n
    <3> SUFFICES ASSUME b = n PROVE FALSE
      OBVIOUS
    <3>1. slots'[n][i] = slots[n][i]  BY <1>1, <2>4, <2>5, <2>7 DEF Written
    <3>2. slots[n][i].type = "VALUE" /\ slots[n][i].val = y  BY <3>1 DEF LinksTo
    <3>3. i \in {FarLinkIndex(s), NearLinkIndex(s)}
      BY <2>2 DEF Links, Sides, FarLinkIndex, NearLinkIndex
    <3>4. TypeAt(n, FarLinkIndex(s)) = FarType(s)
      <4>1. \A j \in Indices : TypeAt(n, j) =
              IF j \in {NearLinkIndex(s), NearValueIndex(s)} THEN "VALUE" ELSE FarType(s)
        <5>1. cache[t][s] # Null  BY <2>5, OFDequeAssumption
        <5> QED  BY <1>1, <2>2, <2>5, <5>1 DEF Chained, Caches
      <4> QED  BY <2>2, <4>1, Geometry, Places4
    <3>5. i = NearLinkIndex(s)  BY <2>2, <3>2, <3>3, <3>4, Mirror DEF TypeAt
    <3> QED  BY <2>5, <2>8, <3>2, <3>5
  <2>10. Published(b)  BY <2>7, <2>9
  <2>11. ~(b = buf[t] /\ i = FarLinkIndex(s))  BY <2>4, <2>7 DEF Written, LinksTo
  <2>12. slots'[b][i] = slots[b][i]  BY <1>1, <2>4, <2>11 DEF Written
  <2> QED  BY <2>10, <2>12 DEF LinksTo
<1>4. CASE ~Prepare(t) /\ ~PushBuffer(t)
  <2>1. Published(b)  BY <1>4, StepOwners, SamePublished
  <2>2. CASE slots' = slots  BY <2>1, <2>2 DEF LinksTo
  <2>3. CASE CasSafe(t)
    <3> DEFINE c == SafeTarget(t)
    <3>1. CASE Holds(c)
      <4>1. Written(c.buf, c.idx, c.exp.type, c.exp.val) /\ slots[c.buf][c.idx] = c.exp
        BY <1>1, <2>3, <3>1, EffectWrites DEF CasSafe, Holds
      <4> HIDE DEF c
      <4>2. slots'[b][i].type = slots[b][i].type /\ slots'[b][i].val = slots[b][i].val
        <5>1. CASE b = c.buf /\ i = c.idx  BY <4>1, <5>1 DEF Written
        <5>2. CASE ~(b = c.buf /\ i = c.idx)  BY <1>1, <4>1, <5>2 DEF Written
        <5> QED  BY <5>1, <5>2
      <4> QED  BY <2>1, <4>2 DEF LinksTo
    <3>2. CASE ~Holds(c)  BY <2>1, <2>3, <3>2 DEF CasSafe, LinksTo
    <3> QED  BY <3>1, <3>2
  <2>4. CASE PushValue(t)
    <3> DEFINE c == EffectTarget(t)
               s == S(t)
    <3>1. /\ pc[t] = "casEffect" /\ Holds(c) /\ stage[t] \in {"interior", "straddle"}
          /\ Swing(c, "VALUE", op[t].val) /\ ~Takes(t)
      BY <2>4 DEF PushValue, EffectOf, Takes
    <3>2. Written(c.buf, c.idx, "VALUE", op[t].val)  BY <1>1, <3>1, EffectWrites
    <3>3. s \in Sides /\ idx[t] \in Indices  BY <1>1, Reads
    <3>4. c.idx \notin {FarLinkIndex(s), NearLinkIndex(s)}
      <4>1. CASE stage[t] = "interior"
        <5>1. c.idx = FarIdx(t)
          BY <3>1, <4>1 DEF EffectTarget, FarTarget, Target
        <5>2. FarIdx(t) # FarLinkIndex(s)  BY <3>1, <4>1, Between
        <5>3. FarIdx(t) # NearLinkIndex(s)  BY <3>3, Places4 DEF FarIdx
        <5> QED  BY <5>1, <5>2, <5>3
      <4>2. CASE stage[t] = "straddle"
        <5>1. c.idx = NearValueIndex(s)
          BY <3>1, <4>2 DEF EffectTarget, ReachTarget, Target
        <5> QED  BY <3>3, <5>1, Places4
      <4> QED  BY <3>1, <4>1, <4>2
    <3>5. i \in {FarLinkIndex(s), NearLinkIndex(s)}
      BY <3>3 DEF Links, Sides, FarLinkIndex, NearLinkIndex
    <3> HIDE DEF c, s
    <3>6. slots'[b][i] = slots[b][i]
      <4>1. i # c.idx  BY <3>4, <3>5
      <4> QED  BY <1>1, <3>2, <4>1 DEF Written
    <3> QED  BY <2>1, <3>6 DEF LinksTo
  <2>5. CASE TakeValue(t) \/ SealNeighbor(t) \/ RemoveNeighbor(t)
    <3> DEFINE c == EffectTarget(t)
    <3>1. pc[t] = "casEffect" /\ Holds(c)
      BY <2>5 DEF TakeValue, SealNeighbor, RemoveNeighbor, EffectOf
    <3>2. PICK ty \in {FarType(S(t)), "SEALED"} : \E v : Swing(c, ty, v)
      BY <2>5 DEF TakeValue, SealNeighbor, RemoveNeighbor
    <3>3. PICK v : Written(c.buf, c.idx, ty, v)
      BY <1>1, <3>1, <3>2, EffectWrites
    <3>4. ty # "VALUE"  BY <1>1, <3>2, Reads, Mirror
    <3> HIDE DEF c
    <3>5. ~(b = c.buf /\ i = c.idx)  BY <3>3, <3>4 DEF Written, LinksTo
    <3>6. slots'[b][i] = slots[b][i]  BY <1>1, <3>3, <3>5 DEF Written
    <3> QED  BY <2>1, <3>6 DEF LinksTo
  <2>6. slots' = slots \/ CasSafe(t) \/ PushValue(t) \/ TakeValue(t) \/ SealNeighbor(t)
          \/ RemoveNeighbor(t)
    <3>1. CASE Oracle(t)
      BY <3>1
         DEF Oracle, LoadHint, ReserveHint, CheckHint, LoadLocal, ProbeInward, ProbeNear,
             ProbeOther, ProbeFar, ProbeLink, ReserveNbr, RecheckHint, ProbeNbr, shared
    <3>2. CASE UpdateHint(t)
      BY <3>2
         DEF UpdateHint, UpdThreshold, UpdLoad, Sealed0, Sealed1, Sealed2, UpdLink, UpdReserve,
             UpdCheck, UpdCas, Retire, shared
    <3>3. CASE Edge(t)
      BY <1>4, <3>3
         DEF Edge, LoadNear, LoadFar, LoadReach, LoadBack, ConfirmEmpty, EffectFails,
             BumpLocal, BumpGlobal, Return, shared
    <3>4. CASE \E o \in Operations : Call(t, o)  BY <3>4 DEF Call, shared
    <3> QED  BY <3>1, <3>2, <3>3, <3>4 DEF Acts, Step
  <2> QED  BY <2>2, <2>3, <2>4, <2>5, <2>6
<1> QED  BY <1>2, <1>3, <1>4

\* A set that is detached stays so.
LEMMA DetachedKept ==
  ASSUME ShapeInv, NEW t \in Threads, Acts(t), NEW G, Detached(G)
  PROVE  Detached(G)'
<1>1. \A y \in G : Published(y) /\ ~InChain(y)  BY DEF Detached
<1>2. \A y \in G : (Published(y) /\ ~InChain(y))'  BY <1>1, StaysOut
<1>3. ASSUME NEW b \in Buffers, NEW i \in {0, LastIndex}, NEW y \in G,
             Published(b)', LinksTo(b, i, y)'
      PROVE  b \in G
  <2>1. Published(b) /\ LinksTo(b, i, y)  BY <1>1, <1>3, NoNewLinks DEF Links
  <2> QED  BY <2>1 DEF Detached
<1> QED  BY <1>2, <1>3 DEF Detached

-----------------------------------------------------------------------------
(* Searches. *)

\* The places where a search holds a link.
OnLink == {"reserveNbr", "recheckHint", "probeNbr"}

\* A link the search is about to follow is one of the buffer it is in.
LEMMA TakesLink ==
  ASSUME ShapeInv, NEW t \in Threads, ProbeOther(t) \/ ProbeLink(t), pc'[t] = "reserveNbr"
  PROVE  \E i \in Links : LinksTo(buf[t], i, nbr'[t])
<1> DEFINE s == S(t)
           b == buf[t]
<1>1. /\ TypeOK /\ s \in Sides /\ idx[t] \in Indices /\ Published(b) /\ Profiles
  BY Reads DEF ShapeInv, Chained, Knows, Pointers
<1>2. FarLinkIndex(s) \in Links /\ NearLinkIndex(s) \in Links
  BY <1>1 DEF Links, Sides, FarLinkIndex, NearLinkIndex
<1>3. CASE ProbeOther(t)
  <2>1. idx[t] \in {FarLinkIndex(s), NearLinkIndex(s)} /\ TypeAt(b, idx[t]) = "VALUE"
    BY <1>3, ProbeOtherGoes
  <2>2. nbr'[t] = slots[b][idx[t]].val
    BY <1>1, <1>3, <2>1, Locals DEF ProbeOther, AtLink, Probed
  <2>3. LinksTo(b, idx[t], nbr'[t])  BY <2>1, <2>2 DEF LinksTo, TypeAt
  <2> QED  BY <1>2, <2>1, <2>3
<1>4. CASE ProbeLink(t)
  <2> DEFINE j == IF Outward(t) THEN FarLinkIndex(s) ELSE NearLinkIndex(s)
  <2>1. TypeAt(b, idx[t]) = "SEALED" /\ idx[t] \in {FarValueIndex(s), NearValueIndex(s)}
    BY <1>4 DEF ShapeInv, Knows, Pointers, Probed, TypeAt, ProbeLink, AtBorderValue
  <2>2. TypeAt(b, j) = "VALUE"
    BY <1>1, <2>1, Looks, Places4 DEF Outward
  <2>3. nbr'[t] = slots[b][j].val  BY <1>1, <1>4, Locals DEF ProbeLink
  <2>4. LinksTo(b, j, nbr'[t])  BY <2>2, <2>3 DEF LinksTo, TypeAt
  <2> QED  BY <1>2, <2>4
<1> QED  BY <1>3, <1>4

\* A search begins at the buffer of its hint, and goes on over links.
LEMMA SearchMoves ==
  ASSUME ShapeInv, NEW t \in Threads, Acts(t), pc'[t] \in Searching
  PROVE  /\ hint'[t] = hint[t] /\ S(t)' = S(t) /\ pc[t] \in Searching \cup {"checkHint"}
         /\ \/ pc[t] = "checkHint" /\ pc'[t] \notin OnLink /\ buf'[t] = hint[t].buf
            \/ /\ pc[t] \in Searching /\ buf'[t] = buf[t]
               /\ pc'[t] \in OnLink => \/ pc[t] \in OnLink /\ nbr'[t] = nbr[t]
                                       \/ \E i \in Links : LinksTo(buf[t], i, nbr'[t])
            \/ pc[t] = "probeNbr" /\ pc'[t] \notin OnLink /\ buf'[t] \in {buf[t], nbr[t]}
<1>1. TypeOK  BY DEF ShapeInv
<1>2. CASE Oracle(t) /\ ~ProbeOther(t) /\ ~ProbeLink(t) /\ ~ProbeNbr(t)
  <2>1. CASE LoadHint(t) \/ ReserveHint(t) \/ CheckHint(t)
    BY <1>1, <2>1, Locals DEF LoadHint, ReserveHint, CheckHint, Goto, Searching, OnLink, S
  <2>2. CASE LoadLocal(t) \/ ProbeInward(t) \/ ProbeNear(t)
    BY <1>1, <2>2, Locals DEF LoadLocal, ProbeInward, ProbeNear, Goto, Searching, OnLink, S, edge
  <2>3. CASE ProbeFar(t)
    BY <1>1, <2>3, Locals DEF ProbeFar, Goto, Searching, OnLink, S
  <2>4. CASE ReserveNbr(t) \/ RecheckHint(t)
    BY <1>1, <2>4, Locals DEF ReserveNbr, RecheckHint, Goto, Searching, OnLink, S, edge
  <2> QED  BY <1>2, <2>1, <2>2, <2>3, <2>4 DEF Oracle
<1>3. CASE ProbeOther(t) \/ ProbeLink(t)
  <2>1. /\ hint' = hint /\ op' = op /\ buf' = buf /\ pc[t] \in {"probe", "probeLink"}
        /\ pc'[t] \in {"reserveNbr", "probeLink"}
    BY <1>1, <1>3, ProbeOtherGoes, Locals DEF ProbeOther, ProbeLink, Goto
  <2>2. pc'[t] = "reserveNbr" => \E i \in Links : LinksTo(buf[t], i, nbr'[t])
    BY <1>3, TakesLink
  <2> QED  BY <2>1, <2>2 DEF Searching, OnLink, S
<1>4. CASE ProbeNbr(t)
  BY <1>1, <1>4, Locals DEF ProbeNbr, Goto, Searching, OnLink, S
<1>5. CASE UpdateHint(t)
  BY <1>1, <1>5, Locals
     DEF UpdateHint, UpdThreshold, UpdLoad, Sealed0, Sealed1, Sealed2, UpdLink, UpdReserve,
         UpdCheck, UpdCas, Retire, Goto, NextSide, BeginStage, Searching
<1>6. CASE Edge(t)
  BY <1>1, <1>6, Locals
     DEF Edge, LoadNear, LoadFar, LoadReach, LoadBack, ConfirmEmpty, CasSafe, EffectFails,
         PushValue, PushBuffer, TakeValue, SealNeighbor, RemoveNeighbor, BumpLocal,
         BumpGlobal, Return, Prepare, Goto, BeginStage, Searching
<1>7. CASE \E o \in Operations : Call(t, o)
  BY <1>1, <1>7, Locals DEF Call, Goto, Searching
<1> QED  BY <1>2, <1>3, <1>4, <1>5, <1>6, <1>7 DEF Acts, Step, Oracle

\* A search that keeps its hint stays out of a set that is detached, once it is out.
LEMMA AwayKept ==
  ASSUME ShapeInv, NEW t \in Threads, Acts(t), Stays(t), NEW G, Detached(G),
         NEW w \in Threads, pc'[w] \in Searching, Away(w, G), hint[w].buf \notin G
  PROVE  Away(w, G)'
<1>1. CASE w # t  BY <1>1 DEF Stays, Away
<1>2. CASE w = t
  <2>1. buf[t] \in Buffers /\ Published(buf[t])
    BY Reads DEF ShapeInv, Knows, Pointers, Published
  <2>2. ASSUME NEW i \in Links, LinksTo(buf[t], i, nbr'[t]), buf[t] \notin G
        PROVE  nbr'[t] \notin G
    BY <2>1, <2>2 DEF Detached, Links
  <2>3. pc[t] \in Searching => buf[t] \notin G  BY <1>2 DEF Away
  <2>4. pc[t] \in OnLink => nbr[t] \notin G  BY <1>2 DEF Away, OnLink
  <2>5. buf'[t] \notin G
    BY <1>2, <2>3, <2>4, SearchMoves DEF OnLink, Searching
  <2>6. pc'[t] \in OnLink => nbr'[t] \notin G
    BY <1>2, <2>2, <2>3, <2>4, SearchMoves
  <2> QED  BY <1>2, <2>5, <2>6 DEF Away, OnLink
<1> QED  BY <1>1, <1>2

\* What a search has of its hint.
LEMMA SearchHints ==
  ASSUME RetireInv, NEW t \in Threads, Acts(t), Stays(t), NEW w \in Threads,
         pc'[w] \in Searching
  PROVE  /\ hint'[w] = hint[w] /\ S(w)' = S(w)
         /\ hint[w] \in Hints /\ S(w) \in Sides /\ Copied(hint[w], globalHint[S(w)])
<1>1. ShapeInv /\ TypeOK  BY DEF RetireInv, ShapeInv
<1>2. hint'[w] = hint[w] /\ S(w)' = S(w) /\ pc[w] \in Searching \cup {"checkHint"}
  BY <1>1, SearchMoves DEF Stays, S
<1>3. pc[w] \notin {"idle", "loadHint"}  BY <1>2 DEF Searching
<1>4. Copied(hint[w], globalHint[S(w)])  BY <1>3 DEF RetireInv, RetireKnows, HintSnap
<1> QED  BY <1>1, <1>2, <1>4, StampType

-----------------------------------------------------------------------------
(* Sets that the hints leave, and have left. *)

\* What a side has left, it has left for good.
LEMMA LeftKept ==
  ASSUME RetireInv, TypeOK', NEW t \in Threads, Acts(t), Stays(t),
         NEW G, Detached(G), NEW s \in Sides, Left(G, s)
  PROVE  Left(G, s)'
<1>1. ShapeInv /\ TypeOK  BY DEF RetireInv, ShapeInv
<1>2. ASSUME NEW y \in G PROVE Cleared(y, s)'
  <2>1. Published(y) /\ ~InChain(y) /\ Cleared(y, s)  BY DEF Detached, Left
  <2> QED  BY <1>1, <2>1, ClearedKept
<1>3. ASSUME NEW w \in Threads, S(w)' = s, hint'[w].cnt = globalHint'[s].cnt
      PROVE  Away(w, G)'
  <2>1. CASE pc'[w] \notin Searching  BY <2>1 DEF Away, Searching
  <2>2. CASE pc'[w] \in Searching
    <3>1. /\ hint'[w] = hint[w] /\ S(w) = s /\ hint[w] \in Hints
          /\ Copied(hint[w], globalHint[s])
      BY <1>3, <2>2, SearchHints
    <3>2. /\ globalHint[s].cnt \in Nat /\ globalHint'[s].cnt \in Nat
          /\ globalHint[s].cnt <= globalHint'[s].cnt
      BY <1>1, HintGrows
    <3>3. hint[w].cnt = globalHint[s].cnt  BY <1>3, <3>1, <3>2 DEF Copied, Hints
    <3>4. hint[w] = globalHint[s]  BY <3>1, <3>3 DEF Copied
    <3>5. Away(w, G) /\ hint[w].buf \notin G
      BY <3>1, <3>3, <3>4 DEF Left, Cleared
    <3> QED  BY <1>1, <2>2, <3>5, AwayKept
  <2> QED  BY <2>1, <2>2
<1> QED  BY <1>2, <1>3 DEF Left

\* And what it is leaving, it still is.
LEMMA LeavingKept ==
  ASSUME RetireInv, TypeOK', NEW t \in Threads, Acts(t), Stays(t),
         NEW G, Detached(G), NEW s \in Sides, NEW th \in Nat, Leaving(G, s, th)
  PROVE  Leaving(G, s, th)'
<1>1. ShapeInv /\ TypeOK  BY DEF RetireInv, ShapeInv
<1>2. ASSUME NEW y \in G PROVE OnceMore(y, s, th)'
  <2>1. Published(y) /\ ~InChain(y) /\ OnceMore(y, s, th)  BY DEF Detached, Leaving
  <2> QED  BY <1>1, <2>1, OnceMoreKept
<1>3. ASSUME NEW w \in Threads, S(w)' = s, hint'[w].cnt > th, hint'[w].buf \notin G
      PROVE  Away(w, G)'
  <2>1. CASE pc'[w] \notin Searching  BY <2>1 DEF Away, Searching
  <2>2. CASE pc'[w] \in Searching
    <3>1. hint'[w] = hint[w] /\ S(w) = s  BY <1>3, <2>2, SearchHints
    <3>2. Away(w, G) /\ hint[w].buf \notin G  BY <1>3, <3>1 DEF Leaving
    <3> QED  BY <1>1, <2>2, <3>2, AwayKept
  <2> QED  BY <2>1, <2>2
<1> QED  BY <1>2, <1>3 DEF Leaving

\* The count of the hint is a threshold: all copies of the hint are as old.
LEMMA ThresholdLeaves ==
  ASSUME RetireInv, NEW G, NEW s \in Sides
  PROVE  globalHint[s].cnt \in Nat /\ Leaving(G, s, globalHint[s].cnt)
<1> DEFINE th == globalHint[s].cnt
<1>1. TypeOK /\ th \in Nat
  <2>1. TypeOK /\ globalHint[s] \in Hints  BY DEF RetireInv, ShapeInv, TypeOK, VarTypes
  <2> QED  BY <2>1 DEF Hints
<1>2. ASSUME NEW y \in G, NEW w \in Threads, Danger(w, y, s) PROVE Stamp(w) <= th
  <2>1. HintSnap(w)  BY DEF RetireInv, RetireKnows
  <2> QED  BY <1>2, <2>1 DEF Danger, HintSnap, Copied, Stamp, Updating
<1>3. ASSUME NEW w \in Threads, S(w) = s, hint[w].cnt > th PROVE Away(w, G)
  <2>1. HintSnap(w) /\ hint[w].cnt \in Nat  BY <1>1, StampType DEF RetireInv, RetireKnows
  <2>2. pc[w] \in {"idle", "loadHint"}  BY <1>1, <1>3, <2>1 DEF HintSnap, Copied
  <2> QED  BY <2>2 DEF Away, Searching
<1>4. th <= th + 1  BY <1>1
<1> QED  BY <1>1, <1>2, <1>3, <1>4 DEF Leaving, OnceMore

\* The retired buffers stay left behind, whoever moves.
LEMMA RetiredLeft ==
  ASSUME RetireInv, TypeOK', NEW t \in Threads, Acts(t), Stays(t), NEW u \in Threads,
         ReserveKnows(u), NEW x \in retired[u]
  PROVE  \E G \in SUBSET Buffers : x \in G /\ (Detached(G) /\ \A s \in Sides : Left(G, s))'
<1>1. PICK G \in SUBSET Buffers : x \in G /\ Detached(G) /\ \A s \in Sides : Left(G, s)
  BY DEF ReserveKnows
<1>2. ShapeInv  BY DEF RetireInv
<1>3. Detached(G)'  BY <1>1, <1>2, DetachedKept
<1>4. \A s \in Sides : Left(G, s)'  BY <1>1, LeftKept
<1> QED  BY <1>1, <1>3, <1>4

\* A thread is never dangerous for the buffers it has found removed.
LEMMA StaysHarmless ==
  ASSUME ShapeInv, TypeOK', NEW t \in Threads, Acts(t), Stays(t), NEW u \in Threads,
         NEW G, Detached(G), \A y \in G, s \in Sides : ~Danger(u, y, s)
  PROVE  \A y \in G, s \in Sides : ~Danger(u, y, s)'
  BY NoNewDanger DEF Detached

\* As long as a thread's updateHint goes on, or another thread moves.
LEMMA LeavesKept ==
  ASSUME RetireInv, TypeOK', NEW t \in Threads, Acts(t), Stays(t), NEW u \in Threads,
         NEW G, LeavesFor(u, G),
         nbr'[u] = nbr[u], upd'[u].side = upd[u].side, upd'[u].threshold = upd[u].threshold,
         pc'[u] = "retire" <=> pc[u] = "retire",
         pc'[u] = "updThreshold" <=> pc[u] = "updThreshold"
  PROVE  LeavesFor(u, G)'
<1>1. PICK s, th, x : s = upd[u].side /\ th = upd[u].threshold /\ x = nbr[u]  OBVIOUS
<1>2. ShapeInv /\ TypeOK /\ s \in Sides /\ th \in Nat /\ "L" \in Sides /\ "R" \in Sides
  BY <1>1, StampType DEF RetireInv, ShapeInv, Sides
<1>3. Detached(G) /\ Detached(G)' /\ x \in G
  BY <1>1, <1>2, DetachedKept DEF LeavesFor
<1>4. \A y \in G, r \in Sides : ~Danger(u, y, r)'
  BY <1>2, <1>3, StaysHarmless DEF LeavesFor
<1>5. s = "R" => Left(G, "L")'  BY <1>1, <1>2, <1>3, LeftKept DEF LeavesFor
<1>6. pc[u] = "retire" => Left(G, "R")'  BY <1>1, <1>2, <1>3, LeftKept DEF LeavesFor
<1>7. pc[u] \notin {"updThreshold", "retire"} => Leaving(G, s, th)'
  BY <1>1, <1>2, <1>3, LeavingKept DEF LeavesFor
<1> QED  BY <1>1, <1>3, <1>4, <1>5, <1>6, <1>7 DEF LeavesFor

\* A step of t leaves the others what they know.
LEMMA OthersReserve ==
  ASSUME ReserveInv, TypeOK', NEW t \in Threads, Acts(t), Stays(t), NEW u \in Threads, u # t
  PROVE  ReserveKnows(u)'
<1>1. RetireInv /\ ReserveKnows(u)  BY DEF ReserveInv
<1>2. pc'[u] = pc[u] /\ upd'[u] = upd[u] /\ nbr'[u] = nbr[u] /\ retired'[u] = retired[u]
  BY DEF Stays
<1>3. \A x \in retired'[u] : \E G \in SUBSET Buffers :
        x \in G /\ (Detached(G) /\ \A s \in Sides : Left(G, s))'
  BY <1>1, <1>2, RetiredLeft
<1>4. ASSUME Underway(u) PROVE \E G \in SUBSET Buffers : LeavesFor(u, G)'
  <2>1. PICK G \in SUBSET Buffers : LeavesFor(u, G)  BY <1>1, <1>4 DEF ReserveKnows
  <2>2. LeavesFor(u, G)'  BY <1>1, <1>2, <2>1, LeavesKept
  <2> QED  BY <2>2
<1>5. Underway(u)' <=> Underway(u)  BY <1>2 DEF Underway
<1> QED  BY <1>3, <1>4, <1>5 DEF ReserveKnows

-----------------------------------------------------------------------------
(* What the thread that moves knows. *)

\* A thread that does not retire keeps what it knows of the buffers it has retired.
LEMMA NotUnderway ==
  ASSUME ReserveInv, TypeOK', NEW t \in Threads, Acts(t), Stays(t), retired' = retired,
         ~Underway(t)'
  PROVE  ReserveKnows(t)'
<1>1. RetireInv /\ ReserveKnows(t)  BY DEF ReserveInv
<1>2. \A x \in retired'[t] : \E G \in SUBSET Buffers :
        x \in G /\ (Detached(G) /\ \A s \in Sides : Left(G, s))'
  BY <1>1, RetiredLeft
<1> QED  BY <1>2 DEF ReserveKnows

\* The steps of updateHint that stay with the side and the threshold.
Seeking == Updating \ {"updThreshold", "retire"}
GoesOn(t) ==
  /\ retired' = retired /\ pc[t] \in Seeking /\ pc'[t] \in Seeking
  /\ upd'[t].side = upd[t].side /\ upd'[t].threshold = upd[t].threshold

\* Those that are done with a side: isSealed finds a hint stored after the threshold not
\* sealed, or the thread stores its own.
Overtaken(t) ==
  LET u == upd[t] IN
  /\ pc[t] = "sealed2" /\ slots[u.cand][1].cnt = u.n0.cnt /\ SealedAt(u) = -1
  /\ ~u.finding /\ u.hint.cnt > u.threshold
StoresHint(t) == pc[t] = "updCas" /\ UpdCas(t) /\ globalHint[upd[t].side] = upd[t].hint
EndsSide(t) ==
  /\ retired' = retired /\ (Overtaken(t) \/ StoresHint(t)) /\ upd'[t].side = "R"
  /\ pc'[t] = IF upd[t].side = "L" THEN "updThreshold" ELSE "retire"

\* There are no others.
LEMMA UpdateSteps ==
  ASSUME RetireInv, NEW t \in Threads, UpdateHint(t)
  PROVE  UpdThreshold(t) \/ Retire(t) \/ GoesOn(t) \/ EndsSide(t)
<1> DEFINE u == upd[t]
<1>1. TypeOK /\ u \in Updates /\ pc'[t] # "fault"
  BY StampType, NeverFaults DEF RetireInv, ShapeInv, Acts, Step
<1>2. CASE UpdLoad(t) \/ Sealed0(t) \/ Sealed1(t)
  BY <1>1, <1>2, Locals
     DEF UpdLoad, Sealed0, Sealed1, Goto, shared, GoesOn, Seeking, Updating, Updates
<1>3. CASE UpdLink(t) \/ UpdReserve(t)
  <2>1. upd'[t].side = u.side /\ upd'[t].threshold = u.threshold
    BY <1>1, <1>3, Locals DEF UpdLink, UpdReserve, Updates
  <2>2. retired' = retired /\ pc[t] \in Seeking /\ pc'[t] \in Seeking
    BY <1>1, <1>3, Locals DEF UpdLink, UpdReserve, Goto, shared, Seeking, Updating
  <2> QED  BY <2>1, <2>2 DEF GoesOn
<1>4. CASE UpdCheck(t)
  <2>1. upd'[t].side = u.side /\ upd'[t].threshold = u.threshold
    BY <1>1, <1>4, Locals DEF UpdCheck, Updates
  <2>2. retired' = retired /\ pc[t] \in Seeking /\ pc'[t] \in Seeking
    BY <1>1, <1>4, Locals DEF UpdCheck, Goto, shared, Seeking, Updating
  <2> QED  BY <2>1, <2>2 DEF GoesOn
<1>5. CASE Sealed2(t)
  <2> DEFINE stable == slots[u.cand][1].cnt = u.n0.cnt
             sealed == SealedAt(u) # -1
             overtaken == ~u.finding /\ u.hint.cnt > u.threshold
  <2>0. pc[t] = "sealed2" /\ retired' = retired  BY <1>5 DEF Sealed2, shared
  <2>1. CASE stable /\ ~sealed /\ overtaken
    <3>1. upd'[t] = SideDone(u)  BY <1>1, <1>5, <2>1, Locals DEF Sealed2
    <3>2. pc'[t] = IF u.side = "L" THEN "updThreshold" ELSE "retire"
      BY <1>1, <1>5, <2>1, Locals DEF Sealed2, NextSide, Goto
    <3>3. upd'[t].side = "R"  BY <1>1, <3>1 DEF SideDone, Updates
    <3> QED  BY <2>0, <2>1, <3>2, <3>3 DEF EndsSide, Overtaken
  <2>2. CASE stable /\ sealed /\ ~u.finding
    <3>1. upd' = [upd EXCEPT ![t].finding = TRUE] /\ pc'[t] = "sealed0"
      BY <1>1, <1>5, <2>2, Locals DEF Sealed2, Goto
    <3>2. upd'[t].side = u.side /\ upd'[t].threshold = u.threshold
      BY <1>1, <3>1, Locals DEF Updates
    <3> QED  BY <2>0, <3>1, <3>2 DEF GoesOn, Seeking, Updating
  <2>3. CASE ~stable \/ (stable /\ sealed /\ u.finding) \/ (stable /\ ~sealed /\ ~overtaken)
    <3>1. upd' = upd /\ pc'[t] \in {"sealed0", "updLink", "updCas"}
      BY <1>1, <1>5, <2>3, Locals DEF Sealed2, Goto
    <3> QED  BY <2>0, <3>1 DEF GoesOn, Seeking, Updating
  <2> QED  BY <2>1, <2>2, <2>3
<1>6. CASE UpdCas(t)
  <2>0. pc[t] = "updCas" /\ retired' = retired  BY <1>6 DEF UpdCas
  <2>1. CASE globalHint[u.side] = u.hint
    <3>1. upd'[t] = SideDone(u)  BY <1>1, <1>6, <2>1, Locals DEF UpdCas
    <3>2. pc'[t] = IF u.side = "L" THEN "updThreshold" ELSE "retire"
      BY <1>1, <1>6, <2>1, Locals DEF UpdCas, NextSide, Goto
    <3>3. upd'[t].side = "R"  BY <1>1, <3>1 DEF SideDone, Updates
    <3> QED  BY <1>6, <2>0, <2>1, <3>2, <3>3 DEF EndsSide, StoresHint
  <2>2. CASE globalHint[u.side] # u.hint
    <3>1. upd' = upd /\ pc'[t] = "updLoad"  BY <1>1, <1>6, <2>2, Locals DEF UpdCas, Goto
    <3> QED  BY <2>0, <3>1 DEF GoesOn, Seeking, Updating
  <2> QED  BY <2>1, <2>2
<1> QED  BY <1>2, <1>3, <1>4, <1>5, <1>6 DEF UpdateHint

\* updateHint goes on with the same removed buffers.
LEMMA GoesOnReserve ==
  ASSUME ReserveInv, TypeOK', NEW t \in Threads, UpdateHint(t), GoesOn(t)
  PROVE  ReserveKnows(t)'
<1>1. /\ RetireInv /\ ReserveKnows(t) /\ Acts(t) /\ Stays(t) /\ nbr' = nbr
      /\ Underway(t) /\ retired' = retired
  BY UpdateStays
     DEF ReserveInv, RetireInv, ShapeInv, Acts, Step, GoesOn, Underway, Seeking
<1>2. \A x \in retired'[t] : \E G \in SUBSET Buffers :
        x \in G /\ (Detached(G) /\ \A s \in Sides : Left(G, s))'
  BY <1>1, RetiredLeft
<1>3. PICK G \in SUBSET Buffers : LeavesFor(t, G)  BY <1>1 DEF ReserveKnows
<1>4. LeavesFor(t, G)'  BY <1>1, <1>3, LeavesKept DEF GoesOn, Seeking
<1> QED  BY <1>2, <1>4 DEF ReserveKnows

\* Before the left side's threshold, all buffers that have been removed come into question;
\* before the right side's, those that the left side has left.
LEMMA UpdThresholdReserve ==
  ASSUME ReserveInv, TypeOK', NEW t \in Threads, UpdThreshold(t)
  PROVE  ReserveKnows(t)'
<1>0. PICK s, x : s = upd[t].side /\ x = nbr[t]  OBVIOUS
<1>1. /\ RetireInv /\ ShapeInv /\ TypeOK /\ ReserveKnows(t) /\ UpdateHint(t) /\ Acts(t)
      /\ pc[t] = "updThreshold" /\ pc'[t] = "updLoad" /\ retired' = retired
      /\ s \in Sides /\ upd'[t].side = s /\ upd'[t].threshold = globalHint[s].cnt
  <2>1. TypeOK /\ upd[t] \in Updates /\ s \in Sides
    BY <1>0, StampType DEF ReserveInv, RetireInv, ShapeInv
  <2> QED
    BY <1>0, <2>1, Locals
       DEF ReserveInv, RetireInv, ShapeInv, UpdThreshold, UpdateHint, Acts, Step, Goto, shared,
           Updates
<1>2. Stays(t) /\ nbr' = nbr  BY <1>1, UpdateStays
<1>3. \A y \in retired'[t] : \E G \in SUBSET Buffers :
        y \in G /\ (Detached(G) /\ \A r \in Sides : Left(G, r))'
  BY <1>1, <1>2, RetiredLeft
<1>4. PICK G \in SUBSET Buffers :
        x \in G /\ Detached(G) /\ (s = "R" => Left(G, "L"))
  <2>1. CASE s = "R"
    <3>1. Underway(t)  BY <1>0, <1>1, <2>1 DEF Underway, Updating
    <3>2. \E H \in SUBSET Buffers : LeavesFor(t, H)  BY <1>1, <3>1 DEF ReserveKnows
    <3> QED  BY <1>0, <2>1, <3>2 DEF LeavesFor
  <2>2. CASE s # "R"
    <3> DEFINE H == {y \in Buffers : Published(y) /\ ~InChain(y)}
    <3>1. x \in H
      <4>1. x \in Retiring(t)  BY <1>0, <1>1 DEF Retiring, Updating
      <4> QED  BY <1>1, <4>1, OutOfChain DEF Published
    <3>2. Detached(H)  BY <1>1, GoneDetached
    <3> QED  BY <2>2, <3>1, <3>2
  <2> QED  BY <2>1, <2>2
<1>5. Detached(G)'  BY <1>1, <1>4, DetachedKept
<1>6. \A y \in G, r \in Sides : ~Danger(t, y, r)'
  BY <1>1 DEF Danger
<1>7. s = "R" => Left(G, "L")'
  <2>1. "L" \in Sides  BY DEF Sides
  <2> QED  BY <1>1, <1>2, <1>4, <2>1, LeftKept
<1>8. PICK th \in Nat : th = globalHint[s].cnt  BY <1>1, ThresholdLeaves
<1>9. Leaving(G, s, th)'
  <2>1. Leaving(G, s, th)  BY <1>1, <1>8, ThresholdLeaves
  <2> QED  BY <1>1, <1>2, <1>4, <2>1, LeavingKept
<1>10. LeavesFor(t, G)'
  BY <1>0, <1>1, <1>2, <1>4, <1>5, <1>6, <1>7, <1>8, <1>9 DEF LeavesFor
<1> QED  BY <1>3, <1>10 DEF ReserveKnows

\* A side is done with the removed buffers.
LEMMA SideLeft ==
  ASSUME ReserveInv, TypeOK', NEW t \in Threads, UpdateHint(t), EndsSide(t),
         NEW G \in SUBSET Buffers, LeavesFor(t, G), NEW s, s = upd[t].side
  PROVE  Left(G, s)'
<1> DEFINE u == upd[t]
<1>0. PICK th : th = u.threshold  OBVIOUS
<1>1. /\ RetireInv /\ ShapeInv /\ TypeOK /\ u \in Updates /\ s \in Sides /\ Acts(t)
      /\ pc[t] \in {"sealed2", "updCas"} /\ RetireKnows(t)
  BY StampType
     DEF ReserveInv, RetireInv, ShapeInv, Acts, Step, EndsSide, Overtaken, StoresHint
<1>2. Stays(t)  BY <1>1, UpdateStays
<1>3. /\ Detached(G) /\ Leaving(G, s, th) /\ \A y \in G : ~Danger(t, y, s)
  BY <1>0, <1>1 DEF LeavesFor
<1>4. /\ u.hint \in Hints /\ u.hint.cnt \in Nat /\ th \in Nat
      /\ globalHint[s] \in Hints /\ globalHint[s].cnt \in Nat
  BY <1>0, <1>1, StampType, Reads
<1>5. /\ Copied(u.hint, globalHint[s]) /\ th <= u.hint.cnt
      /\ ~u.finding => u.cand = u.hint.buf
  BY <1>0, <1>1 DEF RetireKnows, HintSnap, Updating
<1>6. CASE Overtaken(t)
  <2>1. pc[t] = "sealed2" /\ u.cand = u.hint.buf /\ u.hint.cnt > th
    BY <1>0, <1>5, <1>6 DEF Overtaken
  <2>2. u.n0.type # "SEALED" /\ u.n1.type # "SEALED" /\ u.n0.cnt = slots[u.cand][1].cnt
    <3>1. LastIndex - 1 # -1  BY OFDequeAssumption DEF LastIndex
    <3> QED  BY <1>6, <3>1 DEF Overtaken, SealedAt
  <2>3. u.cand \notin G  BY <1>3, <2>1, <2>2 DEF Danger
  <2>4. globalHint[s].buf \notin G
    <3> SUFFICES ASSUME NEW y \in G, globalHint[s].buf = y PROVE FALSE
      OBVIOUS
    <3>1. globalHint[s].cnt <= th + 1  BY <1>3 DEF Leaving, OnceMore
    <3>2. u.hint.cnt = globalHint[s].cnt  BY <1>4, <1>5, <2>1, <3>1 DEF Copied
    <3>3. u.hint = globalHint[s]  BY <1>5, <3>2 DEF Copied
    <3> QED  BY <2>1, <2>3, <3>3
  <2>5. th < globalHint[s].cnt  BY <1>4, <1>5, <2>1 DEF Copied
  <2>6. ASSUME NEW y \in G, NEW w \in Threads, Danger(w, y, s)
        PROVE  Stamp(w) < globalHint[s].cnt
    <3>1. Stamp(w) <= th  BY <1>3, <2>6 DEF Leaving, OnceMore
    <3>2. Stamp(w) \in Nat  BY <1>1, StampType
    <3> QED  BY <1>4, <2>5, <3>1, <3>2
  <2>7. ASSUME NEW w \in Threads, S(w) = s, hint[w].cnt = globalHint[s].cnt
        PROVE  Away(w, G)
    <3>1. CASE pc[w] \in {"idle", "loadHint"}  BY <3>1 DEF Away, Searching
    <3>2. CASE pc[w] \notin {"idle", "loadHint"}
      <4>1. Copied(hint[w], globalHint[s])
        BY <2>7, <3>2 DEF ReserveInv, RetireInv, RetireKnows, HintSnap
      <4>2. hint[w].buf \notin G  BY <2>4, <2>7, <4>1 DEF Copied
      <4> QED  BY <1>3, <1>4, <2>5, <2>7, <4>2 DEF Leaving
    <3> QED  BY <3>1, <3>2
  <2>8. Left(G, s)  BY <2>4, <2>6, <2>7 DEF Left, Cleared
  <2> QED  BY <1>1, <1>2, <1>3, <2>8, LeftKept
<1>7. CASE StoresHint(t)
  <2>1. pc[t] = "updCas" /\ globalHint[s] = u.hint
        /\ globalHint'[s].buf = u.cand /\ globalHint'[s].cnt = u.hint.cnt + 1
    <3>1. globalHint \in [Sides -> Hints]  BY <1>1 DEF TypeOK, VarTypes
    <3> QED  BY <1>1, <1>7, <3>1 DEF StoresHint, UpdCas
  <2>2. u.cand \notin G  BY <1>3, <2>1 DEF Danger
  <2>3. ASSUME NEW y \in G, NEW w \in Threads, Danger(w, y, s)'
        PROVE  Stamp(w)' < globalHint'[s].cnt
    <3>1. Published(y) /\ ~InChain(y)  BY <1>3 DEF Detached
    <3>2. Danger(w, y, s) /\ Stamp(w)' = Stamp(w)
      BY <1>1, <1>2, <2>3, <3>1, NoNewDanger
    <3>3. Stamp(w) <= th  BY <1>3, <3>2 DEF Leaving, OnceMore
    <3>4. Stamp(w) \in Nat  BY <1>1, StampType
    <3> QED  BY <1>4, <1>5, <2>1, <3>2, <3>3, <3>4
  <2>4. ASSUME NEW w \in Threads, S(w)' = s, hint'[w].cnt = globalHint'[s].cnt
        PROVE  Away(w, G)'
    <3>1. CASE pc'[w] \notin Searching  BY <3>1 DEF Away, Searching
    <3>2. CASE pc'[w] \in Searching
      <4>1. hint'[w] = hint[w] /\ hint[w] \in Hints /\ Copied(hint[w], globalHint[s])
        BY <1>1, <1>2, <2>4, <3>2, SearchHints
      <4>2. hint[w].cnt <= u.hint.cnt /\ hint[w].cnt \in Nat
        BY <2>1, <4>1 DEF Copied, Hints
      <4> QED  BY <1>4, <2>1, <2>4, <4>1, <4>2
    <3> QED  BY <3>1, <3>2
  <2> QED  BY <2>1, <2>2, <2>3, <2>4 DEF Left, Cleared
<1> QED  BY <1>6, <1>7 DEF EndsSide

\* Then follows the other side, or the retirement.
LEMMA EndsSideReserve ==
  ASSUME ReserveInv, TypeOK', NEW t \in Threads, UpdateHint(t), EndsSide(t)
  PROVE  ReserveKnows(t)'
<1>0. PICK s, x : s = upd[t].side /\ x = nbr[t]  OBVIOUS
<1>1. /\ RetireInv /\ ShapeInv /\ TypeOK /\ ReserveKnows(t) /\ Acts(t) /\ retired' = retired
      /\ s \in Sides /\ upd'[t].side = "R" /\ Underway(t)
      /\ pc'[t] = IF s = "L" THEN "updThreshold" ELSE "retire"
  BY <1>0, StampType
     DEF ReserveInv, RetireInv, ShapeInv, Acts, Step, EndsSide, Overtaken, StoresHint, Underway,
         Updating
<1>2. Stays(t) /\ nbr' = nbr  BY <1>1, UpdateStays
<1>3. \A y \in retired'[t] : \E G \in SUBSET Buffers :
        y \in G /\ (Detached(G) /\ \A r \in Sides : Left(G, r))'
  BY <1>1, <1>2, RetiredLeft
<1>4. PICK G \in SUBSET Buffers : LeavesFor(t, G)  BY <1>1 DEF ReserveKnows
<1>5. x \in G /\ Detached(G)  BY <1>0, <1>4 DEF LeavesFor
<1>6. Detached(G)'  BY <1>1, <1>5, DetachedKept
<1>7. \A y \in G, r \in Sides : ~Danger(t, y, r)'
  BY <1>1, <1>2, <1>4, <1>5, StaysHarmless DEF LeavesFor
<1>8. Left(G, s)'  BY <1>0, <1>4, SideLeft
<1>9. s = "R" => Left(G, "L")'
  <2>1. s = "R" => Left(G, "L")  BY <1>0, <1>4 DEF LeavesFor
  <2>2. "L" \in Sides  BY DEF Sides
  <2> QED  BY <1>1, <1>2, <1>5, <2>1, <2>2, LeftKept
<1>10. Left(G, "L")' /\ (s = "R" => Left(G, "R")')  BY <1>1, <1>8, <1>9 DEF Sides
<1>11. LeavesFor(t, G)'
  BY <1>0, <1>1, <1>2, <1>5, <1>6, <1>7, <1>10 DEF LeavesFor, Sides
<1> QED  BY <1>3, <1>11 DEF ReserveKnows

\* The tracker gets a buffer that both sides have left.
LEMMA RetireReserve ==
  ASSUME ReserveInv, TypeOK', NEW t \in Threads, Retire(t)
  PROVE  ReserveKnows(t)'
<1>0. PICK x : x = nbr[t]  OBVIOUS
<1>1. /\ RetireInv /\ ShapeInv /\ TypeOK /\ ReserveKnows(t) /\ UpdateHint(t) /\ Acts(t)
      /\ pc[t] = "retire" /\ upd[t].side = "R"
      /\ retired'[t] = retired[t] \cup {x}
  <2>1. TypeOK /\ RetireKnows(t)  BY DEF ReserveInv, RetireInv, ShapeInv
  <2> QED
    BY <1>0, <2>1, Locals
       DEF ReserveInv, RetireInv, ShapeInv, UpdateHint, Acts, Step, Retire, RetireKnows,
           RetireFact, Updating
<1>2. Stays(t)  BY <1>1, UpdateStays
<1>3. pc'[t] \notin Updating
  BY <1>1, Locals DEF Retire, BeginStage, Goto, Updating
<1>4. ASSUME NEW y \in retired'[t]
      PROVE  \E G \in SUBSET Buffers :
               y \in G /\ (Detached(G) /\ \A r \in Sides : Left(G, r))'
  <2>1. CASE y \in retired[t]  BY <1>1, <1>2, <2>1, RetiredLeft
  <2>2. CASE y = x
    <3>1. Underway(t)  BY <1>1 DEF Underway, Updating
    <3>2. PICK G \in SUBSET Buffers : LeavesFor(t, G)  BY <1>1, <3>1 DEF ReserveKnows
    <3>3. y \in G /\ Detached(G) /\ Left(G, "L") /\ Left(G, "R")
      BY <1>0, <1>1, <2>2, <3>2 DEF LeavesFor
    <3>4. \A r \in Sides : Left(G, r)  BY <3>3 DEF Sides
    <3>5. Detached(G)'  BY <1>1, <3>3, DetachedKept
    <3>6. \A r \in Sides : Left(G, r)'  BY <1>1, <1>2, <3>3, <3>4, LeftKept
    <3> QED  BY <3>3, <3>5, <3>6
  <2> QED  BY <1>1, <2>1, <2>2
<1> QED  BY <1>3, <1>4 DEF ReserveKnows, Underway

-----------------------------------------------------------------------------
(* The inductive invariant, and what follows from it. *)

\* Nothing is removed in the beginning.
LEMMA InitReserve == Init => ReserveInv
<1> SUFFICES ASSUME Init PROVE ReserveInv
  OBVIOUS
<1>1. RetireInv  BY InitRetire
<1>2. \A t \in Threads : ReserveKnows(t)
  BY DEF Init, ReserveKnows, Underway, Updating
<1> QED  BY <1>1, <1>2 DEF ReserveInv

\* Every step keeps it.
LEMMA ActsReserve ==
  ASSUME ReserveInv, NEW t \in Threads, Acts(t)
  PROVE  ReserveInv'
<1>1. RetireInv /\ TypeOK  BY DEF ReserveInv, RetireInv, ShapeInv
<1>2. RetireInv' /\ TypeOK'
  <2>1. RetireInv'  BY <1>1, ActsRetire
  <2> QED  BY <2>1 DEF RetireInv, ShapeInv
<1>3. Stays(t) /\ ReserveKnows(t)'
  <2>1. CASE Outside(t)
    <3>1. Stays(t) /\ retired' = retired /\ ~Underway(t)'
      BY <2>1 DEF Outside, Underway
    <3> QED  BY <1>2, <3>1, NotUnderway
  <2>2. CASE RemoveNeighbor(t)
    <3>1. retired' = retired /\ pc'[t] = "updThreshold" /\ upd'[t] = NoUpdate
      BY <1>1, <2>2, Locals DEF RemoveNeighbor, Goto
    <3>2. ~Underway(t)'  BY <3>1 DEF Underway, NoUpdate
    <3>3. Stays(t)  BY <1>1, <2>2, UpdateStays
    <3> QED  BY <1>2, <3>1, <3>2, <3>3, NotUnderway
  <2>3. CASE UpdateHint(t)
    <3>1. UpdThreshold(t) \/ Retire(t) \/ GoesOn(t) \/ EndsSide(t)
      BY <1>1, <2>3, UpdateSteps
    <3>2. Stays(t)  BY <1>1, <2>3, UpdateStays
    <3> QED
      BY <1>2, <2>3, <3>1, <3>2, UpdThresholdReserve, RetireReserve, GoesOnReserve,
         EndsSideReserve
  <2> QED  BY <1>1, <2>1, <2>2, <2>3, OracleOutside, EdgeOutside DEF Acts, Step
<1>4. \A u \in Threads \ {t} : ReserveKnows(u)'  BY <1>2, <1>3, OthersReserve
<1> QED  BY <1>2, <1>3, <1>4 DEF ReserveInv

\* And so does a step of something else.
LEMMA NextReserve == ReserveInv /\ [Next]_vars => ReserveInv'
<1> SUFFICES ASSUME ReserveInv, [Next]_vars PROVE ReserveInv'
  OBVIOUS
<1>1. CASE UNCHANGED vars
  <2>1. RetireInv'  BY <1>1, NextRetire DEF ReserveInv
  <2>2. /\ pc' = pc /\ op' = op /\ hint' = hint /\ buf' = buf /\ nbr' = nbr /\ upd' = upd
        /\ slots' = slots /\ globalHint' = globalHint /\ pool' = pool /\ cache' = cache
        /\ retired' = retired /\ chain' = chain
    BY <1>1 DEF vars, shared, edge
  <2>3. /\ \A w \in Threads : \A x, s : Danger(w, x, s)' <=> Danger(w, x, s)
        /\ \A w \in Threads : Stamp(w)' = Stamp(w) /\ S(w)' = S(w)
    BY <2>2 DEF Danger, Stamp, To, S, Pushing
  <2>4. \A w \in Threads : \A G : Away(w, G)' <=> Away(w, G)  BY <2>2 DEF Away
  <2>5. \A G, s : Left(G, s)' <=> Left(G, s)  BY <2>2, <2>3, <2>4 DEF Left, Cleared
  <2>6. \A G, s, th : Leaving(G, s, th)' <=> Leaving(G, s, th)
    BY <2>2, <2>3, <2>4 DEF Leaving, OnceMore
  <2>7. \A G : Detached(G)' <=> Detached(G)
    BY <2>2 DEF Detached, Published, Private, InChain, LinksTo
  <2>8. ASSUME NEW w \in Threads PROVE ReserveKnows(w)'
    <3>1. \A G : LeavesFor(w, G)' <=> LeavesFor(w, G)
      BY <2>2, <2>3, <2>5, <2>6, <2>7 DEF LeavesFor
    <3> QED  BY <2>2, <2>5, <2>7, <3>1 DEF ReserveInv, ReserveKnows, Underway
  <2> QED  BY <2>1, <2>8 DEF ReserveInv
<1>2. ASSUME NEW t \in Threads, Step(t) \/ \E o \in Operations : Call(t, o)
      PROVE  ReserveInv'
  BY <1>2, ActsReserve DEF Acts
<1> QED  BY <1>1, <1>2 DEF Next

\* A check of the hint's count that succeeds shows that the buffer has not been retired.
LEMMA Rechecks ==
  ASSUME ReserveInv, [Next]_vars, NEW t \in Threads
  PROVE  /\ pc[t] = "checkHint" /\ pc'[t] = "loadLocal" => hint[t].buf \notin Retired
         /\ pc[t] = "recheckHint" /\ pc'[t] = "probeNbr" => nbr[t] \notin Retired
<1> SUFFICES ASSUME \/ pc[t] = "checkHint" /\ pc'[t] = "loadLocal"
                    \/ pc[t] = "recheckHint" /\ pc'[t] = "probeNbr"
             PROVE  /\ pc[t] = "checkHint" => hint[t].buf \notin Retired
                    /\ pc[t] = "recheckHint" => nbr[t] \notin Retired
  OBVIOUS
<1>1. TypeOK /\ S(t) \in Sides /\ RetireInv
  BY StampType DEF ReserveInv, RetireInv, ShapeInv
<1>2. Acts(t)
  <2>1. PICK u \in Threads : Acts(u)  BY DEF Next, Acts, vars
  <2>2. u = t
    <3>1. ~(\E v \in Threads : v # t /\ Acts(v))
      <4> SUFFICES ASSUME NEW v \in Threads, v # t, Acts(v) PROVE FALSE
        OBVIOUS
      <4>1. Stays(v)
        BY <1>1, OracleOutside, EdgeOutside, UpdateStays DEF Acts, Step, Outside
      <4> QED  BY <4>1 DEF Stays
    <3> QED  BY <2>1, <3>1
  <2> QED  BY <2>1, <2>2
<1>3. HintUnchanged(t)
  <2>1. CASE Oracle(t)
    BY <1>1, <2>1, Locals
       DEF Oracle, LoadHint, ReserveHint, CheckHint, LoadLocal, ProbeInward, ProbeNear,
           ProbeOther, ProbeFar, ProbeLink, ReserveNbr, RecheckHint, ProbeNbr, Goto
  <2>2. CASE Edge(t)
    BY <2>2
       DEF Edge, LoadNear, LoadFar, LoadReach, LoadBack, ConfirmEmpty, Prepare, CasSafe,
           EffectFails, PushValue, PushBuffer, TakeValue, SealNeighbor, RemoveNeighbor,
           BumpLocal, BumpGlobal, Return, EffectOf
  <2>3. CASE UpdateHint(t)
    BY <2>3
       DEF UpdateHint, UpdThreshold, UpdLoad, Sealed0, Sealed1, Sealed2, UpdLink, UpdReserve,
           UpdCheck, UpdCas, Retire
  <2>4. CASE \E o \in Operations : Call(t, o)  BY <2>4 DEF Call
  <2> QED  BY <1>2, <2>1, <2>2, <2>3, <2>4 DEF Acts, Step
<1>4. hint[t] = globalHint[S(t)]
  BY <1>1, <1>3 DEF HintUnchanged, RetireInv, RetireKnows, HintSnap, Copied
<1>5. ASSUME NEW u \in Threads, NEW x \in retired[u]
      PROVE  hint[t].buf # x /\ (pc[t] = "recheckHint" => nbr[t] # x)
  <2>1. PICK G \in SUBSET Buffers : x \in G /\ Detached(G) /\ \A s \in Sides : Left(G, s)
    BY DEF ReserveInv, ReserveKnows
  <2>2. Left(G, S(t))  BY <1>1, <2>1
  <2>3. globalHint[S(t)].buf # x  BY <2>1, <2>2 DEF Left, Cleared
  <2>4. Away(t, G)  BY <1>4, <2>2 DEF Left
  <2> QED  BY <1>4, <2>1, <2>3, <2>4 DEF Away
<1> QED  BY <1>5 DEF Retired

\* What keeps searches out of the buffers that are being retired holds in every state.
THEOREM ReserveCorrect == Spec => []ReserveInv
  BY InitReserve, NextReserve, PTL DEF Spec

\* When a reservation passes the recheck of the hint's count, the buffer has not been
\* retired yet: the order of events that hazard pointers need.
THEOREM ReservedFirst == Spec => ReservedBeforeRetired
<1>1. ReserveInv /\ [Next]_vars =>
        [ \A t \in Threads :
            /\ pc[t] = "checkHint" /\ pc'[t] = "loadLocal" => hint[t].buf \notin Retired
            /\ pc[t] = "recheckHint" /\ pc'[t] = "probeNbr" => nbr[t] \notin Retired ]_vars
  BY Rechecks
<1> QED  BY ReserveCorrect, <1>1, PTL DEF Spec, ReservedBeforeRetired
=============================================================================
