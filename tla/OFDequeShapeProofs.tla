------------------------ MODULE OFDequeShapeProofs ------------------------
(***************************************************************************)
(* The chain of OFDeque keeps its shape, for any number of threads,        *)
(* buffers, values and slots per buffer: ChainShape, SomeActive and        *)
(* SealIsFinal, from the inductive invariant ShapeInv.                     *)
(***************************************************************************)
EXTENDS OFDequeProofs

-----------------------------------------------------------------------------
(* The steps that write no slot: the call, the oracle, the loads. *)

\* A thread that has no snapshots yet knows no more than where its pointers lead.
LEMMA Searches ==
  ASSUME NEW t \in Threads, pc'[t] \notin HasNear \cup {"sealed1", "sealed2", "updLink"},
         Pointers(t)'
  PROVE  Knows(t)'
  BY DEF Knows, Snapshots, EdgeChecked, StageChosen, Appending, NotEmpty, SealReads,
         HasNear, HasFar, HasReach, Choosing

\* The locals of the program, as functions of the threads.
LEMMA Locals ==
  ASSUME TypeOK
  PROVE  /\ pc \in [Threads -> Locations] /\ op \in [Threads -> Operations]
         /\ hint \in [Threads -> Hints] /\ buf \in [Threads -> Buffers]
         /\ idx \in [Threads -> Indices] /\ nbr \in [Threads -> Words0]
         /\ near \in [Threads -> Slots] /\ far \in [Threads -> Slots]
         /\ reach \in [Threads -> Slots] /\ stage \in [Threads -> Stages]
         /\ upd \in [Threads -> Updates] /\ retired \in [Threads -> SUBSET Buffers]
  BY DEF TypeOK, VarTypes

\* What is left to show of a step that changes locals and reservations only.
LEMMA AfterLook ==
  ASSUME ShapeInv, TypeOK', NEW t \in Threads, OthersStay(t), pc'[t] # "casEffect",
         slots' = slots, SameOwners, chain' = chain, globalHint' = globalHint, Knows(t)'
  PROVE  ShapeInv'
<1>1. HintsLead'  BY SamePublished DEF HintsLead, ShapeInv
<1> QED  BY <1>1, AfterQuiet

\* Both links of a published buffer lead to published buffers.
LEMMA Leads ==
  ASSUME TypeOK, Chained, NEW b, Published(b), NEW s \in Sides,
         NEW i \in {FarLinkIndex(s), NearLinkIndex(s)}, TypeAt(b, i) = "VALUE"
  PROVE  Published(slots[b][i].val)
<1>1. LinksTo(b, i, slots[b][i].val)  BY DEF LinksTo, TypeAt
<1>2. i = FarLinkIndex(s) \/ (Opposite(s) \in Sides /\ i = FarLinkIndex(Opposite(s)))
  BY Mirror
<1> QED  BY <1>1, <1>2, LinkLeads

\* A call looks at nothing.
LEMMA CallShape ==
  ASSUME ShapeInv, NEW t \in Threads, NEW o \in Operations, Call(t, o)
  PROVE  ShapeInv'
<1>1. TypeOK /\ TypeOK'  BY CallTypes DEF ShapeInv
<1>2. OthersStay(t)  BY DEF Call, OthersStay, Goto, shared, edge, snaps
<1>3. SameOwners /\ slots' = slots /\ chain' = chain /\ globalHint' = globalHint
  BY DEF Call, SameOwners, shared
<1>4. pc'[t] = "loadHint"  BY <1>1, Locals DEF Call, Goto
<1>5. Pointers(t)'
  BY <1>3, <1>4, SamePublished DEF Call, edge, ShapeInv, Knows, Pointers
<1>6. Knows(t)'  BY <1>4, <1>5, Searches DEF HasNear, HasFar, Choosing, Updating
<1> QED  BY <1>1, <1>2, <1>3, <1>4, <1>6, AfterLook

\* The global hint leads to a published buffer, so its copy does.
LEMMA LoadHintShape ==
  ASSUME ShapeInv, NEW t \in Threads, LoadHint(t)
  PROVE  ShapeInv'
<1>1. TypeOK /\ TypeOK'  BY LoadHintTypes DEF ShapeInv
<1>2. OthersStay(t)  BY DEF LoadHint, OthersStay, Goto, Forget, shared
<1>3. SameOwners /\ slots' = slots /\ chain' = chain /\ globalHint' = globalHint
  BY DEF LoadHint, SameOwners, shared
<1>4. pc'[t] = "reserveHint"  BY <1>1, Locals DEF LoadHint, Goto
<1>5. Pointers(t)'
  <2>1. S(t) \in Sides  BY <1>1, Reads
  <2>2. hint'[t] = globalHint[S(t)] /\ buf'[t] = FirstBuffer /\ upd'[t] = NoUpdate
    BY <1>1, Locals DEF LoadHint, Forget
  <2>3. Published(FirstBuffer) /\ Published(globalHint[S(t)].buf)
    BY <2>1 DEF ShapeInv, Chained, Caches, HintsLead
  <2> QED
    BY <1>3, <1>4, <2>2, <2>3, SamePublished DEF Pointers, NoUpdate, NoHint
<1>6. Knows(t)'  BY <1>4, <1>5, Searches DEF HasNear, HasFar, Choosing, Updating
<1> QED  BY <1>1, <1>2, <1>3, <1>4, <1>6, AfterLook

\* A reservation does not touch the chain.
LEMMA ReserveHintShape ==
  ASSUME ShapeInv, NEW t \in Threads, ReserveHint(t)
  PROVE  ShapeInv'
<1>1. TypeOK /\ TypeOK'  BY ReserveHintTypes DEF ShapeInv
<1>2. OthersStay(t)  BY DEF ReserveHint, OthersStay, Goto, edge, snaps
<1>3. SameOwners /\ slots' = slots /\ chain' = chain /\ globalHint' = globalHint
  BY DEF ReserveHint, SameOwners
<1>4. pc'[t] = "checkHint"  BY <1>1, Locals DEF ReserveHint, Goto
<1>5. Pointers(t)'
  BY <1>3, <1>4, SamePublished DEF ReserveHint, edge, ShapeInv, Knows, Pointers
<1>6. Knows(t)'  BY <1>4, <1>5, Searches DEF HasNear, HasFar, Choosing, Updating
<1> QED  BY <1>1, <1>2, <1>3, <1>4, <1>6, AfterLook

\* The search starts at the hint's buffer.
LEMMA CheckHintShape ==
  ASSUME ShapeInv, NEW t \in Threads, CheckHint(t)
  PROVE  ShapeInv'
<1>1. TypeOK /\ TypeOK'  BY CheckHintTypes DEF ShapeInv
<1>2. OthersStay(t)  BY DEF CheckHint, OthersStay, Goto, shared, snaps
<1>3. SameOwners /\ slots' = slots /\ chain' = chain /\ globalHint' = globalHint
  BY DEF CheckHint, SameOwners, shared
<1>4. pc'[t] \in {"loadLocal", "loadHint"}  BY <1>1, Locals DEF CheckHint, Goto
<1>5. Pointers(t)'
  <2>1. buf'[t] = hint[t].buf /\ hint'[t] = hint[t] /\ upd'[t] = upd[t]
    BY <1>1, Locals DEF CheckHint
  <2> QED
    BY <1>3, <1>4, <2>1, SamePublished DEF CheckHint, ShapeInv, Knows, Pointers
<1>6. Knows(t)'  BY <1>4, <1>5, Searches DEF HasNear, HasFar, Choosing, Updating
<1> QED  BY <1>1, <1>2, <1>3, <1>4, <1>6, AfterLook

\* The local hint is an index, and no more is asked of it.
LEMMA LoadLocalShape ==
  ASSUME ShapeInv, NEW t \in Threads, LoadLocal(t)
  PROVE  ShapeInv'
<1>1. TypeOK /\ TypeOK'  BY LoadLocalTypes DEF ShapeInv
<1>2. OthersStay(t)  BY DEF LoadLocal, OthersStay, Goto, shared, snaps
<1>3. SameOwners /\ slots' = slots /\ chain' = chain /\ globalHint' = globalHint
  BY DEF LoadLocal, SameOwners, shared
<1>4. pc'[t] = "probe"  BY <1>1, Locals DEF LoadLocal, Goto
<1>5. Pointers(t)'
  BY <1>3, <1>4, SamePublished DEF LoadLocal, ShapeInv, Knows, Pointers
<1>6. Knows(t)'  BY <1>4, <1>5, Searches DEF HasNear, HasFar, Choosing, Updating
<1> QED  BY <1>1, <1>2, <1>3, <1>4, <1>6, AfterLook

\* The search walks inwards.
LEMMA ProbeInwardShape ==
  ASSUME ShapeInv, NEW t \in Threads, ProbeInward(t)
  PROVE  ShapeInv'
<1>1. TypeOK /\ TypeOK'  BY ProbeInwardTypes DEF ShapeInv
<1>2. OthersStay(t)  BY DEF ProbeInward, OthersStay, Goto, shared, snaps
<1>3. SameOwners /\ slots' = slots /\ chain' = chain /\ globalHint' = globalHint
  BY DEF ProbeInward, SameOwners, shared
<1>4. pc'[t] = "probe"  BY <1>1, Locals DEF ProbeInward, Goto
<1>5. Pointers(t)'
  BY <1>3, <1>4, SamePublished DEF ProbeInward, ShapeInv, Knows, Pointers
<1>6. Knows(t)'  BY <1>4, <1>5, Searches DEF HasNear, HasFar, Choosing, Updating
<1> QED  BY <1>1, <1>2, <1>3, <1>4, <1>6, AfterLook

\* The search may have met the edge.
LEMMA ProbeNearShape ==
  ASSUME ShapeInv, NEW t \in Threads, ProbeNear(t)
  PROVE  ShapeInv'
<1>1. TypeOK /\ TypeOK'  BY ProbeNearTypes DEF ShapeInv
<1>2. OthersStay(t)  BY DEF ProbeNear, OthersStay, Goto, shared, edge, snaps
<1>3. SameOwners /\ slots' = slots /\ chain' = chain /\ globalHint' = globalHint
  BY DEF ProbeNear, SameOwners, shared
<1>4. pc'[t] = "probeFar"  BY <1>1, Locals DEF ProbeNear, Goto
<1>5. Pointers(t)'
  BY <1>3, <1>4, SamePublished DEF ProbeNear, edge, ShapeInv, Knows, Pointers
<1>6. Knows(t)'  BY <1>4, <1>5, Searches DEF HasNear, HasFar, Choosing, Updating
<1> QED  BY <1>1, <1>2, <1>3, <1>4, <1>6, AfterLook

\* The far slot decides whether it has.
LEMMA ProbeFarShape ==
  ASSUME ShapeInv, NEW t \in Threads, ProbeFar(t)
  PROVE  ShapeInv'
<1>1. TypeOK /\ TypeOK'  BY ProbeFarTypes DEF ShapeInv
<1>2. OthersStay(t)
  <2>1. \A u \in Threads \ {t} : pc'[u] = pc[u] /\ idx'[u] = idx[u]
    BY <1>1, Locals DEF ProbeFar, Goto
  <2> QED  BY <2>1 DEF ProbeFar, OthersStay, shared, snaps
<1>3. SameOwners /\ slots' = slots /\ chain' = chain /\ globalHint' = globalHint
  BY DEF ProbeFar, SameOwners, shared
<1>4. pc'[t] \in {"loadNear", "probe"}  BY <1>1, Locals DEF ProbeFar, Goto
<1>5. Pointers(t)'
  BY <1>3, <1>4, SamePublished DEF ProbeFar, ShapeInv, Knows, Pointers
<1>6. Knows(t)'  BY <1>4, <1>5, Searches DEF HasNear, HasFar, Choosing, Updating
<1> QED  BY <1>1, <1>2, <1>3, <1>4, <1>6, AfterLook

\* A slot that sends the search neither inwards nor outwards is a link or a seal at a
\* border of its buffer: the switch of findEdge has no other case.
LEMMA ProbeOtherGoes ==
  ASSUME ShapeInv, NEW t \in Threads, ProbeOther(t)
  PROVE  /\ pc'[t] \in {"reserveNbr", "probeLink"}
         /\ pc'[t] = "reserveNbr" =>
              /\ idx[t] \in {FarLinkIndex(S(t)), NearLinkIndex(S(t))}
              /\ TypeAt(buf[t], idx[t]) = "VALUE"
         /\ pc'[t] = "probeLink" => TypeAt(buf[t], idx[t]) = "SEALED" /\ AtBorderValue(t)
<1> DEFINE s == S(t)
           b == buf[t]
           i == idx[t]
<1>1. TypeOK  BY DEF ShapeInv
<1>a. /\ s \in Sides /\ i \in Indices /\ Published(b) /\ Probed(t).type = TypeAt(b, i)
      /\ Probed(t).val = slots[b][i].val /\ Profiles /\ Chained
  BY <1>1, Reads DEF ShapeInv, Knows, Pointers, Probed, TypeAt, Chained
<1>b. TypeAt(b, i) \in Types  BY <1>1, <1>a, Reads, SlotFields DEF TypeAt
<1>c. i = FarLinkIndex(s) => TypeAt(b, i) = "VALUE" /\ OverLink(t)
  BY <1>a, Looks, Places4 DEF ProbeOther, Inward, OverLink, AtLink
<1>d. i = NearLinkIndex(s) => TypeAt(b, i) = "VALUE" /\ OverLink(t)
  BY <1>a, Looks, Places4 DEF ProbeOther, NearSide, OverLink, AtLink
<1>e. i \notin {FarLinkIndex(s), NearLinkIndex(s)} =>
        /\ TypeAt(b, i) = "SEALED" /\ ~AtLink(t) /\ AtBorderValue(t) /\ ~OverLink(t)
  BY <1>a, <1>b, Looks, Mirror
     DEF ProbeOther, Inward, NearSide, OverLink, AtLink, AtBorderValue
<1>2. CASE OverLink(t)
  <2>1. pc'[t] = "reserveNbr"  BY <1>1, <1>2, Locals DEF ProbeOther, Goto, OverLink
  <2> QED  BY <1>c, <1>d, <1>2, <2>1 DEF OverLink, AtLink
<1>3. CASE ~OverLink(t)
  <2>1. /\ TypeAt(b, i) = "SEALED" /\ ~AtLink(t) /\ AtBorderValue(t)
        /\ Probed(t).type = "SEALED"
    BY <1>a, <1>c, <1>d, <1>e, <1>3
  <2>2. pc'[t] = "probeLink"
    BY <1>1, <1>3, <2>1, Locals DEF ProbeOther, Goto
  <2> QED  BY <2>1, <2>2
<1> QED  BY <1>2, <1>3

\* A link slot that is a link leads to a published buffer.
LEMMA ProbeOtherShape ==
  ASSUME ShapeInv, NEW t \in Threads, ProbeOther(t)
  PROVE  ShapeInv'
<1>1. TypeOK /\ TypeOK'  BY ProbeOtherTypes DEF ShapeInv
<1>2. OthersStay(t)  BY DEF ProbeOther, OthersStay, Goto, shared, snaps
<1>3. SameOwners /\ slots' = slots /\ chain' = chain /\ globalHint' = globalHint
  BY DEF ProbeOther, SameOwners, shared
<1> DEFINE s == S(t)
           b == buf[t]
           i == idx[t]
<1>a. /\ s \in Sides /\ i \in Indices /\ Published(b) /\ Probed(t).type = TypeAt(b, i)
      /\ Probed(t).val = slots[b][i].val /\ Chained
  BY <1>1, Reads DEF ShapeInv, Knows, Pointers, Probed, TypeAt, Chained
<1>4. /\ pc'[t] \in {"reserveNbr", "probeLink"}
      /\ pc'[t] = "reserveNbr" =>
           i \in {FarLinkIndex(s), NearLinkIndex(s)} /\ TypeAt(b, i) = "VALUE"
      /\ pc'[t] = "probeLink" => TypeAt(b, i) = "SEALED" /\ AtBorderValue(t)
  BY ProbeOtherGoes
<1>5. Pointers(t)'
  <2>1. /\ buf'[t] = b /\ idx'[t] = i /\ hint'[t] = hint[t] /\ upd'[t] = upd[t] /\ op'[t] = op[t]
        /\ AtLink(t) => nbr'[t] = slots[b][i].val
    BY <1>1, <1>a, Locals DEF ProbeOther
  <2>2. ASSUME pc'[t] = "reserveNbr" PROVE Published(nbr'[t])
    <3>1. Published(slots[b][i].val)  BY <1>1, <1>4, <1>a, <2>2, Leads
    <3>2. AtLink(t)  BY <1>4, <2>2 DEF AtLink
    <3> QED  BY <2>1, <3>1, <3>2
  <2>3. pc'[t] = "probeLink" => (Probed(t).type = "SEALED" /\ AtBorderValue(t))'
    BY <1>3, <1>4, <1>a, <2>1 DEF Probed, AtBorderValue, S
  <2> HIDE DEF s, b, i
  <2> QED
    BY <1>3, <1>4, <2>1, <2>2, <2>3, SamePublished DEF ShapeInv, Knows, Pointers, b
<1>6. Knows(t)'  BY <1>4, <1>5, Searches DEF HasNear, HasFar, Choosing, Updating
<1> QED  BY <1>1, <1>2, <1>3, <1>4, <1>6, AfterLook

\* Beside a seal there is a link.
LEMMA ProbeLinkShape ==
  ASSUME ShapeInv, NEW t \in Threads, ProbeLink(t)
  PROVE  ShapeInv'
<1>1. TypeOK /\ TypeOK'  BY ProbeLinkTypes DEF ShapeInv
<1>2. OthersStay(t)  BY DEF ProbeLink, OthersStay, Goto, shared, snaps
<1>3. SameOwners /\ slots' = slots /\ chain' = chain /\ globalHint' = globalHint
  BY DEF ProbeLink, SameOwners, shared
<1>4. pc'[t] = "reserveNbr"  BY <1>1, Locals DEF ProbeLink, Goto
<1>5. Pointers(t)'
  <2> DEFINE s == S(t)
             b == buf[t]
             j == IF Outward(t) THEN FarLinkIndex(s) ELSE NearLinkIndex(s)
  <2>1. /\ s \in Sides /\ idx[t] \in Indices /\ Published(b) /\ Profiles /\ Chained
        /\ TypeAt(b, idx[t]) = "SEALED" /\ idx[t] \in {FarValueIndex(s), NearValueIndex(s)}
    BY <1>1, Reads
       DEF ShapeInv, Knows, Pointers, Probed, TypeAt, Chained, ProbeLink, AtBorderValue
  <2>2. TypeAt(b, j) = "VALUE"
    BY <2>1, Looks, Places4 DEF Outward
  <2>3. nbr'[t] = slots[b][j].val
    BY <1>1, Locals DEF ProbeLink
  <2>4. Published(nbr'[t])
    BY <1>1, <2>1, <2>2, <2>3, Leads
  <2> QED
    BY <1>3, <1>4, <2>4, SamePublished DEF ProbeLink, ShapeInv, Knows, Pointers
<1>6. Knows(t)'  BY <1>4, <1>5, Searches DEF HasNear, HasFar, Choosing, Updating
<1> QED  BY <1>1, <1>2, <1>3, <1>4, <1>6, AfterLook

\* The neighbor is reserved.
LEMMA ReserveNbrShape ==
  ASSUME ShapeInv, NEW t \in Threads, ReserveNbr(t)
  PROVE  ShapeInv'
<1>1. TypeOK /\ TypeOK'  BY ReserveNbrTypes DEF ShapeInv
<1>2. OthersStay(t)  BY DEF ReserveNbr, OthersStay, Goto, shared, snaps
<1>3. SameOwners /\ slots' = slots /\ chain' = chain /\ globalHint' = globalHint
  BY DEF ReserveNbr, SameOwners
<1>4. pc'[t] = "recheckHint"  BY <1>1, Locals DEF ReserveNbr, Goto
<1>5. Pointers(t)'
  BY <1>3, <1>4, SamePublished DEF ReserveNbr, ShapeInv, Knows, Pointers
<1>6. Knows(t)'  BY <1>4, <1>5, Searches DEF HasNear, HasFar, Choosing, Updating
<1> QED  BY <1>1, <1>2, <1>3, <1>4, <1>6, AfterLook

\* The neighbor is a buffer.
LEMMA RecheckHintShape ==
  ASSUME ShapeInv, NEW t \in Threads, RecheckHint(t)
  PROVE  ShapeInv'
<1>1. TypeOK /\ TypeOK'  BY RecheckHintTypes DEF ShapeInv
<1>2. OthersStay(t)  BY DEF RecheckHint, OthersStay, Goto, shared, edge, snaps
<1>3. SameOwners /\ slots' = slots /\ chain' = chain /\ globalHint' = globalHint
  BY DEF RecheckHint, SameOwners, shared
<1>4. pc'[t] \in {"loadHint", "probeNbr"}
  BY <1>1, Locals DEF RecheckHint, Goto, ShapeInv, Knows, Pointers, Published
<1>5. Pointers(t)'
  BY <1>3, <1>4, SamePublished DEF RecheckHint, edge, ShapeInv, Knows, Pointers
<1>6. Knows(t)'  BY <1>4, <1>5, Searches DEF HasNear, HasFar, Choosing, Updating
<1> QED  BY <1>1, <1>2, <1>3, <1>4, <1>6, AfterLook

\* The search stops at the neighbor, or goes on there.
LEMMA ProbeNbrShape ==
  ASSUME ShapeInv, NEW t \in Threads, ProbeNbr(t)
  PROVE  ShapeInv'
<1>1. TypeOK /\ TypeOK'  BY ProbeNbrTypes DEF ShapeInv
<1>2. OthersStay(t)  BY DEF ProbeNbr, OthersStay, Goto, shared, snaps
<1>3. SameOwners /\ slots' = slots /\ chain' = chain /\ globalHint' = globalHint
  BY DEF ProbeNbr, SameOwners, shared
<1>4. pc'[t] \in {"loadNear", "loadLocal"}  BY <1>1, Locals DEF ProbeNbr, Goto
<1>5. Pointers(t)'
  <2>1. buf'[t] \in {buf[t], nbr[t]} /\ hint'[t] = hint[t] /\ upd'[t] = upd[t] /\ op'[t] = op[t]
    BY <1>1, Locals DEF ProbeNbr
  <2> QED
    BY <1>3, <1>4, <2>1, SamePublished DEF ProbeNbr, ShapeInv, Knows, Pointers
<1>6. Knows(t)'  BY <1>4, <1>5, Searches DEF HasNear, HasFar, Choosing, Updating
<1> QED  BY <1>1, <1>2, <1>3, <1>4, <1>6, AfterLook

-----------------------------------------------------------------------------
(* The loads of the edge, and the choice of the stage. *)

\* A thread at the edge that is not updating hints follows its buffer only.
LEMMA EdgePointers ==
  ASSUME NEW t \in Threads, pc'[t] \in {"loadFar", "loadReach", "loadBack"} \cup Choosing,
         slots' = slots, SameOwners, ShapeInv,
         hint'[t] = hint[t], buf'[t] = buf[t], upd'[t] = upd[t]
  PROVE  Pointers(t)' /\ SealReads(t)'
<1>1. Pointers(t)'
  BY SamePublished DEF Pointers, ShapeInv, Knows, Choosing
<1>2. SealReads(t)'
  BY DEF SealReads, Choosing
<1> QED  BY <1>1, <1>2

\* BeginStage sends a pop that has read an empty edge to the confirmation, an append to
\* the new buffer, and all others to their first CAS.
LEMMA Begins ==
  ASSUME TypeOK, NEW t \in Threads, NEW g, NEW n, BeginStage(t, g, n)
  PROVE  /\ stage'[t] = g
         /\ pc'[t] \in {"confirmEmpty", "prepare", "casSafe"}
         /\ pc'[t] = "confirmEmpty" => ~Pushing(t)
         /\ pc'[t] = "prepare" => g = "append"
         /\ pc'[t] = "casSafe" =>
              g # "append" /\ (Pushing(t) \/ n.type \notin EmptyTypes(S(t), g))
  BY Locals DEF BeginStage, Goto

\* The near slot is loaded first.
LEMMA LoadNearShape ==
  ASSUME ShapeInv, NEW t \in Threads, LoadNear(t)
  PROVE  ShapeInv'
<1>1. TypeOK /\ TypeOK'  BY LoadNearTypes DEF ShapeInv
<1>2. OthersStay(t)  BY DEF LoadNear, OthersStay, Goto, edge, shared
<1>3. SameOwners /\ slots' = slots /\ chain' = chain /\ globalHint' = globalHint
  BY DEF LoadNear, SameOwners, shared
<1>4. pc'[t] = "loadFar" /\ near'[t] = NearSlot(t)
  BY <1>1, Locals DEF LoadNear, Goto, NearSlot
<1>5. hint'[t] = hint[t] /\ buf'[t] = buf[t] /\ upd'[t] = upd[t] /\ idx'[t] = idx[t]
  BY DEF LoadNear, edge
<1>6. Snapshots(t)'
  <2>1. NearSlot(t)' = NearSlot(t)  BY <1>3, <1>5 DEF NearSlot
  <2>2. NearSlot(t).cnt \in Nat  BY <1>1, Reads, SlotFields DEF NearSlot
  <2> QED
    BY <1>4, <2>1, <2>2 DEF Snapshots, HasFar, HasReach, Choosing, Updating
<1>7. EdgeChecked(t)' /\ StageChosen(t)' /\ Appending(t)' /\ NotEmpty(t)'
  BY <1>4 DEF EdgeChecked, StageChosen, Appending, NotEmpty, HasFar, Choosing, Updating
<1>8. Knows(t)'  BY <1>3, <1>4, <1>5, <1>6, <1>7, EdgePointers DEF Knows
<1> QED  BY <1>1, <1>2, <1>3, <1>4, <1>8, AfterLook

\* At a border, a far slot that is not empty is a link.
LEMMA BorderLink ==
  ASSUME ShapeInv, NEW t \in Threads, LoadFar(t), AtBorder(t),
         slots[buf[t]][FarIdx(t)].type # FarType(S(t))
  PROVE  /\ FarIdx(t) = FarLinkIndex(S(t))
         /\ slots[buf[t]][FarIdx(t)].type = "VALUE"
         /\ Published(slots[buf[t]][FarIdx(t)].val)
         /\ WereLinked(S(t), buf[t], slots[buf[t]][FarIdx(t)].val)
<1> DEFINE s == S(t)
           b == buf[t]
           f == slots[b][FarIdx(t)]
<1>1. /\ TypeOK /\ Profiles /\ Chained /\ s \in Sides /\ Published(b) /\ idx[t] \in Indices
  BY Reads DEF ShapeInv, Chained, Knows, Pointers
<1>2. FarIdx(t) = FarLinkIndex(s)
  BY <1>1, Places4 DEF AtBorder, FarIdx
<1>3. f.type = "VALUE"
  BY <1>1, <1>2, Looks DEF TypeAt
<1>4. LinksTo(b, FarLinkIndex(s), f.val)
  BY <1>2, <1>3 DEF LinksTo
<1>5. Published(f.val) /\ WereLinked(s, b, f.val)
  BY <1>1, <1>4, LinkLeads
<1> QED  BY <1>2, <1>3, <1>5

\* The far slot decides what the edge is: inside a buffer, at the end of the chain, or
\* between two buffers that have been neighbors.
LEMMA LoadFarShape ==
  ASSUME ShapeInv, NEW t \in Threads, LoadFar(t)
  PROVE  ShapeInv'
<1> DEFINE s == S(t)
           b == buf[t]
           f == slots[b][FarIdx(t)]
<1>1. TypeOK /\ TypeOK' /\ Profiles /\ Chained  BY LoadFarTypes DEF ShapeInv, Chained
<1>2. OthersStay(t)
  <2>1. \A u \in Threads \ {t} : pc'[u] = pc[u] /\ nbr'[u] = nbr[u] /\ stage'[u] = stage[u]
    BY <1>1, Locals DEF LoadFar, BeginStage, Goto
  <2> QED  BY <2>1 DEF LoadFar, OthersStay, shared
<1>3. SameOwners /\ slots' = slots /\ chain' = chain /\ globalHint' = globalHint
  BY DEF LoadFar, SameOwners, shared
<1>4. /\ hint'[t] = hint[t] /\ buf'[t] = b /\ upd'[t] = upd[t] /\ idx'[t] = idx[t]
      /\ near'[t] = near[t] /\ op'[t] = op[t] /\ far'[t] = f
      /\ S(t)' = s /\ FarIdx(t)' = FarIdx(t) /\ Pushing(t)' = Pushing(t)
  BY <1>1, Locals DEF LoadFar, S, FarIdx, Pushing
<1>5. /\ s \in Sides /\ Published(b) /\ b \in Buffers /\ idx[t] \in Indices
      /\ idx[t] # FarLinkIndex(s) /\ FarIdx(t) \in Indices /\ f \in Slots /\ f.cnt \in Nat
      /\ near[t].cnt <= NearSlot(t).cnt
      /\ near[t].type = "SEALED" => NearSlot(t).type = "SEALED"
  <2>1. idx[t] # FarLinkIndex(s) /\ s \in Sides /\ idx[t] \in Indices
    BY <1>1, Reads DEF TypeOK, PlaceOK, AtEdge, LoadFar
  <2>2. FarIdx(t) \in Indices  BY <2>1, Geometry DEF FarIdx
  <2>3. Published(b) /\ Snapshots(t)  BY DEF ShapeInv, Knows, Pointers
  <2>4. pc[t] \in HasNear  BY DEF LoadFar, HasNear
  <2> QED  BY <1>1, <2>1, <2>2, <2>3, <2>4, Reads, SlotFields DEF Snapshots
<1>6. NearSlot(t)' = NearSlot(t) /\ FarSlot(t)' = f
  BY <1>3, <1>4 DEF NearSlot, FarSlot
<1> HIDE DEF s, b, f
<1>7. CASE ~ValidEdge(t, near[t], f)
  <2>1. pc'[t] = "loadHint"  BY <1>1, <1>7, Locals DEF LoadFar, Goto, f, b
  <2>2. Pointers(t)'
    BY <1>3, <1>4, <2>1, SamePublished DEF Pointers, ShapeInv, Knows, b
  <2>3. Knows(t)'  BY <2>1, <2>2, Searches DEF HasNear, HasFar, Choosing, Updating
  <2> QED  BY <1>1, <1>2, <1>3, <2>1, <2>3, AfterLook
<1>8. CASE ValidEdge(t, near[t], f)
  <2>0. /\ near[t].type # FarType(s) /\ (near[t].type = "SEALED" => AtBorder(t))
        /\ (FarIdx(t) # FarLinkIndex(s) => f.type = FarType(s))
        /\ (idx[t] = NearLinkIndex(s) => near[t].type = NearType(s))
    BY <1>8 DEF ValidEdge, s
  <2>1. CASE AtBorder(t) /\ f.type # FarType(s)
    <3>1. idx[t] = FarValueIndex(s) /\ FarIdx(t) = FarLinkIndex(s)
      BY <2>1, BorderLink DEF AtBorder, f, b, s
    <3>2. f.type = "VALUE"
      BY <2>1, BorderLink DEF f, b, s
    <3>4. Published(f.val) /\ WereLinked(s, b, f.val)
      BY <2>1, BorderLink DEF f, b, s
    <3>5. f.val \in Buffers  BY <3>4 DEF Published
    <3>6. pc'[t] = "loadReach" /\ nbr'[t] = f.val
      BY <1>1, <1>8, <2>1, <3>5, Locals DEF LoadFar, Goto, f, b, s
    <3>7. Snapshots(t)'
      BY <1>4, <1>5, <1>6, <3>6 DEF Snapshots, HasReach, Choosing, Updating
    <3>8. Crossing(t)'
      <4>1. Published(nbr[t])'  BY <1>3, <3>4, <3>6, SamePublished
      <4>2. WereLinked(S(t), buf[t], nbr[t])'
        BY <1>3, <1>4, <3>4, <3>6 DEF WereLinked, TypeAt, Mutual, LinksTo
      <4> QED  BY <1>4, <3>1, <3>2, <3>6, <4>1, <4>2 DEF Crossing
    <3>9. EdgeChecked(t)'
      BY <1>4, <2>0, <3>1, <3>6, <3>8 DEF EdgeChecked, Updating
    <3>10. StageChosen(t)' /\ Appending(t)' /\ NotEmpty(t)'
      BY <3>6 DEF StageChosen, Appending, NotEmpty, Choosing
    <3>11. Knows(t)'
      BY <1>3, <1>4, <3>6, <3>7, <3>9, <3>10, EdgePointers DEF Knows, b
    <3> QED  BY <1>1, <1>2, <1>3, <3>6, <3>11, AfterLook
  <2>2. CASE ~(AtBorder(t) /\ f.type # FarType(s))
    <3> DEFINE g == IF ~AtBorder(t) THEN "interior" ELSE IF Pushing(t) THEN "append" ELSE "boundary"
    <3>1. BeginStage(t, g, near[t])
      BY <1>8, <2>2 DEF LoadFar, f, b, s
    <3>2. f.type = FarType(s) /\ (AtBorder(t) <=> idx[t] = FarValueIndex(s))
      <4>1. AtBorder(t) <=> idx[t] = FarValueIndex(s)  BY DEF AtBorder, s
      <4>2. ~AtBorder(t) => FarIdx(t) # FarLinkIndex(s)
        BY <1>5, <4>1, Places4 DEF FarIdx, s
      <4> QED  BY <2>0, <2>2, <4>1, <4>2
    <3>3. AtBorder(t) => near[t].type # "SEALED"
      <4> SUFFICES ASSUME AtBorder(t), near[t].type = "SEALED" PROVE FALSE
        OBVIOUS
      <4>1. idx[t] = FarValueIndex(s) /\ FarIdx(t) = FarLinkIndex(s)
        BY <1>5, <3>2, Places4 DEF FarIdx, s
      <4>2. TypeAt(b, FarValueIndex(s)) = "SEALED"
        BY <1>5, <4>1 DEF NearSlot, TypeAt, b
      <4>3. TypeAt(b, FarLinkIndex(s)) = "VALUE"
        BY <1>1, <1>5, <4>2, Looks
      <4> QED  BY <1>5, <3>2, <4>1, <4>3, Mirror DEF TypeAt, f
    <3>4. /\ stage'[t] = g /\ pc'[t] \in {"confirmEmpty", "prepare", "casSafe"}
          /\ pc'[t] = "confirmEmpty" => ~Pushing(t)
          /\ pc'[t] = "prepare" => g = "append"
          /\ pc'[t] = "casSafe" => g # "append" /\ (Pushing(t) \/ near[t].type \notin EmptyTypes(s, g))
      BY <1>1, <3>1, Begins DEF s
    <3>5. g \in {"interior", "append", "boundary"} /\ g \notin Straddles
          /\ (g = "append" => Pushing(t)) /\ (g = "boundary" => ~Pushing(t))
          /\ (g = "interior" <=> ~AtBorder(t))
      BY DEF Straddles
    <3> HIDE DEF g
    <3>6. Snapshots(t)'
      BY <1>4, <1>5, <1>6, <3>4, <3>5 DEF Snapshots, HasReach, Updating
    <3>7. EdgeChecked(t)'
      BY <1>4, <2>0, <3>2, <3>4 DEF EdgeChecked, Updating
    <3>8. StageChosen(t)'
      BY <1>4, <3>2, <3>3, <3>4, <3>5 DEF StageChosen
    <3>9. Appending(t)' /\ NotEmpty(t)'
      BY <1>4, <3>4, <3>5 DEF Appending, NotEmpty
    <3>10. Knows(t)'
      BY <1>3, <1>4, <3>4, <3>6, <3>7, <3>8, <3>9, EdgePointers DEF Knows, b, Choosing
    <3> QED  BY <1>1, <1>2, <1>3, <3>4, <3>10, AfterLook
  <2> QED  BY <2>1, <2>2
<1> QED  BY <1>7, <1>8

\* A crossing stays one while nothing is written.
LEMMA CrossingSame ==
  ASSUME NEW t \in Threads, Crossing(t), slots' = slots, SameOwners, S(t)' = S(t),
         buf'[t] = buf[t], nbr'[t] = nbr[t], idx'[t] = idx[t], far'[t] = far[t]
  PROVE  Crossing(t)'
<1>1. Published(nbr[t])'  BY SamePublished DEF Crossing
<1>2. WereLinked(S(t), buf[t], nbr[t])'
  BY DEF Crossing, WereLinked, TypeAt, Mutual, LinksTo
<1> QED  BY <1>1, <1>2 DEF Crossing

\* The neighbor's slot beyond the edge is loaded.
LEMMA LoadReachShape ==
  ASSUME ShapeInv, NEW t \in Threads, LoadReach(t)
  PROVE  ShapeInv'
<1>1. TypeOK /\ TypeOK'  BY LoadReachTypes DEF ShapeInv
<1>2. OthersStay(t)  BY DEF LoadReach, OthersStay, Goto, edge, shared
<1>3. SameOwners /\ slots' = slots /\ chain' = chain /\ globalHint' = globalHint
  BY DEF LoadReach, SameOwners, shared
<1>4. pc'[t] = "loadBack" /\ reach'[t] = ReachSlot(t) /\ pc[t] = "loadReach"
  BY <1>1, Locals DEF LoadReach, Goto, ReachSlot
<1>5. /\ hint'[t] = hint[t] /\ buf'[t] = buf[t] /\ upd'[t] = upd[t] /\ idx'[t] = idx[t]
      /\ near'[t] = near[t] /\ far'[t] = far[t] /\ nbr'[t] = nbr[t] /\ op'[t] = op[t]
      /\ S(t)' = S(t) /\ FarIdx(t)' = FarIdx(t)
  BY DEF LoadReach, edge, S, FarIdx
<1>6. NearSlot(t)' = NearSlot(t) /\ FarSlot(t)' = FarSlot(t) /\ ReachSlot(t)' = ReachSlot(t)
  BY <1>3, <1>5 DEF NearSlot, FarSlot, ReachSlot
<1>7. Snapshots(t) /\ EdgeChecked(t) /\ nbr[t] \in Buffers
  BY <1>4 DEF ShapeInv, Knows, EdgeChecked, Crossing, Published
<1>8. Snapshots(t)'
  <2>1. ReachSlot(t).cnt \in Nat
    BY <1>1, <1>7, Reads, Geometry, SlotFields DEF ReachSlot
  <2> QED
    BY <1>4, <1>5, <1>6, <1>7, <2>1 DEF Snapshots, HasNear, HasFar, Choosing, Updating
<1>9. EdgeChecked(t)'
  <2>1. Crossing(t)  BY <1>4, <1>7 DEF EdgeChecked
  <2>2. Crossing(t)'  BY <1>3, <1>5, <2>1, CrossingSame
  <2> QED  BY <1>4, <1>5, <1>7, <2>2 DEF EdgeChecked, HasFar, Updating
<1>10. StageChosen(t)' /\ Appending(t)' /\ NotEmpty(t)'
  BY <1>4 DEF StageChosen, Appending, NotEmpty, Choosing
<1>11. Knows(t)'  BY <1>3, <1>4, <1>5, <1>8, <1>9, <1>10, EdgePointers DEF Knows
<1> QED  BY <1>1, <1>2, <1>3, <1>4, <1>11, AfterLook

\* The link back tells whether the two buffers are neighbors; if the neighbor is sealed,
\* it is this thread that may remove it.
LEMMA LoadBackShape ==
  ASSUME ShapeInv, NEW t \in Threads, LoadBack(t)
  PROVE  ShapeInv'
<1> DEFINE s == S(t)
<1>1. TypeOK /\ TypeOK' /\ Profiles  BY LoadBackTypes DEF ShapeInv, Chained
<1>2. OthersStay(t)
  <2>1. \A u \in Threads \ {t} : pc'[u] = pc[u] /\ stage'[u] = stage[u]
    BY <1>1, Locals DEF LoadBack, BeginStage, Goto
  <2> QED  BY <2>1 DEF LoadBack, OthersStay, shared, edge, snaps
<1>3. SameOwners /\ slots' = slots /\ chain' = chain /\ globalHint' = globalHint
  BY DEF LoadBack, SameOwners, shared
<1>4. /\ hint'[t] = hint[t] /\ buf'[t] = buf[t] /\ upd'[t] = upd[t] /\ idx'[t] = idx[t]
      /\ near'[t] = near[t] /\ far'[t] = far[t] /\ reach'[t] = reach[t]
      /\ nbr'[t] = nbr[t] /\ op'[t] = op[t]
      /\ S(t)' = S(t) /\ FarIdx(t)' = FarIdx(t) /\ Pushing(t)' = Pushing(t)
      /\ pc[t] = "loadBack"
  BY DEF LoadBack, edge, snaps, S, FarIdx, Pushing
<1>5. NearSlot(t)' = NearSlot(t) /\ FarSlot(t)' = FarSlot(t) /\ ReachSlot(t)' = ReachSlot(t)
  BY <1>3, <1>4 DEF NearSlot, FarSlot, ReachSlot
<1>6. /\ Snapshots(t) /\ EdgeChecked(t) /\ Crossing(t) /\ Pointers(t)
      /\ s \in Sides /\ Published(nbr[t])
  BY <1>1, <1>4, Reads DEF ShapeInv, Knows, EdgeChecked, Crossing
<1>7. CASE pc'[t] = "loadHint"
  <2>1. Pointers(t)'
    BY <1>3, <1>4, <1>6, <1>7, SamePublished DEF Pointers
  <2>2. Knows(t)'  BY <1>7, <2>1, Searches DEF HasNear, HasFar, Choosing, Updating
  <2> QED  BY <1>1, <1>2, <1>3, <1>7, <2>2, AfterLook
<1>8. ASSUME NEW g \in Straddles, BeginStage(t, g, near[t]),
             g = "straddle" => Pushing(t), g = "seal" => ~Pushing(t),
             g \in {"straddle", "seal"} => reach[t].type = FarType(s),
             g = "remove" => SealedOff(s, buf[t], nbr[t])
      PROVE  ShapeInv'
  <2>1. /\ stage'[t] = g /\ pc'[t] \in {"confirmEmpty", "casSafe"}
        /\ pc'[t] = "confirmEmpty" => ~Pushing(t)
        /\ pc'[t] = "casSafe" => Pushing(t) \/ near[t].type \notin EmptyTypes(s, g)
    BY <1>1, <1>8, Begins DEF Straddles
  <2>2. Snapshots(t)'
    BY <1>4, <1>5, <1>6, <2>1
       DEF Snapshots, HasNear, HasFar, HasReach, Choosing, Updating
  <2>3. EdgeChecked(t)'
    BY <1>4, <1>6, <2>1 DEF EdgeChecked, HasFar, Choosing, Updating
  <2>4. Crossing(t)'  BY <1>3, <1>4, <1>6, CrossingSame
  <2>5. g = "remove" => SealedOff(S(t), buf[t], nbr[t])'
    BY <1>3, <1>4, <1>8 DEF SealedOff, TypeAt, LinksTo
  <2>6. StageChosen(t)'
    BY <1>4, <1>8, <2>1, <2>4, <2>5 DEF StageChosen, Straddles
  <2>7. Appending(t)' /\ NotEmpty(t)'
    BY <1>4, <1>8, <2>1 DEF Appending, NotEmpty, Straddles
  <2>8. Knows(t)'
    BY <1>3, <1>4, <2>1, <2>2, <2>3, <2>6, <2>7, EdgePointers DEF Knows, Choosing
  <2> QED  BY <1>1, <1>2, <1>3, <2>1, <2>8, AfterLook
<1> DEFINE mutual == slots[nbr[t]][NearLinkIndex(s)].val = buf[t]
<1>9. CASE mutual /\ reach[t].type = FarType(s)
  <2> DEFINE g == IF Pushing(t) THEN "straddle" ELSE "seal"
  <2>1. BeginStage(t, g, near[t])  BY <1>6, <1>9, Mirror DEF LoadBack
  <2>2. g \in Straddles  BY DEF Straddles
  <2> QED  BY <1>8, <1>9, <2>1, <2>2
<1>10. CASE mutual /\ reach[t].type = "SEALED"
  <2>1. BeginStage(t, "remove", near[t])
    BY <1>6, <1>10, Mirror DEF LoadBack
  <2>2. TypeAt(nbr[t], NearValueIndex(s)) = "SEALED"
    BY <1>4, <1>6, <1>10 DEF Snapshots, HasReach, ReachSlot, TypeAt
  <2>3. TypeAt(nbr[t], NearLinkIndex(s)) = "VALUE"
    BY <1>1, <1>6, <2>2, Looks
  <2>4. SealedOff(s, buf[t], nbr[t])
    BY <1>10, <2>2, <2>3 DEF SealedOff, LinksTo, TypeAt
  <2> QED  BY <1>8, <2>1, <2>4 DEF Straddles
<1>11. CASE ~(mutual /\ reach[t].type \in {FarType(s), "SEALED"})
  <2>1. pc'[t] = "loadHint"
    BY <1>1, <1>11, Locals DEF LoadBack, Goto
  <2> QED  BY <1>7, <2>1
<1> QED  BY <1>9, <1>10, <1>11

\* A pop that reads a changed count goes on, and remembers that it has changed.
LEMMA ConfirmEmptyShape ==
  ASSUME ShapeInv, NEW t \in Threads, ConfirmEmpty(t)
  PROVE  ShapeInv'
<1>1. TypeOK /\ TypeOK'  BY ConfirmEmptyTypes DEF ShapeInv
<1>2. OthersStay(t)  BY DEF ConfirmEmpty, OthersStay, Goto, edge, shared, snaps
<1>3. SameOwners /\ slots' = slots /\ chain' = chain /\ globalHint' = globalHint
  BY DEF ConfirmEmpty, SameOwners, shared
<1>4. /\ hint'[t] = hint[t] /\ buf'[t] = buf[t] /\ upd'[t] = upd[t] /\ idx'[t] = idx[t]
      /\ near'[t] = near[t] /\ far'[t] = far[t] /\ reach'[t] = reach[t]
      /\ nbr'[t] = nbr[t] /\ op'[t] = op[t] /\ stage'[t] = stage[t]
      /\ S(t)' = S(t) /\ FarIdx(t)' = FarIdx(t) /\ Pushing(t)' = Pushing(t)
      /\ pc[t] = "confirmEmpty"
  BY DEF ConfirmEmpty, edge, snaps, S, FarIdx, Pushing
<1>5. /\ pc'[t] \in {"return", "casSafe"}
      /\ pc'[t] = "casSafe" => NearSlot(t).cnt # near[t].cnt
  BY <1>1, Locals DEF ConfirmEmpty, Goto, NearSlot
<1>6. NearSlot(t)' = NearSlot(t) /\ FarSlot(t)' = FarSlot(t) /\ ReachSlot(t)' = ReachSlot(t)
  BY <1>3, <1>4 DEF NearSlot, FarSlot, ReachSlot
<1>7. Knows(t) /\ near[t].cnt \in Nat /\ NearSlot(t).cnt \in Nat
  BY <1>1, Reads, SlotFields DEF ShapeInv, NearSlot
<1>8. CASE pc'[t] = "return"
  <2>1. Pointers(t)'
    BY <1>3, <1>4, <1>7, <1>8, SamePublished DEF Knows, Pointers
  <2>2. Knows(t)'  BY <1>8, <2>1, Searches DEF HasNear, HasFar, Choosing, Updating
  <2> QED  BY <1>1, <1>2, <1>3, <1>8, <2>2, AfterLook
<1>9. CASE pc'[t] = "casSafe"
  <2>1. Snapshots(t)'
    BY <1>4, <1>6, <1>7, <1>9
       DEF Knows, Snapshots, HasNear, HasFar, HasReach, Choosing, Updating
  <2>2. EdgeChecked(t)'
    BY <1>4, <1>7, <1>9 DEF Knows, EdgeChecked, HasFar, Choosing, Updating
  <2>3. Crossing(t) => Crossing(t)'  BY <1>3, <1>4, CrossingSame
  <2>4. SealedOff(S(t), buf[t], nbr[t]) => SealedOff(S(t), buf[t], nbr[t])'
    BY <1>3, <1>4 DEF SealedOff, TypeAt, LinksTo
  <2>5. StageChosen(t)'
    BY <1>4, <1>7, <1>9, <2>3, <2>4 DEF Knows, StageChosen, Choosing
  <2>6. Appending(t)'
    BY <1>4, <1>7 DEF Knows, StageChosen, Appending, Choosing
  <2>7. NotEmpty(t)'
    BY <1>4, <1>5, <1>6, <1>7, <1>9
       DEF NotEmpty, Knows, Snapshots, HasNear, HasFar, Choosing
  <2>8. Knows(t)'
    BY <1>3, <1>4, <1>9, <2>1, <2>2, <2>5, <2>6, <2>7, EdgePointers DEF Knows, Choosing
  <2> QED  BY <1>1, <1>2, <1>3, <1>9, <2>8, AfterLook
<1> QED  BY <1>5, <1>8, <1>9

-----------------------------------------------------------------------------
(* After the CASes: the hints. *)

\* A CAS that fails starts the operation again.
LEMMA EffectFailsShape ==
  ASSUME ShapeInv, NEW t \in Threads, EffectFails(t)
  PROVE  ShapeInv'
<1>1. TypeOK /\ TypeOK'  BY EffectFailsTypes DEF ShapeInv
<1>2. OthersStay(t)  BY DEF EffectFails, OthersStay, Goto, edge, shared, snaps
<1>3. SameOwners /\ slots' = slots /\ chain' = chain /\ globalHint' = globalHint
  BY DEF EffectFails, SameOwners, shared
<1>4. pc'[t] = "loadHint"  BY <1>1, Locals DEF EffectFails, Goto
<1>5. Pointers(t)'
  BY <1>3, <1>4, SamePublished DEF EffectFails, edge, ShapeInv, Knows, Pointers
<1>6. Knows(t)'  BY <1>4, <1>5, Searches DEF HasNear, HasFar, Choosing, Updating
<1> QED  BY <1>1, <1>2, <1>3, <1>4, <1>6, AfterLook

\* Local hints are not part of the shape.
LEMMA BumpLocalShape ==
  ASSUME ShapeInv, NEW t \in Threads, BumpLocal(t)
  PROVE  ShapeInv'
<1>1. TypeOK /\ TypeOK'  BY BumpLocalTypes DEF ShapeInv
<1>2. OthersStay(t)  BY DEF BumpLocal, OthersStay, Goto, edge, snaps
<1>3. SameOwners /\ slots' = slots /\ chain' = chain /\ globalHint' = globalHint
  BY DEF BumpLocal, SameOwners
<1>4. pc'[t] = "return"  BY <1>1, Locals DEF BumpLocal, Goto
<1>5. Pointers(t)'
  BY <1>3, <1>4, SamePublished DEF BumpLocal, edge, ShapeInv, Knows, Pointers
<1>6. Knows(t)'  BY <1>4, <1>5, Searches DEF HasNear, HasFar, Choosing, Updating
<1> QED  BY <1>1, <1>2, <1>3, <1>4, <1>6, AfterLook

\* The global hint moves to a buffer of the edge, or to the one just appended.
LEMMA BumpGlobalShape ==
  ASSUME ShapeInv, NEW t \in Threads, BumpGlobal(t)
  PROVE  ShapeInv'
<1> DEFINE to == IF Pushing(t) THEN nbr[t] ELSE buf[t]
<1>1. TypeOK /\ TypeOK'  BY BumpGlobalTypes DEF ShapeInv
<1>2. OthersStay(t)  BY DEF BumpGlobal, OthersStay, Goto, edge, snaps
<1>3. SameOwners /\ slots' = slots /\ chain' = chain
  BY DEF BumpGlobal, SameOwners
<1>4. pc'[t] = "return"  BY <1>1, Locals DEF BumpGlobal, Goto
<1>5. Pointers(t)'
  BY <1>3, <1>4, SamePublished DEF BumpGlobal, edge, ShapeInv, Knows, Pointers
<1>6. Knows(t)'  BY <1>4, <1>5, Searches DEF HasNear, HasFar, Choosing, Updating
<1>7. Published(to)  BY DEF ShapeInv, Knows, Pointers, BumpGlobal
<1>8. HintsLead'
  <2> SUFFICES ASSUME NEW s \in Sides PROVE Published(globalHint[s].buf)'
    BY DEF HintsLead
  <2>1. globalHint'[s] \in {globalHint[s], [buf |-> to, cnt |-> hint[t].cnt + 1]}
    BY <1>1 DEF BumpGlobal, TypeOK, VarTypes
  <2>2. Published(globalHint[s].buf)  BY DEF ShapeInv, HintsLead
  <2>3. globalHint'[s].buf \in {globalHint[s].buf, to}  BY <2>1
  <2> HIDE DEF to
  <2> QED  BY <1>3, <1>7, <2>2, <2>3, SamePublished
<1> QED  BY <1>1, <1>2, <1>3, <1>4, <1>6, <1>8, AfterQuiet

\* The operation returns, and its locals are forgotten.
LEMMA ReturnShape ==
  ASSUME ShapeInv, NEW t \in Threads, Return(t)
  PROVE  ShapeInv'
<1>1. TypeOK /\ TypeOK'  BY ReturnTypes DEF ShapeInv
<1>2. OthersStay(t)  BY DEF Return, Forget, OthersStay, Goto
<1>3. SameOwners /\ slots' = slots /\ chain' = chain /\ globalHint' = globalHint
  BY DEF Return, SameOwners
<1>4. pc'[t] = "idle"  BY <1>1, Locals DEF Return, Goto
<1>5. Pointers(t)'
  <2>1. hint'[t] = NoHint /\ buf'[t] = FirstBuffer /\ upd'[t] = NoUpdate
    BY <1>1, Locals DEF Return, Forget
  <2>2. Published(FirstBuffer)  BY DEF ShapeInv, Chained, Caches
  <2> QED
    BY <1>3, <1>4, <2>1, <2>2, SamePublished DEF Pointers, NoUpdate, NoHint
<1>6. Knows(t)'  BY <1>4, <1>5, Searches DEF HasNear, HasFar, Choosing, Updating
<1> QED  BY <1>1, <1>2, <1>3, <1>4, <1>6, AfterLook

-----------------------------------------------------------------------------
(* retire, up to the tracker. *)

\* While t updates the hints, its edge stays what it is.
LEMMA UpdatesOn ==
  ASSUME ShapeInv, NEW t \in Threads, pc[t] \in Updating, pc'[t] \in Updating,
         slots' = slots, SameOwners, op'[t] = op[t], buf'[t] = buf[t], idx'[t] = idx[t],
         nbr'[t] = nbr[t], near'[t] = near[t], far'[t] = far[t], hint'[t] = hint[t],
         Published(upd'[t].cand), Published(upd'[t].hint.buf),
         pc'[t] \in {"updReserve", "updCheck"} => Published(upd'[t].link),
         SealReads(t)'
  PROVE  Knows(t)'
<1>1. S(t)' = S(t) /\ FarIdx(t)' = FarIdx(t) /\ NearSlot(t)' = NearSlot(t) /\ FarSlot(t)' = FarSlot(t)
  BY DEF S, FarIdx, NearSlot, FarSlot
<1>2. pc'[t] \notin {"loadBack", "casEffect", "loadReach"} \cup Choosing
  BY DEF Updating, Choosing
<1>3. pc[t] \in HasNear /\ pc[t] \in HasFar /\ Knows(t)
  BY DEF HasNear, HasFar, ShapeInv
<1>4. Snapshots(t)'
  BY <1>1, <1>2, <1>3 DEF Knows, Snapshots, HasReach
<1>5. EdgeChecked(t)'
  <2>1. Published(nbr[t])'  BY <1>3, SamePublished DEF Knows, EdgeChecked
  <2> QED  BY <1>1, <1>2, <1>3, <2>1 DEF Knows, EdgeChecked
<1>6. StageChosen(t)' /\ Appending(t)' /\ NotEmpty(t)'
  BY <1>2 DEF StageChosen, Appending, NotEmpty, Choosing
<1>7. Pointers(t)'
  <2>1. /\ Published(buf[t])' /\ Published(hint[t].buf)' /\ Published(upd[t].cand)'
        /\ Published(upd[t].hint.buf)'
        /\ pc'[t] \in {"updReserve", "updCheck"} => Published(upd[t].link)'
    BY <1>3, SamePublished DEF Knows, Pointers
  <2> QED  BY <2>1 DEF Pointers, Updating
<1> QED  BY <1>4, <1>5, <1>6, <1>7 DEF Knows

\* The snapshot of the count is a number.
LEMMA UpdThresholdShape ==
  ASSUME ShapeInv, NEW t \in Threads, UpdThreshold(t)
  PROVE  ShapeInv'
<1>1. TypeOK /\ TypeOK'  BY UpdThresholdTypes DEF ShapeInv
<1>2. OthersStay(t)  BY DEF UpdThreshold, OthersStay, Goto, edge, snaps, shared
<1>3. SameOwners /\ slots' = slots /\ chain' = chain /\ globalHint' = globalHint
  BY DEF UpdThreshold, SameOwners, shared
<1>4. pc[t] = "updThreshold" /\ pc'[t] = "updLoad"
  BY <1>1, Locals DEF UpdThreshold, Goto
<1>5. upd'[t] = [upd[t] EXCEPT !.threshold = globalHint[upd[t].side].cnt]
  BY <1>1, Locals DEF UpdThreshold
<1>6. upd'[t].cand = upd[t].cand /\ upd'[t].hint = upd[t].hint
  BY <1>1, <1>5, Reads DEF Updates
<1>7. Published(upd[t].cand) /\ Published(upd[t].hint.buf)
  BY DEF ShapeInv, Knows, Pointers
<1>8. SealReads(t)'  BY <1>4 DEF SealReads
<1>9. Knows(t)'
  BY <1>3, <1>4, <1>6, <1>7, <1>8, UpdatesOn DEF UpdThreshold, edge, snaps, Updating
<1> QED  BY <1>1, <1>2, <1>3, <1>4, <1>9, AfterLook

\* The search for an active buffer starts at the global hint.
LEMMA UpdLoadShape ==
  ASSUME ShapeInv, NEW t \in Threads, UpdLoad(t)
  PROVE  ShapeInv'
<1>1. TypeOK /\ TypeOK'  BY UpdLoadTypes DEF ShapeInv
<1>2. OthersStay(t)
  <2>1. \A u \in Threads \ {t} : upd'[u] = upd[u]
    BY <1>1, Locals DEF UpdLoad
  <2>2. pc' = [pc EXCEPT ![t] = "sealed0"] /\ UNCHANGED <<shared, op, result, edge, snaps, stage>>
    BY DEF UpdLoad, Goto
  <2> QED  BY <2>1, <2>2, Locals, <1>1 DEF OthersStay, edge, snaps, shared
<1>3. SameOwners /\ slots' = slots /\ chain' = chain /\ globalHint' = globalHint
  BY DEF UpdLoad, SameOwners, shared
<1>4. pc[t] = "updLoad" /\ pc'[t] = "sealed0"
  BY <1>1, Locals DEF UpdLoad, Goto
<1> DEFINE h == globalHint[upd[t].side]
<1>5. upd'[t].cand = h.buf /\ upd'[t].hint = h
  <2>1. upd'[t] = [upd[t] EXCEPT !.hint = h, !.cand = h.buf, !.haz = 1, !.finding = FALSE]
    BY <1>1, Locals DEF UpdLoad
  <2> HIDE DEF h
  <2> QED  BY <1>1, <2>1, Reads DEF Updates
<1>6. Published(h.buf)
  <2>1. upd[t].side \in Sides  BY <1>1, Reads, UpdFields
  <2> QED  BY <2>1 DEF ShapeInv, HintsLead
<1>7. SealReads(t)'  BY <1>4 DEF SealReads
<1>8. Knows(t)'
  BY <1>3, <1>4, <1>5, <1>6, <1>7, UpdatesOn DEF UpdLoad, edge, snaps, Updating
<1> QED  BY <1>1, <1>2, <1>3, <1>4, <1>8, AfterLook

\* isSealed reads the left border.
LEMMA Sealed0Shape ==
  ASSUME ShapeInv, NEW t \in Threads, Sealed0(t)
  PROVE  ShapeInv'
<1>1. TypeOK /\ TypeOK'  BY Sealed0Types DEF ShapeInv
<1>2. OthersStay(t)  BY DEF Sealed0, OthersStay, Goto, edge, snaps, shared
<1>3. SameOwners /\ slots' = slots /\ chain' = chain /\ globalHint' = globalHint
  BY DEF Sealed0, SameOwners, shared
<1>4. pc[t] = "sealed0" /\ pc'[t] = "sealed1"
  BY <1>1, Locals DEF Sealed0, Goto
<1> DEFINE n == slots[upd[t].cand][1]
<1>5. upd'[t].cand = upd[t].cand /\ upd'[t].hint = upd[t].hint /\ upd'[t].n0 = n
  <2>1. upd'[t] = [upd[t] EXCEPT !.n0 = n]
    BY <1>1, Locals DEF Sealed0
  <2> HIDE DEF n
  <2> QED  BY <1>1, <2>1, Reads DEF Updates
<1>6. Published(upd[t].cand) /\ Published(upd[t].hint.buf) /\ n.cnt \in Nat
  BY <1>1, Reads, UpdFields, Borders, SlotFields DEF ShapeInv, Knows, Pointers
<1>7. SealReads(t)'
  BY <1>3, <1>4, <1>5, <1>6 DEF SealReads, TypeAt
<1>8. Knows(t)'
  BY <1>3, <1>4, <1>5, <1>6, <1>7, UpdatesOn DEF Sealed0, edge, snaps, Updating
<1> QED  BY <1>1, <1>2, <1>3, <1>4, <1>8, AfterLook

\* Then the right border.
LEMMA Sealed1Shape ==
  ASSUME ShapeInv, NEW t \in Threads, Sealed1(t)
  PROVE  ShapeInv'
<1>1. TypeOK /\ TypeOK'  BY Sealed1Types DEF ShapeInv
<1>2. OthersStay(t)  BY DEF Sealed1, OthersStay, Goto, edge, snaps, shared
<1>3. SameOwners /\ slots' = slots /\ chain' = chain /\ globalHint' = globalHint
  BY DEF Sealed1, SameOwners, shared
<1>4. pc[t] = "sealed1" /\ pc'[t] = "sealed2"
  BY <1>1, Locals DEF Sealed1, Goto
<1> DEFINE n == slots[upd[t].cand][LastIndex - 1]
<1>5. upd'[t].cand = upd[t].cand /\ upd'[t].hint = upd[t].hint /\ upd'[t].n0 = upd[t].n0
      /\ upd'[t].n1 = n
  <2>1. upd'[t] = [upd[t] EXCEPT !.n1 = n]
    BY <1>1, Locals DEF Sealed1
  <2> HIDE DEF n
  <2> QED  BY <1>1, <2>1, Reads DEF Updates
<1>6. Published(upd[t].cand) /\ Published(upd[t].hint.buf) /\ SealReads(t)
  BY DEF ShapeInv, Knows, Pointers
<1>7. SealReads(t)'
  BY <1>3, <1>4, <1>5, <1>6 DEF SealReads, TypeAt
<1>8. Knows(t)'
  BY <1>3, <1>4, <1>5, <1>6, <1>7, UpdatesOn DEF Sealed1, edge, snaps, Updating
<1> QED  BY <1>1, <1>2, <1>3, <1>4, <1>8, AfterLook

\* What isSealed answers: a seal it has seen is still there.
LEMMA Sealed2Shape ==
  ASSUME ShapeInv, NEW t \in Threads, Sealed2(t)
  PROVE  ShapeInv'
<1>1. TypeOK /\ TypeOK'  BY Sealed2Types DEF ShapeInv
<1>2. OthersStay(t)
  <2>1. \A u \in Threads \ {t} : pc'[u] = pc[u] /\ upd'[u] = upd[u]
    BY <1>1, Locals DEF Sealed2, NextSide, Goto
  <2> QED  BY <2>1 DEF Sealed2, OthersStay, edge, snaps, shared
<1>3. SameOwners /\ slots' = slots /\ chain' = chain /\ globalHint' = globalHint
  BY DEF Sealed2, SameOwners, shared
<1>4. /\ pc[t] = "sealed2"
      /\ pc'[t] \in {"sealed0", "updLink", "updThreshold", "retire", "updCas"}
  BY <1>1, Locals DEF Sealed2, NextSide, Goto
<1>5. /\ upd'[t].cand = upd[t].cand /\ upd'[t].hint = upd[t].hint /\ upd'[t].n0 = upd[t].n0
      /\ upd'[t].n1 = upd[t].n1
  <2>1. upd'[t] \in {upd[t], [upd[t] EXCEPT !.finding = TRUE], SideDone(upd[t])}
    BY <1>1, Locals DEF Sealed2
  <2> QED  BY <1>1, <2>1, Reads DEF Updates, SideDone
<1>6. pc'[t] = "updLink" => upd[t].n0.type = "SEALED" \/ upd[t].n1.type = "SEALED"
  <2>1. SealedAt(upd[t]) # -1 => upd[t].n0.type = "SEALED" \/ upd[t].n1.type = "SEALED"
    BY DEF SealedAt
  <2> QED  BY <1>1, <2>1, Locals DEF Sealed2, NextSide, Goto
<1>7. Published(upd[t].cand) /\ Published(upd[t].hint.buf) /\ SealReads(t)
  BY DEF ShapeInv, Knows, Pointers
<1>8. SealReads(t)'
  BY <1>3, <1>4, <1>5, <1>6, <1>7 DEF SealReads, TypeAt
<1>9. Knows(t)'
  BY <1>3, <1>4, <1>5, <1>7, <1>8, UpdatesOn DEF Sealed2, edge, snaps, Updating
<1> QED  BY <1>1, <1>2, <1>3, <1>4, <1>9, AfterLook

\* Beside the seal there is a link to the next buffer.
LEMMA UpdLinkShape ==
  ASSUME ShapeInv, NEW t \in Threads, UpdLink(t)
  PROVE  ShapeInv'
<1>1. TypeOK /\ TypeOK' /\ Chained /\ Profiles  BY UpdLinkTypes DEF ShapeInv, Chained
<1>2. OthersStay(t)  BY DEF UpdLink, OthersStay, Goto, edge, snaps, shared
<1>3. SameOwners /\ slots' = slots /\ chain' = chain /\ globalHint' = globalHint
  BY DEF UpdLink, SameOwners, shared
<1>4. pc[t] = "updLink" /\ pc'[t] = "updReserve"
  BY <1>1, Locals DEF UpdLink, Goto
<1> DEFINE c == upd[t].cand
           i == IF SealedAt(upd[t]) = 1 THEN 0 ELSE LastIndex
           w == slots[c][i].val
<1>5. upd'[t].cand = c /\ upd'[t].hint = upd[t].hint /\ upd'[t].link = w
  <2>1. upd'[t] = [upd[t] EXCEPT !.link = w]
    BY <1>1, Locals DEF UpdLink
  <2> HIDE DEF w
  <2> QED  BY <1>1, <2>1, Reads DEF Updates
<1>6. Published(c) /\ Published(upd[t].hint.buf) /\ SealReads(t)
  BY DEF ShapeInv, Knows, Pointers
<1>7. Published(w)
  <2>1. CASE SealedAt(upd[t]) = 1
    <3>1. upd[t].n0.type = "SEALED"  
      BY <2>1, OFDequeAssumption DEF SealedAt, LastIndex
    <3>2. TypeAt(c, FarValueIndex("L")) = "SEALED"
      BY <1>4, <1>6, <3>1 DEF SealReads, FarValueIndex
    <3>3. TypeAt(c, FarLinkIndex("L")) = "VALUE"
      BY <1>1, <1>6, <3>2, Looks DEF Sides
    <3>4. Published(slots[c][FarLinkIndex("L")].val)
      BY <1>1, <1>6, <3>3, Leads DEF Sides
    <3> QED  BY <2>1, <3>4 DEF FarLinkIndex
  <2>2. CASE SealedAt(upd[t]) # 1
    <3>1. upd[t].n1.type = "SEALED"
      BY <1>4, <1>6, <2>2 DEF SealedAt, SealReads
    <3>2. TypeAt(c, FarValueIndex("R")) = "SEALED"
      BY <1>4, <1>6, <3>1 DEF SealReads, FarValueIndex
    <3>3. TypeAt(c, FarLinkIndex("R")) = "VALUE"
      BY <1>1, <1>6, <3>2, Looks DEF Sides
    <3>4. Published(slots[c][FarLinkIndex("R")].val)
      BY <1>1, <1>6, <3>3, Leads DEF Sides
    <3> QED  BY <2>2, <3>4 DEF FarLinkIndex
  <2> QED  BY <2>1, <2>2
<1>8. SealReads(t)'  BY <1>4 DEF SealReads
<1> HIDE DEF w, c
<1>9. Knows(t)'
  BY <1>3, <1>4, <1>5, <1>6, <1>7, <1>8, UpdatesOn DEF UpdLink, edge, snaps, Updating
<1> QED  BY <1>1, <1>2, <1>3, <1>4, <1>9, AfterLook

\* Which is reserved,
LEMMA UpdReserveShape ==
  ASSUME ShapeInv, NEW t \in Threads, UpdReserve(t)
  PROVE  ShapeInv'
<1>1. TypeOK /\ TypeOK'  BY UpdReserveTypes DEF ShapeInv
<1>2. OthersStay(t)  BY DEF UpdReserve, OthersStay, Goto, edge, snaps
<1>3. SameOwners /\ slots' = slots /\ chain' = chain /\ globalHint' = globalHint
  BY DEF UpdReserve, SameOwners
<1>4. pc[t] = "updReserve" /\ pc'[t] = "updCheck"
  BY <1>1, Locals DEF UpdReserve, Goto
<1>5. /\ upd'[t].cand = upd[t].cand /\ upd'[t].hint = upd[t].hint
      /\ upd'[t].link = upd[t].link
  <2>1. upd'[t] = [upd[t] EXCEPT !.haz = 1 - @]
    BY <1>1, Locals DEF UpdReserve
  <2> QED  BY <1>1, <2>1, Reads DEF Updates
<1>6. Published(upd[t].cand) /\ Published(upd[t].hint.buf) /\ Published(upd[t].link)
  BY <1>4 DEF ShapeInv, Knows, Pointers
<1>7. SealReads(t)'  BY <1>4 DEF SealReads
<1>8. Knows(t)'
  BY <1>3, <1>4, <1>5, <1>6, <1>7, UpdatesOn DEF UpdReserve, edge, snaps, Updating
<1> QED  BY <1>1, <1>2, <1>3, <1>4, <1>8, AfterLook

\* and becomes the candidate.
LEMMA UpdCheckShape ==
  ASSUME ShapeInv, NEW t \in Threads, UpdCheck(t)
  PROVE  ShapeInv'
<1>1. TypeOK /\ TypeOK'  BY UpdCheckTypes DEF ShapeInv
<1>2. OthersStay(t)  BY DEF UpdCheck, OthersStay, Goto, edge, snaps, shared
<1>3. SameOwners /\ slots' = slots /\ chain' = chain /\ globalHint' = globalHint
  BY DEF UpdCheck, SameOwners, shared
<1>4. Published(upd[t].cand) /\ Published(upd[t].hint.buf) /\ Published(upd[t].link)
  BY DEF ShapeInv, Knows, Pointers, UpdCheck
<1>5. pc[t] = "updCheck" /\ pc'[t] \in {"updLoad", "sealed0"}
  BY <1>1, <1>4, Locals DEF UpdCheck, Goto, Published
<1>6. upd'[t].cand \in {upd[t].cand, upd[t].link} /\ upd'[t].hint = upd[t].hint
  <2>1. PICK c \in {upd[t].cand, upd[t].link} : upd'[t] = [upd[t] EXCEPT !.cand = c]
    BY <1>1, Locals DEF UpdCheck
  <2> QED  BY <1>1, <2>1, Reads DEF Updates
<1>7. SealReads(t)'  BY <1>5 DEF SealReads
<1>8. Knows(t)'
  BY <1>3, <1>4, <1>5, <1>6, <1>7, UpdatesOn DEF UpdCheck, edge, snaps, Updating
<1> QED  BY <1>1, <1>2, <1>3, <1>5, <1>8, AfterLook

\* updateHint stores an active buffer, or the one it has found, as the global hint.
LEMMA UpdCasShape ==
  ASSUME ShapeInv, NEW t \in Threads, UpdCas(t)
  PROVE  ShapeInv'
<1> DEFINE u == upd[t]
<1>1. TypeOK /\ TypeOK'  BY UpdCasTypes DEF ShapeInv
<1>2. OthersStay(t)
  <2>1. \A w \in Threads \ {t} : pc'[w] = pc[w] /\ upd'[w] = upd[w]
    BY <1>1, Locals DEF UpdCas, NextSide, Goto
  <2> QED  BY <2>1 DEF UpdCas, OthersStay, edge, snaps
<1>3. SameOwners /\ slots' = slots /\ chain' = chain
  BY DEF UpdCas, SameOwners
<1>4. pc[t] = "updCas" /\ pc'[t] \in {"updLoad", "updThreshold", "retire"}
  BY <1>1, Locals DEF UpdCas, NextSide, Goto
<1>5. u.side \in Sides /\ Published(u.cand) /\ Published(u.hint.buf)
  BY <1>1, Reads, UpdFields DEF ShapeInv, Knows, Pointers
<1>6. upd'[t].cand = u.cand /\ upd'[t].hint = u.hint
  <2>1. upd'[t] \in {u, SideDone(u)}
    BY <1>1, Locals DEF UpdCas
  <2> QED  BY <1>1, <2>1, Reads DEF Updates, SideDone
<1>7. SealReads(t)'  BY <1>4 DEF SealReads
<1>8. Knows(t)'
  BY <1>3, <1>4, <1>5, <1>6, <1>7, UpdatesOn DEF UpdCas, edge, snaps, Updating
<1>9. HintsLead'
  <2> SUFFICES ASSUME NEW s \in Sides PROVE Published(globalHint[s].buf)'
    BY DEF HintsLead
  <2>1. globalHint'[s] \in {globalHint[s], [buf |-> u.cand, cnt |-> u.hint.cnt + 1]}
    BY <1>1 DEF UpdCas, TypeOK, VarTypes
  <2>2. Published(globalHint[s].buf)  BY DEF ShapeInv, HintsLead
  <2>3. globalHint'[s].buf \in {globalHint[s].buf, u.cand}  BY <2>1
  <2> HIDE DEF u
  <2> QED  BY <1>3, <1>5, <2>2, <2>3, SamePublished
<1> QED  BY <1>1, <1>2, <1>3, <1>4, <1>8, <1>9, AfterQuiet

\* The removed buffer goes to the tracker; a pop goes on in the buffer that is now the end.
LEMMA RetireShape ==
  ASSUME ShapeInv, NEW t \in Threads, Retire(t)
  PROVE  ShapeInv'
<1> DEFINE s == S(t)
<1>1. TypeOK /\ TypeOK'  BY RetireTypes DEF ShapeInv
<1>2. OthersStay(t)
  <2>1. \A u \in Threads \ {t} : pc'[u] = pc[u] /\ stage'[u] = stage[u]
    BY <1>1, Locals DEF Retire, BeginStage, Goto
  <2> QED  BY <2>1 DEF Retire, OthersStay, edge
<1>3. SameOwners /\ slots' = slots /\ chain' = chain /\ globalHint' = globalHint
  BY DEF Retire, SameOwners
<1>4. /\ hint'[t] = hint[t] /\ buf'[t] = buf[t] /\ upd'[t] = upd[t] /\ idx'[t] = idx[t]
      /\ nbr'[t] = nbr[t] /\ op'[t] = op[t]
      /\ near'[t] = Bumped(near[t]) /\ far'[t] = [Bumped(far[t]) EXCEPT !.type = FarType(s)]
      /\ S(t)' = s /\ FarIdx(t)' = FarIdx(t) /\ Pushing(t)' = Pushing(t)
      /\ retired'[t] = retired[t] \cup {nbr[t]} /\ pc[t] = "retire"
  BY <1>1, Locals DEF Retire, edge, S, FarIdx, Pushing
<1>5. /\ near'[t].type = near[t].type /\ near'[t].cnt = near[t].cnt + 1
      /\ far'[t].type = FarType(s) /\ far'[t].cnt = far[t].cnt + 1
  BY <1>1, <1>4, Reads DEF Bumped, Slots
<1>6. NearSlot(t)' = NearSlot(t) /\ FarSlot(t)' = FarSlot(t)
  BY <1>3, <1>4 DEF NearSlot, FarSlot
<1>7. Knows(t) /\ Pointers(t) /\ pc[t] \in Updating /\ pc[t] \in HasNear /\ pc[t] \in HasFar
  BY <1>4 DEF ShapeInv, Knows, Updating, HasNear, HasFar
<1>8. CASE pc'[t] \in {"loadHint", "fault"} /\ (pc'[t] = "fault" => nbr[t] \in retired[t])
  <2>1. Pointers(t)'
    BY <1>3, <1>4, <1>7, <1>8, SamePublished DEF Pointers
  <2>2. Knows(t)'  BY <1>8, <2>1, Searches DEF HasNear, HasFar, Choosing, Updating
  <2> QED  BY <1>1, <1>2, <1>3, <1>8, <2>2, AfterLook
<1>9. CASE nbr[t] \notin retired[t] /\ ~Pushing(t)
  <2>0. BeginStage(t, "boundary", near[t])  BY <1>9 DEF Retire
  <2>1. /\ stage'[t] = "boundary" /\ pc'[t] \in {"confirmEmpty", "casSafe"}
        /\ pc'[t] = "casSafe" => near[t].type \notin EmptyTypes(s, "boundary")
    BY <1>1, <1>9, <2>0, Begins
  <2>2. Snapshots(t)'
    <3>1. /\ near[t].cnt < NearSlot(t).cnt /\ near[t].type # "SEALED"
          /\ far[t].cnt < FarSlot(t).cnt
      BY <1>7 DEF Knows, Snapshots, EdgeChecked
    <3>2. /\ near[t].cnt \in Nat /\ far[t].cnt \in Nat
          /\ NearSlot(t).cnt \in Nat /\ FarSlot(t).cnt \in Nat
      <4>1. FarIdx(t) \in Indices
        BY <1>1, <1>7, Reads, Geometry DEF TypeOK, PlaceOK, FarIdx
      <4> QED  BY <1>1, <4>1, Reads, SlotFields DEF NearSlot, FarSlot
    <3>3. near[t].cnt + 1 <= NearSlot(t).cnt /\ far[t].cnt + 1 <= FarSlot(t).cnt
      BY <3>1, <3>2
    <3> QED
      BY <1>5, <1>6, <2>1, <3>1, <3>3 DEF Snapshots, HasReach, Straddles, Updating
  <2>3. EdgeChecked(t)'
    BY <1>4, <1>5, <1>7, <2>1 DEF Knows, EdgeChecked, Updating
  <2>4. StageChosen(t)'
    BY <1>4, <1>5, <1>7, <1>9, <2>1 DEF Knows, EdgeChecked, StageChosen, Straddles
  <2>5. Appending(t)' /\ NotEmpty(t)'
    BY <1>4, <1>5, <2>1 DEF Appending, NotEmpty
  <2>6. Knows(t)'
    BY <1>3, <1>4, <2>1, <2>2, <2>3, <2>4, <2>5, EdgePointers DEF Knows, Choosing
  <2> QED  BY <1>1, <1>2, <1>3, <2>1, <2>6, AfterLook
<1>10. CASE nbr[t] \in retired[t] \/ Pushing(t)
  <2>1. pc'[t] \in {"loadHint", "fault"} /\ (pc'[t] = "fault" => nbr[t] \in retired[t])
    BY <1>1, <1>10, Locals DEF Retire, Goto
  <2> QED  BY <1>8, <2>1
<1> QED  BY <1>9, <1>10

-----------------------------------------------------------------------------
(* The other threads between their two CASes. *)

\* The type the slot of u's first CAS needs for its second one to be right.
Fits(u, ty) ==
  IF Takes(u) THEN ty = FarType(S(u))
  ELSE stage[u] \in {"interior", "append", "seal"} => ty \notin {FarType(S(u)), "SEALED"}

\* The fields of the targets.
LEMMA TargetFields ==
  ASSUME NEW u \in Threads
  PROVE  /\ Takes(u) =>
              /\ SafeTarget(u).buf = buf[u] /\ SafeTarget(u).idx = FarIdx(u)
              /\ SafeTarget(u).exp = far[u]
              /\ EffectTarget(u).buf = buf[u] /\ EffectTarget(u).idx = idx[u]
              /\ EffectTarget(u).exp = near[u]
         /\ ~Takes(u) =>
              /\ SafeTarget(u).buf = buf[u] /\ SafeTarget(u).idx = idx[u]
              /\ SafeTarget(u).exp = near[u]
         /\ ~Takes(u) /\ stage[u] \in {"straddle", "seal"} =>
              /\ EffectTarget(u).buf = nbr[u] /\ EffectTarget(u).idx = NearValueIndex(S(u))
              /\ EffectTarget(u).exp = reach[u]
         /\ ~Takes(u) /\ stage[u] \notin {"straddle", "seal"} =>
              /\ EffectTarget(u).buf = buf[u] /\ EffectTarget(u).idx = FarIdx(u)
              /\ EffectTarget(u).exp = far[u]
  BY DEF SafeTarget, EffectTarget, NearTarget, FarTarget, ReachTarget, Target

\* While the second CAS can succeed, the slot of the first one has such a type.
LEMMA BusyFits ==
  ASSUME NEW u \in Threads, pc[u] = "casEffect", Holds(EffectTarget(u)), Busy(u)
  PROVE  Fits(u, TypeAt(SafeTarget(u).buf, SafeTarget(u).idx))
  BY TargetFields DEF Busy, Fits, TypeAt, NearSlot, FarSlot

\* A write by t leaves the pair of u sound, if what it writes fits where u has been.
LEMMA BusyWrite ==
  ASSUME ShapeInv, TypeOK', Later, NEW t \in Threads, OthersStay(t), NEW u \in Threads, u # t,
         NEW b \in Buffers, NEW i \in Indices, NEW ty, NEW v, Written(b, i, ty, v),
         pc[u] = "casEffect" /\ Holds(EffectTarget(u))
           /\ SafeTarget(u).buf = b /\ SafeTarget(u).idx = i => Fits(u, ty)
  PROVE  Busy(u)'
<1> SUFFICES ASSUME pc'[u] = "casEffect", Holds(EffectTarget(u))'
             PROVE  /\ Takes(u)' => FarSlot(u)'.type = FarType(S(u))'
                    /\ ~Takes(u)' /\ stage'[u] \in {"interior", "append", "seal"} =>
                         NearSlot(u)'.type \notin {FarType(S(u))', "SEALED"}
  BY DEF Busy
<1>1. TypeOK /\ Knows(u) /\ Busy(u) /\ pc[u] = "casEffect"
  BY SameTargets DEF ShapeInv
<1>2. Holds(EffectTarget(u))  BY <1>1, EffectBack
<1> DEFINE c == SafeTarget(u)
<1>3. c.buf \in Buffers /\ c.idx \in Indices  BY <1>1, Targets
<1>4. Fits(u, slots'[c.buf][c.idx].type)
  <2>1. CASE c.buf = b /\ c.idx = i
    BY <1>1, <1>2, <2>1 DEF Written
  <2>2. CASE ~(c.buf = b /\ c.idx = i)
    <3>1. slots'[c.buf][c.idx] = slots[c.buf][c.idx]  BY <1>3, <2>2 DEF Written
    <3> QED  BY <1>1, <1>2, <3>1, BusyFits DEF TypeAt
  <2> QED  BY <2>1, <2>2
<1>5. /\ Takes(u) => FarSlot(u)' = slots'[c.buf][c.idx]
      /\ ~Takes(u) => NearSlot(u)' = slots'[c.buf][c.idx]
  BY SameTargets, TargetFields DEF FarSlot, NearSlot
<1> HIDE DEF c
<1>6. FarType(S(u))' = FarType(S(u))  BY SameTargets DEF FarType
<1> QED  BY <1>4, <1>5, <1>6, SameTargets DEF Fits

\* Two pairs whose second CASes can both succeed do not cross.
LEMMA Apart ==
  ASSUME ShapeInv, NEW t \in Threads, NEW u \in Threads, t # u,
         pc[t] = "casEffect", pc[u] = "casEffect",
         Holds(EffectTarget(t)), Holds(EffectTarget(u)),
         SafeTarget(u).buf = EffectTarget(t).buf, SafeTarget(u).idx = EffectTarget(t).idx
  PROVE  ~(SafeTarget(t).buf = EffectTarget(u).buf /\ SafeTarget(t).idx = EffectTarget(u).idx)
<1>1. NoCross  BY DEF ShapeInv
<1> QED  BY <1>1 DEF NoCross, Cross, SameSlot

\* What thread u knows between its CASes, while the second one can succeed.
LEMMA Between ==
  ASSUME ShapeInv, NEW u \in Threads, pc[u] = "casEffect", Holds(EffectTarget(u))
  PROVE  /\ S(u) \in Sides /\ idx[u] \in Indices /\ FarIdx(u) \in Indices
         /\ idx[u] # FarLinkIndex(S(u))
         /\ idx[u] = FarValueIndex(S(u)) <=> FarIdx(u) = FarLinkIndex(S(u))
         /\ buf[u] \in Buffers /\ Published(buf[u])
         /\ Takes(u) =>
              /\ NearSlot(u) = near[u] /\ near[u].type = "VALUE"
              /\ FarSlot(u).type = FarType(S(u))
              /\ idx[u] # NearLinkIndex(S(u))
              /\ stage[u] = "boundary" <=> idx[u] = FarValueIndex(S(u))
         /\ ~Takes(u) /\ stage[u] \in {"interior", "append"} =>
              /\ Pushing(u)
              /\ FarSlot(u).type = FarType(S(u))
              /\ NearSlot(u).type \notin {FarType(S(u)), "SEALED"}
              /\ stage[u] = "append" <=> idx[u] = FarValueIndex(S(u))
         /\ ~Takes(u) /\ stage[u] \in Straddles => Crossing(u)
         /\ stage[u] \in {"straddle", "seal"} =>
              ~Takes(u) /\ ReachSlot(u) = reach[u] /\ ReachSlot(u).type = FarType(S(u))
         /\ stage[u] = "seal" =>
              /\ NearSlot(u).type \notin {FarType(S(u)), "SEALED"}
              /\ Mutual(S(u), buf[u], nbr[u])
         /\ stage[u] = "remove" =>
              ~Takes(u) /\ FarSlot(u) = far[u] /\ SealedOff(S(u), buf[u], nbr[u])
<1>1. TypeOK /\ Knows(u) /\ Busy(u)  BY DEF ShapeInv
<1>2. /\ S(u) \in Sides /\ idx[u] \in Indices /\ buf[u] \in Buffers /\ near[u] \in Slots
      /\ stage[u] \in Stages /\ idx[u] # FarLinkIndex(S(u))
  BY <1>1, Reads DEF TypeOK, PlaceOK, AtEdge
<1>3. /\ FarIdx(u) \in Indices
      /\ idx[u] = FarValueIndex(S(u)) <=> FarIdx(u) = FarLinkIndex(S(u))
  BY <1>2, Geometry, Places4 DEF FarIdx
<1>4. Published(buf[u])  BY <1>1 DEF Knows, Pointers
<1>5. near[u].type \in Types  BY <1>2, SlotFields
<1>6. /\ near[u].type # FarType(S(u))
      /\ near[u].type = "SEALED" => idx[u] = FarValueIndex(S(u))
      /\ idx[u] = NearLinkIndex(S(u)) => near[u].type = NearType(S(u))
  BY <1>1 DEF Knows, EdgeChecked, HasFar, Choosing
<1>7. /\ stage[u] = "interior" => idx[u] # FarValueIndex(S(u)) /\ far[u].type = FarType(S(u))
      /\ stage[u] \in {"append", "boundary"} =>
           /\ idx[u] = FarValueIndex(S(u)) /\ far[u].type = FarType(S(u))
           /\ near[u].type # "SEALED"
      /\ stage[u] \in Straddles => Crossing(u)
      /\ stage[u] \in {"append", "straddle"} => Pushing(u)
      /\ stage[u] \in {"boundary", "seal"} => ~Pushing(u)
      /\ stage[u] \in {"straddle", "seal"} => reach[u].type = FarType(S(u))
      /\ stage[u] = "remove" => SealedOff(S(u), buf[u], nbr[u])
  BY <1>1 DEF Knows, StageChosen, Choosing
<1>8. ASSUME Takes(u)
      PROVE  /\ NearSlot(u) = near[u] /\ near[u].type = "VALUE"
             /\ FarSlot(u).type = FarType(S(u))
             /\ idx[u] # NearLinkIndex(S(u))
             /\ stage[u] = "boundary" <=> idx[u] = FarValueIndex(S(u))
  <2>1. NearSlot(u) = near[u]  BY <1>8, TargetFields DEF Holds, NearSlot
  <2>2. FarSlot(u).type = FarType(S(u))  BY <1>1, <1>8 DEF Busy
  <2>3. ~Pushing(u) /\ stage[u] \in {"interior", "boundary"}  BY <1>8 DEF Takes
  <2>4. near[u].type # NearType(S(u))
    <3>1. near[u].cnt \in Nat  BY <1>2, SlotFields
    <3> QED  BY <1>1, <2>1, <2>3, <3>1 DEF Knows, NotEmpty, EmptyTypes
  <2>5. near[u].type = "VALUE"
    <3>1. near[u].type # "SEALED"  BY <1>6, <1>7, <2>3
    <3>2. near[u].type \in {FarType(S(u)), NearType(S(u)), "VALUE", "SEALED"}
      BY <1>2, <1>5, Mirror
    <3> QED  BY <1>6, <2>4, <3>1, <3>2
  <2>6. idx[u] # NearLinkIndex(S(u))
    BY <1>2, <1>6, <2>4
  <2> QED  BY <1>7, <2>1, <2>2, <2>3, <2>5, <2>6
<1>9. ASSUME ~Takes(u), stage[u] \in {"interior", "append"}
      PROVE  /\ Pushing(u)
             /\ FarSlot(u).type = FarType(S(u))
             /\ NearSlot(u).type \notin {FarType(S(u)), "SEALED"}
             /\ stage[u] = "append" <=> idx[u] = FarValueIndex(S(u))
  BY <1>1, <1>7, <1>9, TargetFields DEF Busy, Takes, Holds, FarSlot
<1>10. ASSUME stage[u] \in {"straddle", "seal"}
       PROVE  ~Takes(u) /\ ReachSlot(u) = reach[u] /\ ReachSlot(u).type = FarType(S(u))
  BY <1>7, <1>10, TargetFields DEF Takes, Holds, ReachSlot
<1>11. ASSUME stage[u] = "seal"
       PROVE  /\ NearSlot(u).type \notin {FarType(S(u)), "SEALED"}
              /\ Mutual(S(u), buf[u], nbr[u])
  <2>1. ~Takes(u) /\ ReachSlot(u).type = FarType(S(u))  BY <1>10, <1>11
  <2>2. NearSlot(u).type \notin {FarType(S(u)), "SEALED"}  BY <1>1, <1>11, <2>1 DEF Busy
  <2>3. Crossing(u)  BY <1>7, <1>11 DEF Straddles
  <2> QED
    BY <1>2, <2>1, <2>2, <2>3, Mirror
       DEF Crossing, WereLinked, TypeAt, NearSlot, ReachSlot
<1>12. ASSUME stage[u] = "remove"
       PROVE  ~Takes(u) /\ FarSlot(u) = far[u] /\ SealedOff(S(u), buf[u], nbr[u])
  BY <1>7, <1>12, TargetFields DEF Takes, Holds, FarSlot
<1> QED  BY <1>2, <1>3, <1>4, <1>7, <1>8, <1>9, <1>10, <1>11, <1>12

\* A pop does not take the near link, and no seal lies there: nobody else may be writing
\* the slot next to it from that side.
LEMMA NearTaken ==
  ASSUME ShapeInv, NEW u \in Threads, pc[u] = "casEffect", Holds(EffectTarget(u)), Takes(u)
  PROVE  FarIdx(u) # NearValueIndex(S(u))
<1>1. S(u) \in Sides /\ idx[u] \in Indices /\ idx[u] # NearLinkIndex(S(u))  BY Between
<1> QED  BY <1>1, Places4 DEF FarIdx

\* Where a push fills a slot, no pop relies on its being empty.
LEMMA FillFits ==
  ASSUME ShapeInv, NEW t \in Threads, NEW u \in Threads, t # u,
         pc[t] = "casEffect", pc[u] = "casEffect",
         Holds(EffectTarget(t)), Holds(EffectTarget(u)),
         SafeTarget(u).buf = EffectTarget(t).buf, SafeTarget(u).idx = EffectTarget(t).idx,
         Pushing(t), stage[t] \in {"interior", "append", "straddle"}
  PROVE  Fits(u, "VALUE")
<1>1. S(t) \in Sides /\ S(u) \in Sides  BY Between
<1>2. CASE ~Takes(u)  BY <1>1, <1>2, Mirror DEF Fits
<1>3. ASSUME Takes(u) PROVE FALSE
  <2>1. FarSlot(u).type = FarType(S(u)) /\ buf[u] = EffectTarget(t).buf
        /\ FarIdx(u) = EffectTarget(t).idx
    BY <1>3, Between, TargetFields
  <2>2. ~Takes(t)  BY DEF Takes
  <2>3. CASE stage[t] \in {"interior", "append"}
    <3>1. FarSlot(t).type = FarType(S(t)) /\ EffectTarget(t).buf = buf[t]
          /\ EffectTarget(t).idx = FarIdx(t)
      BY <2>2, <2>3, Between, TargetFields
    <3>2. S(u) = S(t)  BY <2>1, <3>1 DEF FarSlot, FarType
    <3>3. idx[u] = idx[t]
      <4>1. idx[u] \in Indices /\ idx[t] \in Indices  BY Between
      <4>2. idx[u] + FarDirection(S(t)) = idx[t] + FarDirection(S(t))
        BY <2>1, <3>1, <3>2 DEF FarIdx
      <4> QED  BY <1>1, <4>1, <4>2, Places4
    <3> QED  BY <1>3, <2>1, <2>2, <3>1, <3>3, Apart, TargetFields
  <2>4. CASE stage[t] = "straddle"
    <3>1. ReachSlot(t).type = FarType(S(t)) /\ EffectTarget(t).buf = nbr[t]
          /\ EffectTarget(t).idx = NearValueIndex(S(t))
      BY <2>2, <2>4, Between, TargetFields
    <3>2. S(u) = S(t)  BY <2>1, <3>1 DEF FarSlot, ReachSlot, FarType
    <3> QED  BY <1>3, <2>1, <3>1, <3>2, NearTaken
  <2> QED  BY <2>3, <2>4
<1> QED  BY <1>2, <1>3

\* Where a pop empties a slot, no other pair of its side relies on its value.
LEMMA TakeFits ==
  ASSUME ShapeInv, NEW t \in Threads, NEW u \in Threads, t # u,
         pc[t] = "casEffect", pc[u] = "casEffect",
         Holds(EffectTarget(t)), Holds(EffectTarget(u)),
         SafeTarget(u).buf = EffectTarget(t).buf, SafeTarget(u).idx = EffectTarget(t).idx,
         Takes(t)
  PROVE  Fits(u, FarType(S(t)))
<1>1. S(t) \in Sides /\ S(u) \in Sides /\ idx[t] \in Indices /\ idx[u] \in Indices  BY Between
<1>2. NearSlot(t).type = "VALUE" /\ FarSlot(t).type = FarType(S(t))
      /\ EffectTarget(t).buf = buf[t] /\ EffectTarget(t).idx = idx[t]
      /\ SafeTarget(t).buf = buf[t] /\ SafeTarget(t).idx = FarIdx(t)
  BY Between, TargetFields
<1>3. CASE Takes(u)
  <2>1. FarSlot(u).type = FarType(S(u)) /\ buf[u] = buf[t] /\ FarIdx(u) = idx[t]
    BY <1>2, <1>3, Between, TargetFields
  <2> QED  BY <1>1, <1>2, <2>1, Mirror DEF FarSlot, NearSlot
<1>4. CASE ~Takes(u)
  <2>1. buf[u] = buf[t] /\ idx[u] = idx[t]  BY <1>2, <1>4, TargetFields
  <2>2. SUFFICES ASSUME stage[u] \in {"interior", "append", "seal"}, S(u) = S(t) PROVE FALSE
    BY <1>1, <1>4, Mirror DEF Fits, FarType
  <2>3. FarIdx(u) = FarIdx(t)  BY <2>1, <2>2 DEF FarIdx
  <2>4. CASE stage[u] \in {"interior", "append"}
    BY <1>2, <1>4, <2>1, <2>3, <2>4, Apart, TargetFields
  <2>5. CASE stage[u] = "seal"
    <3>1. LinksTo(buf[u], FarLinkIndex(S(u)), nbr[u])
      BY <2>5, Between DEF Mutual
    <3>2. idx[u] = FarValueIndex(S(u))
      BY <1>4, <2>5, Between DEF Straddles, Crossing
    <3>3. FarIdx(u) = FarLinkIndex(S(u))  BY <3>2, Between
    <3>4. FarSlot(t).type = "VALUE"
      BY <2>1, <2>3, <3>1, <3>3 DEF LinksTo, FarSlot
    <3> QED  BY <1>1, <1>2, <3>4, Mirror
  <2> QED  BY <2>2, <2>4, <2>5
<1> QED  BY <1>3, <1>4

\* Where a pop seals a slot, no pair relies on its being open.
LEMMA SealFits ==
  ASSUME ShapeInv, NEW t \in Threads, NEW u \in Threads, t # u,
         pc[t] = "casEffect", pc[u] = "casEffect",
         Holds(EffectTarget(t)), Holds(EffectTarget(u)),
         SafeTarget(u).buf = EffectTarget(t).buf, SafeTarget(u).idx = EffectTarget(t).idx,
         stage[t] = "seal"
  PROVE  Fits(u, "SEALED")
<1>1. S(t) \in Sides /\ S(u) \in Sides /\ idx[t] \in Indices /\ idx[u] \in Indices  BY Between
<1>2. /\ ~Takes(t) /\ ReachSlot(t).type = FarType(S(t)) /\ Mutual(S(t), buf[t], nbr[t])
      /\ Crossing(t)
  BY Between DEF Straddles
<1>3. /\ EffectTarget(t).buf = nbr[t] /\ EffectTarget(t).idx = NearValueIndex(S(t))
      /\ SafeTarget(t).buf = buf[t] /\ SafeTarget(t).idx = idx[t]
      /\ idx[t] = FarValueIndex(S(t))
  BY <1>2, TargetFields DEF Crossing
<1>4. CASE Takes(u)
  <2>1. FarSlot(u).type = FarType(S(u)) /\ buf[u] = nbr[t] /\ FarIdx(u) = NearValueIndex(S(t))
    BY <1>3, <1>4, Between, TargetFields
  <2>2. S(u) = S(t)  BY <1>2, <2>1 DEF FarSlot, ReachSlot, FarType
  <2> QED  BY <1>4, <2>1, <2>2, NearTaken
<1>5. CASE ~Takes(u)
  <2>1. buf[u] = nbr[t] /\ idx[u] = NearValueIndex(S(t))  BY <1>3, <1>5, TargetFields
  <2>2. SUFFICES ASSUME stage[u] \in {"interior", "append", "seal"} PROVE FALSE
    BY <1>5 DEF Fits
  <2>3. S(u) = Opposite(S(t))
    <3>1. NearSlot(u).type # FarType(S(u))  BY <1>5, <2>2, Between
    <3>2. S(u) # S(t)  BY <1>2, <2>1, <3>1 DEF NearSlot, ReachSlot
    <3> QED  BY <1>1, <3>2, Mirror
  <2>4. /\ FarLinkIndex(S(u)) = NearLinkIndex(S(t)) /\ FarValueIndex(S(u)) = NearValueIndex(S(t))
        /\ NearValueIndex(S(u)) = FarValueIndex(S(t))
    BY <1>1, <2>3, Mirror
  <2>5. LinksTo(buf[u], FarLinkIndex(S(u)), buf[t])
    BY <1>2, <2>1, <2>4 DEF Mutual
  <2>6. idx[u] = FarValueIndex(S(u)) /\ FarIdx(u) = FarLinkIndex(S(u))
    BY <2>1, <2>4, Between
  <2>7. CASE stage[u] \in {"interior", "append"}
    <3>1. FarSlot(u).type = FarType(S(u))  BY <1>5, <2>7, Between
    <3> QED  BY <1>1, <2>5, <2>6, <3>1, Mirror DEF LinksTo, FarSlot
  <2>8. CASE stage[u] = "seal"
    <3>1. LinksTo(buf[u], FarLinkIndex(S(u)), nbr[u])
      BY <2>8, Between DEF Mutual
    <3>2. nbr[u] = buf[t]  BY <2>5, <3>1 DEF LinksTo
    <3>3. EffectTarget(u).buf = nbr[u] /\ EffectTarget(u).idx = NearValueIndex(S(u))
      BY <1>5, <2>8, TargetFields
    <3> QED  BY <1>3, <2>4, <3>2, <3>3, Apart
  <2> QED  BY <2>2, <2>7, <2>8
<1> QED  BY <1>4, <1>5

\* Where a link is cut, only pairs of the other side are at work.
LEMMA RemoveFits ==
  ASSUME ShapeInv, NEW t \in Threads, NEW u \in Threads, t # u,
         pc[t] = "casEffect", pc[u] = "casEffect",
         Holds(EffectTarget(t)), Holds(EffectTarget(u)),
         SafeTarget(u).buf = EffectTarget(t).buf, SafeTarget(u).idx = EffectTarget(t).idx,
         stage[t] = "remove"
  PROVE  Fits(u, FarType(S(t)))
<1>1. S(t) \in Sides /\ S(u) \in Sides  BY Between
<1>2. ~Takes(t) /\ FarSlot(t) = far[t] /\ Crossing(t)  BY Between DEF Straddles
<1>3. /\ EffectTarget(t).buf = buf[t] /\ EffectTarget(t).idx = FarIdx(t)
      /\ far[t].type = "VALUE" /\ FarIdx(t) = FarLinkIndex(S(t))
  BY <1>2, TargetFields, Between DEF Crossing
<1>4. CASE Takes(u)
  <2>1. FarSlot(u).type = FarType(S(u)) /\ buf[u] = buf[t] /\ FarIdx(u) = FarIdx(t)
    BY <1>3, <1>4, Between, TargetFields
  <2>2. FarSlot(u) = far[t]  BY <1>2, <2>1 DEF FarSlot
  <2>3. FarType(S(u)) # "VALUE"  BY <1>1, Mirror
  <2> QED  BY <1>3, <2>1, <2>2, <2>3
<1>5. CASE ~Takes(u)
  <2>1. idx[u] = FarLinkIndex(S(t))  BY <1>3, <1>5, TargetFields
  <2>2. S(u) # S(t)  BY <2>1, Between
  <2> QED  BY <1>1, <1>5, <2>2, Mirror DEF Fits, FarType
<1> QED  BY <1>4, <1>5

-----------------------------------------------------------------------------
(* The steps that write slots. *)

\* What the CAS of thread t writes.
LEMMA EffectWrites ==
  ASSUME TypeOK, NEW t \in Threads, pc[t] \in {"casSafe", "casEffect"},
         NEW c \in {SafeTarget(t), EffectTarget(t)}, Holds(c), NEW ty, NEW v, Swing(c, ty, v)
  PROVE  c.buf \in Buffers /\ c.idx \in Indices /\ Written(c.buf, c.idx, ty, v)
<1>1. c.buf \in Buffers /\ c.idx \in Indices  BY CasTypes
<1> QED  BY <1>1, SwingWrites

\* The cached buffers of the others are not the one that is written to.
LEMMA CachedKept ==
  ASSUME TypeOK, TypeOK', NEW b, Published(b), NEW i, NEW ty, NEW v, Written(b, i, ty, v),
         NEW u \in Threads, NEW s \in Sides, cache[u][s] \in Buffers
  PROVE  slots'[cache[u][s]] = slots[cache[u][s]]
<1> DEFINE x == cache[u][s]
<1>1. x # b  BY DEF Published, Private
<1>2. slots[x] \in [Indices -> Slots] /\ slots'[x] \in [Indices -> Slots]
  BY DEF TypeOK, VarTypes
<1>3. \A j \in Indices : slots'[x][j] = slots[x][j]  BY <1>1 DEF Written
<1> HIDE DEF x
<1>4. slots'[x] = slots[x]  BY <1>2, <1>3
<1> QED  BY <1>4 DEF x

\* A push fills the slot beyond its edge.
LEMMA PushValueShape ==
  ASSUME ShapeInv, NEW t \in Threads, PushValue(t)
  PROVE  ShapeInv'
<1> DEFINE s == S(t)
           c == EffectTarget(t)
           b == c.buf
           i == c.idx
<1>1. /\ TypeOK /\ TypeOK' /\ Chained /\ Profiles
      /\ pc[t] = "casEffect" /\ Holds(c) /\ Pushing(t)
      /\ stage[t] \in {"interior", "straddle"}
  BY PushValueTypes DEF ShapeInv, PushValue, EffectOf, Chained
<1>2. SameOwners /\ chain' = chain /\ globalHint' = globalHint
  BY DEF PushValue, SameOwners
<1>3. b \in Buffers /\ i \in Indices /\ Written(b, i, "VALUE", op[t].val)
  BY <1>1, EffectWrites DEF PushValue
<1>4. Published(b)  BY <1>1, Targets DEF ShapeInv
<1>5. ~Takes(t) /\ s \in Sides  BY <1>1, Between DEF Takes
<1>6. /\ i \notin {FarLinkIndex(s), NearLinkIndex(s)}
      /\ TypeAt(b, i) = FarType(s) /\ TypeAt(b, NearValueIndex(s)) # "SEALED"
      /\ \E j \in Indices : i = j + FarDirection(s) /\ TypeAt(b, j) # FarType(s)
  <2>1. CASE stage[t] = "interior"
    <3> DEFINE j == idx[t]
    <3>1. b = buf[t] /\ i = FarIdx(t) /\ j \in Indices /\ i = j + FarDirection(s)
      BY <1>5, <2>1, TargetFields, <1>1, Between DEF FarIdx
    <3>2. /\ FarSlot(t).type = FarType(s) /\ NearSlot(t).type \notin {FarType(s), "SEALED"}
          /\ i # FarLinkIndex(s) /\ j # FarLinkIndex(s)
      BY <1>1, <1>5, <2>1, <3>1, Between
    <3>3. TypeAt(b, i) = FarType(s) /\ TypeAt(b, j) \notin {FarType(s), "SEALED"}
      BY <3>1, <3>2 DEF TypeAt, FarSlot, NearSlot
    <3>4. i # NearLinkIndex(s)  BY <1>5, <3>1, Places4
    <3>5. TypeAt(b, NearValueIndex(s)) # "SEALED"
      <4> SUFFICES ASSUME TypeAt(b, NearValueIndex(s)) = "SEALED" PROVE FALSE
        OBVIOUS
      <4>1. j \in {NearLinkIndex(s), NearValueIndex(s)}
        BY <1>1, <1>4, <1>5, <3>1, <3>3, Looks
      <4>2. j = NearLinkIndex(s)  BY <3>3, <4>1
      <4>3. i = NearValueIndex(s)
        BY <1>5, <3>1, <4>2, OFDequeAssumption
           DEF Sides, FarDirection, NearLinkIndex, NearValueIndex, LastIndex, Indices
      <4> QED  BY <1>5, <3>3, <4>3, Mirror
    <3> QED  BY <3>1, <3>2, <3>3, <3>4, <3>5
  <2>2. CASE stage[t] = "straddle"
    <3> DEFINE j == NearLinkIndex(s)
    <3>1. b = nbr[t] /\ i = NearValueIndex(s)  BY <1>5, <2>2, TargetFields
    <3>2. ReachSlot(t).type = FarType(s)  BY <1>1, <2>2, Between
    <3>3. TypeAt(b, i) = FarType(s)  BY <3>1, <3>2 DEF TypeAt, ReachSlot
    <3>4. j \in Indices /\ i = j + FarDirection(s)
      BY <1>5, <3>1, Geometry, OFDequeAssumption
         DEF Sides, FarDirection, NearLinkIndex, NearValueIndex, LastIndex
    <3>5. TypeAt(b, j) # FarType(s)
      BY <1>1, <1>4, <1>5, Looks, Mirror
    <3>6. TypeAt(b, NearValueIndex(s)) # "SEALED"  BY <1>5, <3>1, <3>3, Mirror
    <3> QED  BY <1>5, <3>1, <3>3, <3>4, <3>5, <3>6, Places4
  <2> QED  BY <1>1, <2>1, <2>2
<1>7. OthersStay(t)
  BY <1>1, <1>3, <1>4, CachedKept DEF PushValue, OthersStay, Goto, edge, snaps
<1> HIDE DEF s, c, b, i
<1>8. Chained'
  <2>1. PICK j \in Indices : i = j + FarDirection(s) /\ TypeAt(b, j) # FarType(s)
    BY <1>6
  <2> QED  BY <1>1, <1>2, <1>3, <1>4, <1>5, <1>6, <2>1, FillChained
<1>9. Later
  BY <1>1, <1>2, <1>3, <1>5, <1>6, LaterWrite, SamePublished, Mirror
     DEF Sides, FarLinkIndex, NearLinkIndex
<1>10. ASSUME NEW u \in Threads \ {t} PROVE Busy(u)'
  <2>1. pc[u] = "casEffect" /\ Holds(EffectTarget(u))
          /\ SafeTarget(u).buf = b /\ SafeTarget(u).idx = i => Fits(u, "VALUE")
    BY <1>1, FillFits DEF c, b, i
  <2> QED  BY <1>1, <1>3, <1>7, <1>9, <2>1, BusyWrite
<1>11. pc'[t] \in {"bumpLocal", "bumpGlobal"} /\ (pc'[t] = "bumpGlobal" => stage[t] = "straddle")
  BY <1>1, Locals DEF PushValue, Goto
<1>12. Pointers(t)'
  <2>1. stage[t] = "straddle" => Published(nbr[t])
    BY <1>1, <1>5, Between DEF Straddles, Crossing, c
  <2>2. hint'[t] = hint[t] /\ buf'[t] = buf[t] /\ upd'[t] = upd[t] /\ nbr'[t] = nbr[t]
    BY DEF PushValue, edge
  <2> QED
    BY <1>2, <1>11, <2>1, <2>2, SamePublished DEF Pointers, ShapeInv, Knows
<1>13. Knows(t)'  BY <1>11, <1>12, Searches DEF HasNear, HasFar, Choosing, Updating
<1>14. HintsLead'  BY <1>2, SamePublished DEF HintsLead, ShapeInv
<1> QED  BY <1>1, <1>7, <1>8, <1>9, <1>10, <1>11, <1>13, <1>14, AfterStep

\* A pop empties the slot inside its edge.
LEMMA TakeValueShape ==
  ASSUME ShapeInv, NEW t \in Threads, TakeValue(t)
  PROVE  ShapeInv'
<1> DEFINE s == S(t)
           c == EffectTarget(t)
           b == c.buf
           i == c.idx
<1>1. /\ TypeOK /\ TypeOK' /\ Chained /\ Profiles
      /\ pc[t] = "casEffect" /\ Holds(c) /\ Takes(t)
  BY TakeValueTypes DEF ShapeInv, TakeValue, EffectOf, Chained
<1>2. SameOwners /\ chain' = chain /\ globalHint' = globalHint
  BY DEF TakeValue, SameOwners
<1>3. b \in Buffers /\ i \in Indices /\ Written(b, i, FarType(s), Garbage)
  BY <1>1, EffectWrites DEF TakeValue
<1>4. Published(b)  BY <1>1, Targets DEF ShapeInv
<1>5. /\ s \in Sides /\ b = buf[t] /\ i = idx[t]
      /\ i \notin {FarLinkIndex(s), NearLinkIndex(s)}
      /\ NearSlot(t).type = "VALUE" /\ FarSlot(t).type = FarType(s)
  BY <1>1, Between, TargetFields
<1>6. TypeAt(b, i) = "VALUE" /\ TypeAt(b, i + FarDirection(s)) = FarType(s)
  BY <1>5 DEF TypeAt, NearSlot, FarSlot, FarIdx
<1>7. OthersStay(t)
  BY <1>1, <1>3, <1>4, CachedKept DEF TakeValue, OthersStay, Goto, edge, snaps
<1> HIDE DEF s, c, b, i
<1>8. Chained'
  BY <1>1, <1>2, <1>3, <1>4, <1>5, <1>6, TakeChained
<1>9. Later
  <2>1. i \notin {0, LastIndex}  BY <1>5 DEF Sides, FarLinkIndex, NearLinkIndex
  <2> QED  BY <1>1, <1>2, <1>3, <1>6, <2>1, LaterWrite, SamePublished
<1>10. ASSUME NEW u \in Threads \ {t} PROVE Busy(u)'
  <2>1. pc[u] = "casEffect" /\ Holds(EffectTarget(u))
          /\ SafeTarget(u).buf = b /\ SafeTarget(u).idx = i => Fits(u, FarType(s))
    BY <1>1, TakeFits DEF c, b, i, s
  <2> QED  BY <1>1, <1>3, <1>7, <1>9, <2>1, BusyWrite
<1>11. pc'[t] \in {"bumpLocal", "bumpGlobal"}
  BY <1>1, Locals DEF TakeValue, Goto
<1>12. Pointers(t)'
  <2>1. /\ hint'[t] = hint[t] /\ buf'[t] = buf[t] /\ upd'[t] = upd[t]
        /\ ~Pushing(t) /\ Pushing(t)' = Pushing(t)
    BY <1>1 DEF TakeValue, edge, Pushing, Takes
  <2> QED  BY <1>2, <1>11, <2>1, SamePublished DEF Pointers, ShapeInv, Knows
<1>13. Knows(t)'  BY <1>11, <1>12, Searches DEF HasNear, HasFar, Choosing, Updating
<1>14. HintsLead'  BY <1>2, SamePublished DEF HintsLead, ShapeInv
<1> QED  BY <1>1, <1>7, <1>8, <1>9, <1>10, <1>11, <1>13, <1>14, AfterStep

\* An append links the buffer from the cache.
LEMMA PushBufferShape ==
  ASSUME ShapeInv, NEW t \in Threads, PushBuffer(t)
  PROVE  ShapeInv'
<1> DEFINE s == S(t)
           c == EffectTarget(t)
           b == buf[t]
           n == nbr[t]
           i == FarLinkIndex(s)
<1>1. /\ TypeOK /\ TypeOK' /\ Chained /\ Pushing(t) /\ stage[t] = "append"
      /\ pc[t] = "casEffect" /\ Holds(c)
  BY PushBufferTypes DEF ShapeInv, PushBuffer, EffectOf, Chained
<1>2. /\ pool' = pool /\ cache' = [cache EXCEPT ![t][s] = Null]
      /\ globalHint' = globalHint /\ chain' = AtEnd(s, n, chain)
  BY DEF PushBuffer
<1>3. /\ ~Takes(t) /\ s \in Sides /\ Published(b) /\ b \in Buffers
      /\ idx[t] = FarValueIndex(s) /\ FarIdx(t) = i
      /\ FarSlot(t).type = FarType(s) /\ NearSlot(t).type \notin {FarType(s), "SEALED"}
  BY <1>1, Between DEF Takes
<1>4. c.buf = b /\ c.idx = i  BY <1>1, <1>3, TargetFields
<1>5. i \in Indices /\ Written(b, i, "VALUE", n)
  BY <1>1, <1>4, EffectWrites DEF PushBuffer
<1>6. TypeAt(b, i) = FarType(s) /\ TypeAt(b, FarValueIndex(s)) \notin {FarType(s), "SEALED"}
  BY <1>3 DEF TypeAt, FarSlot, NearSlot
<1>7. n \in Buffers /\ cache[t][s] = n /\ slots[n][NearLinkIndex(s)].val = b
  BY <1>1 DEF ShapeInv, Knows, Appending
<1>8. Uncaches(t, s)  BY <1>2 DEF Uncaches
<1>9. OthersStay(t)
  <2>1. \A u \in Threads \ {t}, r \in Sides : cache'[u][r] = cache[u][r]
    BY <1>1, <1>2 DEF TypeOK, VarTypes
  <2> QED
    BY <1>1, <1>3, <1>5, <2>1, CachedKept DEF PushBuffer, OthersStay, Goto, edge, snaps
<1> HIDE DEF s, c, b, n, i
<1>10. \A x : Published(x)' <=> Published(x) \/ x = n
  BY <1>1, <1>3, <1>6, <1>7, <1>8, AppendSetting DEF i
<1>11. Chained'
  BY <1>1, <1>2, <1>3, <1>5, <1>6, <1>7, <1>8, AppendChained DEF i
<1>12. Later
  BY <1>1, <1>3, <1>5, <1>6, <1>10, LaterWrite, Mirror
<1>13. ASSUME NEW u \in Threads \ {t} PROVE Busy(u)'
  <2>1. pc[u] = "casEffect" /\ Holds(EffectTarget(u))
          /\ SafeTarget(u).buf = b /\ SafeTarget(u).idx = i => Fits(u, "VALUE")
    BY <1>1, <1>4, FillFits DEF c
  <2> QED  BY <1>1, <1>3, <1>5, <1>9, <1>12, <2>1, BusyWrite
<1>14. pc'[t] = "bumpGlobal"  BY <1>1, Locals DEF PushBuffer, Goto
<1>15. Pointers(t)'
  <2>1. hint'[t] = hint[t] /\ buf'[t] = buf[t] /\ upd'[t] = upd[t] /\ nbr'[t] = nbr[t]
    BY DEF PushBuffer, edge
  <2>2. Published(nbr[t])'  BY <1>10, <2>1 DEF n
  <2> QED  BY <1>10, <1>14, <2>1, <2>2 DEF Pointers, ShapeInv, Knows
<1>16. Knows(t)'  BY <1>14, <1>15, Searches DEF HasNear, HasFar, Choosing, Updating
<1>17. HintsLead'  BY <1>2, <1>10 DEF HintsLead, ShapeInv
<1> QED  BY <1>1, <1>9, <1>11, <1>12, <1>13, <1>14, <1>16, <1>17, AfterStep

\* A pop seals the empty neighbor.
LEMMA SealNeighborShape ==
  ASSUME ShapeInv, NEW t \in Threads, SealNeighbor(t)
  PROVE  ShapeInv'
<1> DEFINE s == S(t)
           c == EffectTarget(t)
           b == buf[t]
           x == nbr[t]
           i == NearValueIndex(s)
<1>1. /\ TypeOK /\ TypeOK' /\ Chained /\ stage[t] = "seal"
      /\ pc[t] = "casEffect" /\ Holds(c) /\ Knows(t)
  BY SealNeighborTypes DEF ShapeInv, SealNeighbor, EffectOf, Chained
<1>2. SameOwners /\ chain' = chain /\ globalHint' = globalHint
  BY DEF SealNeighbor, SameOwners
<1>3. /\ ~Takes(t) /\ s \in Sides /\ Published(b) /\ b \in Buffers
      /\ NearSlot(t).type \notin {FarType(s), "SEALED"} /\ Mutual(s, b, x)
      /\ ReachSlot(t) = reach[t] /\ reach[t].type = FarType(s) /\ Crossing(t)
      /\ idx[t] \in Indices /\ FarIdx(t) \in Indices
  BY <1>1, Between DEF Straddles
<1>4. c.buf = x /\ c.idx = i /\ c.exp = reach[t]
  BY <1>1, <1>3, TargetFields
<1>5. x \in Buffers /\ i \in Indices /\ Written(x, i, "SEALED", Garbage)
  BY <1>1, <1>4, EffectWrites DEF SealNeighbor
<1>6. /\ Published(x) /\ idx[t] = FarValueIndex(s) /\ TypeAt(x, i) = FarType(s)
      /\ TypeAt(b, FarValueIndex(s)) # "SEALED"
  BY <1>3 DEF Crossing, TypeAt, ReachSlot, NearSlot
<1>7. OthersStay(t)
  <2>1. \A u \in Threads \ {t} : pc'[u] = pc[u] /\ near'[u] = near[u] /\ reach'[u] = reach[u]
                                 /\ stage'[u] = stage[u]
    BY <1>1, Locals DEF SealNeighbor, BeginStage, Goto
  <2> QED  BY <1>1, <1>5, <1>6, <2>1, CachedKept DEF SealNeighbor, OthersStay, edge
<1>8. /\ near'[t] = Bumped(near[t]) /\ far'[t] = far[t] /\ op'[t] = op[t]
      /\ reach'[t] = [Bumped(reach[t]) EXCEPT !.type = "SEALED"]
      /\ hint'[t] = hint[t] /\ buf'[t] = b /\ upd'[t] = upd[t] /\ nbr'[t] = x /\ idx'[t] = idx[t]
      /\ S(t)' = s /\ Pushing(t)' = Pushing(t) /\ FarIdx(t)' = FarIdx(t)
  BY <1>1, Locals DEF SealNeighbor, edge, S, Pushing, FarIdx
<1>9. ~Pushing(t) /\ BeginStage(t, "remove", near[t])
  BY <1>1 DEF SealNeighbor, Knows, StageChosen, Choosing
<1>10. NearSlot(t)' = slots'[b][idx[t]] /\ FarSlot(t)' = slots'[b][FarIdx(t)]
       /\ ReachSlot(t)' = slots'[x][i]
  BY <1>8 DEF NearSlot, FarSlot, ReachSlot
<1> HIDE DEF s, c, b, x, i
<1>11. Chained'
  BY <1>1, <1>2, <1>3, <1>5, <1>6, SealChained DEF i
<1>12. Later
  <2>1. i \notin {0, LastIndex}
    BY <1>3, OFDequeAssumption DEF i, Sides, NearValueIndex, LastIndex
  <2> QED  BY <1>1, <1>2, <1>5, <2>1, LaterWrite, SamePublished
<1>13. ASSUME NEW u \in Threads \ {t} PROVE Busy(u)'
  <2>1. pc[u] = "casEffect" /\ Holds(EffectTarget(u))
          /\ SafeTarget(u).buf = x /\ SafeTarget(u).idx = i => Fits(u, "SEALED")
    BY <1>1, <1>4, SealFits DEF c
  <2> QED  BY <1>1, <1>5, <1>7, <1>12, <2>1, BusyWrite
<1>14. /\ stage'[t] = "remove" /\ pc'[t] \in {"confirmEmpty", "casSafe"}
       /\ pc'[t] = "casSafe" => near[t].type \notin EmptyTypes(s, "remove")
  BY <1>1, <1>9, Begins DEF s
<1>15. /\ near'[t].type = near[t].type /\ near'[t].cnt = near[t].cnt + 1
       /\ reach'[t].type = "SEALED" /\ reach'[t].cnt = reach[t].cnt + 1
  BY <1>1, <1>8, Reads DEF Bumped, Slots
<1>16. Snapshots(t)'
  <2>1. near[t].cnt < NearSlot(t).cnt /\ far[t].cnt <= FarSlot(t).cnt
        /\ (near[t].type = "SEALED" => NearSlot(t).type = "SEALED")
    BY <1>1, <1>3 DEF Knows, Snapshots, HasNear, HasFar, Choosing
  <2>2. near[t].cnt \in Nat /\ far[t].cnt \in Nat  BY <1>1, Reads, SlotFields
  <2>3. /\ NearSlot(t).cnt \in Nat /\ FarSlot(t).cnt \in Nat
        /\ NearSlot(t)'.cnt \in Nat /\ FarSlot(t)'.cnt \in Nat
        /\ NearSlot(t).cnt <= NearSlot(t)'.cnt /\ FarSlot(t).cnt <= FarSlot(t)'.cnt
        /\ NearSlot(t).type = "SEALED" => NearSlot(t)'.type = "SEALED"
    BY <1>1, <1>3, <1>10, <1>12, Ages DEF NearSlot, FarSlot, TypeAt, b
  <2>4. ReachSlot(t)'.type = "SEALED" /\ ReachSlot(t)'.cnt = reach[t].cnt + 1
    BY <1>3, <1>5, <1>10 DEF Written, ReachSlot, x, i, s
  <2>5. near[t].cnt + 1 <= NearSlot(t)'.cnt /\ far[t].cnt <= FarSlot(t)'.cnt
        /\ reach[t].cnt + 1 <= reach[t].cnt + 1
    <3>1. reach[t].cnt \in Nat  BY <1>1, Reads, SlotFields
    <3> QED  BY <2>1, <2>2, <2>3, <3>1
  <2> QED
    BY <1>8, <1>14, <1>15, <2>1, <2>3, <2>4, <2>5 DEF Snapshots, Updating
<1>17. Crossing(t)'
  <2>1. Published(nbr[t])'  BY <1>2, <1>6, <1>8, SamePublished
  <2>2. WereLinked(s, b, x)  BY <1>3 DEF WereLinked
  <2>3. WereLinked(S(t), buf[t], nbr[t])'
    <3>1. slots'[x][i].type = "SEALED"  BY <1>5 DEF Written
    <3> QED  BY <1>8, <3>1 DEF WereLinked, TypeAt, i
  <2>4. /\ idx[t] = FarValueIndex(s) /\ far[t].type = "VALUE" /\ far[t].val = nbr[t]
    BY <1>3 DEF Crossing, s
  <2> QED  BY <1>8, <2>1, <2>3, <2>4 DEF Crossing, x
<1>18. SealedOff(S(t), buf[t], nbr[t])'
  <2>1. slots'[x][i].type = "SEALED"  BY <1>5 DEF Written
  <2>2. LinksTo(x, NearLinkIndex(s), b)  BY <1>3 DEF Mutual
  <2>3. NearLinkIndex(s) \in Indices /\ NearLinkIndex(s) # i
    BY <1>3, Geometry, Places4 DEF i
  <2>4. slots'[x][NearLinkIndex(s)] = slots[x][NearLinkIndex(s)]
    BY <1>5, <2>3 DEF Written
  <2> QED  BY <1>8, <2>1, <2>2, <2>4 DEF SealedOff, LinksTo, TypeAt, i
<1>19. EdgeChecked(t)'
  BY <1>1, <1>8, <1>14, <1>15
     DEF Knows, EdgeChecked, HasFar, Choosing, Updating, s
<1>20. StageChosen(t)'
  BY <1>8, <1>9, <1>14, <1>17, <1>18 DEF StageChosen, Straddles
<1>21. Appending(t)' /\ NotEmpty(t)'
  BY <1>8, <1>14, <1>15 DEF Appending, NotEmpty
<1>22. Pointers(t)' /\ SealReads(t)'
  <2>1. Pointers(t)'
    BY <1>1, <1>2, <1>8, <1>14, SamePublished DEF Pointers, Knows, b
  <2> QED  BY <1>14, <2>1 DEF SealReads
<1>23. Knows(t)'  BY <1>16, <1>19, <1>20, <1>21, <1>22 DEF Knows
<1>24. HintsLead'  BY <1>2, SamePublished DEF HintsLead, ShapeInv
<1> QED  BY <1>1, <1>7, <1>11, <1>12, <1>13, <1>14, <1>23, <1>24, AfterStep

\* The sealed neighbor is unlinked.
LEMMA RemoveNeighborShape ==
  ASSUME ShapeInv, NEW t \in Threads, RemoveNeighbor(t)
  PROVE  ShapeInv'
<1> DEFINE s == S(t)
           c == EffectTarget(t)
           b == buf[t]
           x == nbr[t]
           i == FarLinkIndex(s)
<1>1. /\ TypeOK /\ TypeOK' /\ Chained /\ stage[t] = "remove"
      /\ pc[t] = "casEffect" /\ Holds(c) /\ Knows(t)
  BY RemoveNeighborTypes DEF ShapeInv, RemoveNeighbor, EffectOf, Chained
<1>2. SameOwners /\ chain' = WithoutEnd(s, chain) /\ globalHint' = globalHint
  BY DEF RemoveNeighbor, SameOwners
<1>3. /\ ~Takes(t) /\ s \in Sides /\ Published(b) /\ b \in Buffers
      /\ FarSlot(t) = far[t] /\ SealedOff(s, b, x) /\ Crossing(t)
      /\ idx[t] \in Indices /\ FarIdx(t) = i
  <2>1. Crossing(t) /\ ~Takes(t)  BY <1>1, Between DEF Straddles
  <2> QED  BY <1>1, <2>1, Between DEF Crossing
<1>4. c.buf = b /\ c.idx = i /\ c.exp = far[t]
  BY <1>1, <1>3, TargetFields
<1>5. PICK w \in Buffers \cup {Garbage} : Swing(c, FarType(s), w)
  BY DEF RemoveNeighbor
<1>6. i \in Indices /\ Written(b, i, FarType(s), w)
  BY <1>1, <1>4, <1>5, EffectWrites
<1>7. /\ Published(x) /\ idx[t] = FarValueIndex(s) /\ LinksTo(b, i, x)
      /\ TypeAt(b, i) = "VALUE"
  BY <1>3 DEF Crossing, TypeAt, FarSlot, LinksTo
<1>8. OthersStay(t)
  <2>1. \A u \in Threads \ {t} : pc'[u] = pc[u] /\ upd'[u] = upd[u]
    BY <1>1, Locals DEF RemoveNeighbor, Goto
  <2> QED  BY <1>1, <1>3, <1>6, <2>1, CachedKept DEF RemoveNeighbor, OthersStay, edge, snaps
<1>9. /\ near'[t] = near[t] /\ far'[t] = far[t] /\ op'[t] = op[t]
      /\ hint'[t] = hint[t] /\ buf'[t] = b /\ nbr'[t] = x /\ idx'[t] = idx[t]
      /\ S(t)' = s /\ Pushing(t)' = Pushing(t) /\ FarIdx(t)' = FarIdx(t)
      /\ pc'[t] = "updThreshold" /\ upd'[t] = NoUpdate
  BY <1>1, Locals DEF RemoveNeighbor, edge, snaps, S, Pushing, FarIdx, Goto
<1>10. NearSlot(t)' = slots'[b][idx[t]] /\ FarSlot(t)' = slots'[b][i]
  BY <1>3, <1>9 DEF NearSlot, FarSlot
<1> HIDE DEF s, c, b, x, i
<1>11. Chained' /\ Later
  BY <1>1, <1>2, <1>3, <1>6, <1>7, UnlinkChained DEF i
<1>12. TypeAt(b, FarValueIndex(s)) # "SEALED"
  BY <1>1, <1>3, <1>7, UnlinkSetting DEF i
<1>13. ASSUME NEW u \in Threads \ {t} PROVE Busy(u)'
  <2>1. pc[u] = "casEffect" /\ Holds(EffectTarget(u))
          /\ SafeTarget(u).buf = b /\ SafeTarget(u).idx = i => Fits(u, FarType(s))
    BY <1>1, <1>4, RemoveFits DEF c, s
  <2> QED  BY <1>1, <1>3, <1>6, <1>8, <1>11, <2>1, BusyWrite
<1>14. Snapshots(t)'
  <2>1. near[t].cnt < NearSlot(t).cnt /\ far[t] = slots[b][i]
        /\ (near[t].type = "SEALED" => NearSlot(t).type = "SEALED")
    BY <1>1, <1>3 DEF Knows, Snapshots, HasNear, HasFar, Choosing, FarSlot, b
  <2>2. near[t].cnt \in Nat /\ far[t].cnt \in Nat  BY <1>1, Reads, SlotFields
  <2>3. /\ NearSlot(t).cnt \in Nat /\ NearSlot(t)'.cnt \in Nat
        /\ NearSlot(t).cnt <= NearSlot(t)'.cnt
        /\ NearSlot(t).type = "SEALED" => NearSlot(t)'.type = "SEALED"
    BY <1>1, <1>3, <1>10, <1>11, Ages DEF NearSlot, TypeAt, b
  <2>4. FarSlot(t)'.cnt = far[t].cnt + 1
    BY <1>6, <1>10, <2>1 DEF Written
  <2>5. near[t].cnt < NearSlot(t)'.cnt /\ near[t].cnt <= NearSlot(t)'.cnt
        /\ far[t].cnt < FarSlot(t)'.cnt /\ far[t].cnt <= FarSlot(t)'.cnt
    BY <2>1, <2>2, <2>3, <2>4
  <2> QED
    BY <1>9, <2>1, <2>3, <2>5 DEF Snapshots, HasReach, Choosing, Updating
<1>15. EdgeChecked(t)'
  <2>1. near[t].type # "SEALED"
    BY <1>1, <1>7, <1>12 DEF Knows, Snapshots, HasNear, HasFar, Choosing, NearSlot, TypeAt, b
  <2>2. Published(nbr[t])'  BY <1>2, <1>7, <1>9, SamePublished
  <2> QED
    BY <1>1, <1>7, <1>9, <2>1, <2>2 DEF Knows, EdgeChecked, HasFar, Choosing, s
<1>16. StageChosen(t)' /\ Appending(t)' /\ NotEmpty(t)' /\ SealReads(t)'
  BY <1>9 DEF StageChosen, Appending, NotEmpty, SealReads, Choosing
<1>17. Pointers(t)'
  <2>1. Published(FirstBuffer)  BY <1>1 DEF Chained, Caches
  <2> QED
    BY <1>1, <1>2, <1>9, <2>1, SamePublished DEF Pointers, Knows, NoUpdate, NoHint, b
<1>18. Knows(t)'  BY <1>14, <1>15, <1>16, <1>17 DEF Knows
<1>19. HintsLead'  BY <1>2, SamePublished DEF HintsLead, ShapeInv
<1> QED  BY <1>1, <1>8, <1>9, <1>11, <1>13, <1>18, <1>19, AfterStep

\* The first CAS of a pair: every pair that wanted the same slot for its second one fails.
LEMMA CasSafeShape ==
  ASSUME ShapeInv, NEW t \in Threads, CasSafe(t)
  PROVE  ShapeInv'
<1> DEFINE s == S(t)
           c == SafeTarget(t)
           b == buf[t]
           i == c.idx
<1>1. /\ TypeOK /\ TypeOK' /\ Chained /\ pc[t] = "casSafe" /\ Knows(t)
  BY CasSafeTypes DEF ShapeInv, CasSafe, Chained
<1>2. SameOwners /\ chain' = chain /\ globalHint' = globalHint
  BY DEF CasSafe, SameOwners
<1>3. /\ near'[t] = near[t] /\ far'[t] = far[t] /\ reach'[t] = reach[t] /\ op'[t] = op[t]
      /\ hint'[t] = hint[t] /\ buf'[t] = b /\ nbr'[t] = nbr[t] /\ idx'[t] = idx[t]
      /\ S(t)' = s /\ Pushing(t)' = Pushing(t) /\ FarIdx(t)' = FarIdx(t)
      /\ upd'[t] = upd[t] /\ stage'[t] = stage[t] /\ Takes(t)' = Takes(t)
      /\ cache' = cache
  BY <1>1, Locals DEF CasSafe, edge, snaps, S, Pushing, FarIdx, Takes
<1>4. c.buf = b /\ Published(b) /\ b \in Buffers
  BY <1>1, TargetFields, Targets
<1>5. CASE ~Holds(c)
  <2>1. slots' = slots /\ pc' = [pc EXCEPT ![t] = "loadHint"]  BY <1>5 DEF CasSafe, Goto
  <2>2. pc'[t] = "loadHint"  BY <1>1, <2>1, Locals
  <2>3. OthersStay(t)
    BY <1>2, <2>1 DEF CasSafe, OthersStay, SameOwners, edge, snaps
  <2>4. Pointers(t)'
    BY <1>1, <1>2, <1>3, <2>2, SamePublished DEF Pointers, Knows
  <2>5. Knows(t)'  BY <2>2, <2>4, Searches DEF HasNear, HasFar, Choosing, Updating
  <2> QED  BY <1>1, <1>2, <2>1, <2>2, <2>3, <2>5, AfterLook
<1>6. CASE Holds(c)
  <2>1. Swing(c, c.exp.type, c.exp.val) /\ pc' = [pc EXCEPT ![t] = "casEffect"]
    BY <1>6 DEF CasSafe, Goto
  <2>2. pc'[t] = "casEffect"  BY <1>1, <2>1, Locals
  <2>3. i \in Indices /\ Written(b, i, TypeAt(b, i), slots[b][i].val)
    BY <1>1, <1>4, <1>6, <2>1, EffectWrites DEF Holds, TypeAt
  <2>4. OthersStay(t)
    BY <1>1, <1>4, <2>1, <2>3, CachedKept DEF CasSafe, OthersStay, edge, snaps
  <2>5. \A z \in Buffers, k \in Indices :
          slots'[z][k].type = slots[z][k].type /\ slots'[z][k].val = slots[z][k].val
    BY <1>4, <2>3 DEF Written, TypeAt
  <2>6. /\ s \in Sides /\ idx[t] \in Indices /\ FarIdx(t) \in Indices
        /\ near[t].cnt \in Nat /\ far[t].cnt \in Nat /\ reach[t].cnt \in Nat
        /\ NearValueIndex(s) \in Indices
    <3>1. s \in Sides /\ idx[t] \in Indices /\ idx[t] # FarLinkIndex(s)
      BY <1>1, Reads DEF TypeOK, PlaceOK, AtEdge
    <3> QED  BY <1>1, <3>1, Reads, Geometry, SlotFields DEF FarIdx
  <2>7. /\ Takes(t) => i = FarIdx(t) /\ FarSlot(t) = far[t]
        /\ ~Takes(t) => i = idx[t] /\ NearSlot(t) = near[t]
    BY <1>4, <1>6, TargetFields DEF Holds, FarSlot, NearSlot
  <2>8. NearSlot(t)' = slots'[b][idx[t]] /\ FarSlot(t)' = slots'[b][FarIdx(t)]
        /\ ReachSlot(t)' = slots'[nbr[t]][NearValueIndex(s)]
    BY <1>3 DEF NearSlot, FarSlot, ReachSlot
  <2> HIDE DEF s, b, i
  <2>9. Chained'  BY <1>1, <1>2, <1>4, <2>3, SafeChained
  <2>10. Later
    BY <1>1, <1>2, <1>4, <2>3, LaterWrite, SamePublished
  <2>11. ASSUME NEW u \in Threads \ {t} PROVE Busy(u)'
    <3>1. pc[u] = "casEffect" /\ Holds(EffectTarget(u))
            /\ SafeTarget(u).buf = b /\ SafeTarget(u).idx = i => Fits(u, TypeAt(b, i))
      BY BusyFits DEF ShapeInv
    <3> QED  BY <1>1, <1>4, <2>3, <2>4, <2>10, <3>1, BusyWrite
  <2>12. /\ near[t].type # FarType(s)
         /\ near[t].type = "SEALED" => idx[t] = FarValueIndex(s)
    BY <1>1 DEF Knows, EdgeChecked, HasFar, Choosing, s
  <2>13. /\ stage[t] = "interior" => idx[t] # FarValueIndex(s) /\ far[t].type = FarType(s)
         /\ stage[t] \in {"append", "boundary"} =>
              far[t].type = FarType(s) /\ near[t].type # "SEALED"
         /\ stage[t] \in Straddles => Crossing(t)
         /\ stage[t] \in {"boundary", "seal"} => ~Pushing(t)
         /\ stage[t] = "remove" => SealedOff(s, b, nbr[t])
    BY <1>1 DEF Knows, StageChosen, Choosing, s, b
  <2>14. Busy(t)'
    <3>1. CASE Takes(t)
      <4>1. FarSlot(t)'.type = FarType(s)
        BY <1>4, <2>5, <2>6, <2>7, <2>8, <2>13, <3>1 DEF Takes, FarSlot, b
      <4> QED  BY <1>3, <3>1, <4>1 DEF Busy, FarType
    <3>2. CASE ~Takes(t)
      <4>1. stage[t] = "seal" => near[t].type # "SEALED"
        <5>1. stage[t] = "seal" /\ near[t].type = "SEALED" => near[t].cnt < NearSlot(t).cnt
          BY <1>1, <2>13 DEF Knows, NotEmpty, EmptyTypes
        <5> QED  BY <2>6, <2>7, <3>2, <5>1
      <4>2. stage[t] \in {"interior", "append", "seal"} =>
              near[t].type \notin {FarType(s), "SEALED"}
        BY <2>12, <2>13, <4>1
      <4>3. NearSlot(t)'.type = near[t].type
        BY <1>4, <2>5, <2>6, <2>7, <2>8, <3>2 DEF NearSlot, b
      <4> QED  BY <1>3, <3>2, <4>2, <4>3 DEF Busy, FarType
    <3> QED  BY <3>1, <3>2
  <2>15. \A u \in Threads : u # t /\ pc[u] = "casEffect" /\ EffectTarget(u).buf = b
           /\ EffectTarget(u).idx = i => ~Holds(EffectTarget(u))'
    <3> SUFFICES ASSUME NEW u \in Threads, u # t, pc[u] = "casEffect",
                        EffectTarget(u).buf = b, EffectTarget(u).idx = i,
                        Holds(EffectTarget(u))'
                 PROVE  FALSE
      OBVIOUS
    <3>1. Knows(u)  BY DEF ShapeInv
    <3>2. slots'[b][i] = slots[b][i]  BY <1>1, <2>4, <2>10, <3>1, EffectBack
    <3>3. slots[b][i].cnt \in Nat  BY <1>1, <1>4, <2>3, Reads, SlotFields
    <3> QED  BY <2>3, <3>2, <3>3 DEF Written
  <2>16. NoCross'
    <3> SUFFICES ASSUME NEW u \in Threads, NEW w \in Threads, u # w, Cross(u, w)'
                 PROVE  ~Holds(EffectTarget(u))' \/ ~Holds(EffectTarget(w))'
      BY DEF NoCross
    <3>1. SafeTarget(t)' = c
      BY <1>3 DEF SafeTarget, NearTarget, FarTarget, Target, b, i
    <3>2. CASE u = t
      <4>1. /\ pc[w] = "casEffect" /\ EffectTarget(w)' = EffectTarget(w)
            /\ SameSlot(c, EffectTarget(w))
        BY <2>4, <3>1, <3>2, SameTargets DEF Cross, SameSlot
      <4> QED  BY <1>4, <2>15, <3>2, <4>1 DEF SameSlot, i
    <3>3. CASE w = t
      <4>1. /\ pc[u] = "casEffect" /\ EffectTarget(u)' = EffectTarget(u)
            /\ SameSlot(c, EffectTarget(u))
        BY <2>4, <3>1, <3>3, SameTargets DEF Cross, SameSlot
      <4> QED  BY <1>4, <2>15, <3>3, <4>1 DEF SameSlot, i
    <3>4. CASE u # t /\ w # t
      <4>1. Cross(u, w)  BY <2>4, <3>4, SameTargets DEF Cross, SameSlot
      <4>2. ~Holds(EffectTarget(u)) \/ ~Holds(EffectTarget(w))
        BY <4>1 DEF ShapeInv, NoCross
      <4> QED  BY <1>1, <2>4, <2>10, <3>4, <4>1, <4>2, EffectBack DEF ShapeInv, Cross
    <3> QED  BY <3>2, <3>3, <3>4
  <2>17. Snapshots(t)'
    <3>1. /\ near[t].cnt <= NearSlot(t).cnt /\ far[t].cnt <= FarSlot(t).cnt
          /\ near[t].type = "SEALED" => NearSlot(t).type = "SEALED"
          /\ stage[t] \in Straddles =>
               /\ reach[t].cnt <= ReachSlot(t).cnt
               /\ reach[t].type = "SEALED" => ReachSlot(t).type = "SEALED"
      BY <1>1 DEF Knows, Snapshots, HasNear, HasFar, HasReach, Choosing
    <3>2. /\ NearSlot(t).cnt \in Nat /\ FarSlot(t).cnt \in Nat
          /\ NearSlot(t)'.cnt \in Nat /\ FarSlot(t)'.cnt \in Nat
          /\ NearSlot(t).cnt <= NearSlot(t)'.cnt /\ FarSlot(t).cnt <= FarSlot(t)'.cnt
          /\ NearSlot(t).type = "SEALED" => NearSlot(t)'.type = "SEALED"
      BY <1>1, <1>4, <2>6, <2>8, <2>10, Ages DEF NearSlot, FarSlot, TypeAt, b
    <3>3. stage[t] \in Straddles =>
            /\ ReachSlot(t).cnt \in Nat /\ ReachSlot(t)'.cnt \in Nat
            /\ ReachSlot(t).cnt <= ReachSlot(t)'.cnt
            /\ ReachSlot(t).type = "SEALED" => ReachSlot(t)'.type = "SEALED"
      <4>1. stage[t] \in Straddles => nbr[t] \in Buffers /\ Published(nbr[t])
        BY <2>13 DEF Crossing, Published
      <4> QED  BY <1>1, <2>6, <2>8, <2>10, <4>1, Ages DEF ReachSlot, TypeAt, s
    <3>4. ~Takes(t) => near[t].cnt < NearSlot(t)'.cnt
      <4>1. ~Takes(t) => NearSlot(t)'.cnt = near[t].cnt + 1
        BY <2>3, <2>7, <2>8 DEF Written, NearSlot, b
      <4> QED  BY <2>6, <4>1
    <3>5. near[t].cnt <= NearSlot(t)'.cnt /\ far[t].cnt <= FarSlot(t)'.cnt
          /\ (stage[t] \in Straddles => reach[t].cnt <= ReachSlot(t)'.cnt)
      BY <2>6, <3>1, <3>2, <3>3
    <3> QED
      BY <1>3, <2>2, <3>1, <3>2, <3>3, <3>4, <3>5 DEF Snapshots, HasReach, Updating, Choosing
  <2>18. EdgeChecked(t)'
    BY <1>1, <1>3, <2>2 DEF Knows, EdgeChecked, HasFar, Choosing, Updating, s
  <2>19. Crossing(t) => Crossing(t)'
    <3> SUFFICES ASSUME Crossing(t) PROVE Crossing(t)'
      OBVIOUS
    <3>1. /\ Published(nbr[t]) /\ nbr[t] \in Buffers /\ WereLinked(s, b, nbr[t])
          /\ idx[t] = FarValueIndex(s) /\ far[t].type = "VALUE" /\ far[t].val = nbr[t]
      BY DEF Crossing, Published, s, b
    <3>2. Published(nbr[t])'  BY <1>2, <1>3, <3>1, SamePublished
    <3>3. WereLinked(S(t), buf[t], nbr[t])'
      BY <1>3, <1>4, <2>6, <2>10, <3>1 DEF Later
    <3> QED  BY <1>3, <3>1, <3>2, <3>3 DEF Crossing
  <2>20. SealedOff(s, b, nbr[t]) /\ Crossing(t) => SealedOff(S(t), buf[t], nbr[t])'
    <3>1. SealedOff(s, b, nbr[t]) /\ Crossing(t) =>
            /\ slots'[nbr[t]][NearValueIndex(s)].type = "SEALED"
            /\ slots'[nbr[t]][NearLinkIndex(s)].type = "VALUE"
            /\ slots'[nbr[t]][NearLinkIndex(s)].val = b
      BY <2>5, <2>6, Geometry DEF SealedOff, LinksTo, TypeAt, Crossing, Published
    <3> QED  BY <1>3, <3>1 DEF SealedOff, LinksTo, TypeAt
  <2>21. StageChosen(t)'
    BY <1>1, <1>3, <2>2, <2>13, <2>19, <2>20
       DEF Knows, StageChosen, Choosing, Straddles, s
  <2>22. Appending(t)'
    <3>1. stage[t] = "append" => 
            /\ nbr[t] \in Buffers /\ cache[t][s] = nbr[t]
            /\ slots[nbr[t]][NearLinkIndex(s)].val = b
            /\ slots[nbr[t]][NearValueIndex(s)].val = op[t].val
      BY <1>1 DEF Knows, Appending, s, b
    <3>2. NearLinkIndex(s) \in Indices  BY <2>6, Geometry
    <3> QED  BY <1>3, <2>5, <2>6, <3>1, <3>2 DEF Appending
  <2>23. NotEmpty(t)'
    <3>1. ~Pushing(t) /\ near[t].type \in EmptyTypes(s, stage[t]) => near[t].cnt < NearSlot(t).cnt
      BY <1>1 DEF Knows, NotEmpty, s
    <3>2. ~Pushing(t) /\ near[t].type \in EmptyTypes(s, stage[t]) => Takes(t)
      BY <2>6, <2>7, <3>1
    <3>3. NearSlot(t).cnt <= NearSlot(t)'.cnt /\ NearSlot(t).cnt \in Nat /\ NearSlot(t)'.cnt \in Nat
      BY <1>1, <1>4, <2>6, <2>8, <2>10, Ages DEF NearSlot, b
    <3>4. ~Pushing(t) /\ near[t].type \in EmptyTypes(s, stage[t]) => near[t].cnt < NearSlot(t)'.cnt
      BY <2>6, <3>1, <3>3
    <3> QED  BY <1>3, <3>2, <3>4 DEF NotEmpty, EmptyTypes, NearType
  <2>24. Pointers(t)' /\ SealReads(t)'
    <3>1. Pointers(t)'
      BY <1>1, <1>2, <1>3, <2>2, SamePublished DEF Pointers, Knows, b
    <3> QED  BY <2>2, <3>1 DEF SealReads
  <2>25. Knows(t)'  BY <2>17, <2>18, <2>21, <2>22, <2>23, <2>24 DEF Knows
  <2>26. HintsLead'  BY <1>2, SamePublished DEF HintsLead, ShapeInv
  <2>27. \A u \in Threads : Knows(u)'
    BY <1>1, <2>4, <2>10, <2>25, Others DEF ShapeInv
  <2> QED  BY <1>1, <2>9, <2>11, <2>14, <2>16, <2>26, <2>27 DEF ShapeInv
<1> QED  BY <1>5, <1>6

\* Nothing that is published changes.
PublishedSame ==
  /\ \A x \in Buffers : Published(x)' <=> Published(x)
  /\ \A x \in Buffers : Published(x) => slots'[x] = slots[x]

\* Then nothing that was known of it is lost, and its shape stays.
LEMMA LaterSame ==
  ASSUME PublishedSame
  PROVE  Later
<1>1. ASSUME NEW b \in Buffers, NEW x \in Buffers, NEW s \in Sides, Published(b), Published(x)
      PROVE  /\ WereLinked(s, b, x) => WereLinked(s, b, x)'
             /\ SealedOff(s, b, x) => SealedOff(s, b, x)'
  <2>1. slots'[b] = slots[b] /\ slots'[x] = slots[x]  BY <1>1 DEF PublishedSame
  <2> QED  BY <2>1 DEF WereLinked, SealedOff, Mutual, LinksTo, TypeAt
<1> QED  BY <1>1 DEF Later, PublishedSame, TypeAt

\* And the chain and its buffers keep their shape.
LEMMA ShapeSame ==
  ASSUME Profiles, Linked, PublishedSame, chain' = chain
  PROVE  Profiles' /\ Linked'
<1>1. Profiles'
  <2> SUFFICES ASSUME NEW b \in Buffers, Published(b)', NEW s \in Sides PROVE Profile(b, s)'
    BY DEF Profiles
  <2>1. Published(b) /\ slots'[b] = slots[b]  BY DEF PublishedSame
  <2>2. Profile(b, s)  BY <2>1 DEF Profiles
  <2>3. TypeAt(b, FarLinkIndex(s)) = "VALUE" => Published(slots[b][FarLinkIndex(s)].val)'
    BY <2>2 DEF Profile, PublishedSame, Published
  <2> QED  BY <2>1, <2>2, <2>3 DEF Profile, TypeAt
<1>2. Linked'
  <2>1. \A x \in Buffers : Published(x) => (IsSealed(x)' <=> IsSealed(x))
    BY DEF PublishedSame, IsSealed
  <2>2. \A x, y \in Buffers : Published(x) /\ Published(y) =>
          /\ Mutual("L", x, y)' <=> Mutual("L", x, y)
          /\ TypeAt(x, 1)' = TypeAt(x, 1)
          /\ TypeAt(y, LastIndex - 1)' = TypeAt(y, LastIndex - 1)
    BY DEF PublishedSame, Mutual, LinksTo, TypeAt
  <2>3. \A k \in DOMAIN chain : chain[k] \in Buffers /\ Published(chain[k])
    BY DEF Linked, Published
  <2>4. Len(chain) \in Nat \ {0} /\ DOMAIN chain = 1..Len(chain)
    BY LenProperties, EmptySeq DEF Linked
  <2>5. \A k \in DOMAIN chain : slots'[chain[k]] = slots[chain[k]]
    BY <2>3 DEF PublishedSame
  <2>6. \A k \in 1..(Len(chain) - 1) : Mutual("L", chain[k + 1], chain[k])'
    <3> SUFFICES ASSUME NEW k \in 1..(Len(chain) - 1)
                 PROVE  Mutual("L", chain[k + 1], chain[k])'
      BY DEF Linked
    <3>1. k \in DOMAIN chain /\ k + 1 \in DOMAIN chain  BY <2>4
    <3>2. Mutual("L", chain[k + 1], chain[k])  BY DEF Linked
    <3> QED  BY <2>5, <3>1, <3>2 DEF Mutual, LinksTo
  <2>7. TypeAt(chain[1], 0)' = "L" /\ TypeAt(chain[Len(chain)], LastIndex)' = "R"
    <3>1. slots'[chain[1]] = slots[chain[1]] /\ slots'[chain[Len(chain)]] = slots[chain[Len(chain)]]
      BY <2>4, <2>5
    <3> QED  BY <3>1 DEF Linked, TypeAt
  <2>8. \A k \in DOMAIN chain : Published(chain[k])'
    BY <2>3 DEF PublishedSame
  <2>9. \A x \in Buffers : InChain(x)' <=> InChain(x)  BY DEF InChain
  <2>10. \A x \in Buffers : Published(x)' <=> Published(x)  BY DEF PublishedSame
  <2> QED  BY <2>1, <2>2, <2>6, <2>7, <2>8, <2>9, <2>10 DEF Linked
<1> QED  BY <1>1, <1>2

\* A new buffer is filled, linked back, and kept in the cache until it is appended.
LEMMA PrepareSetting ==
  ASSUME ShapeInv, NEW t \in Threads, Prepare(t)
  PROVE  \E b \in Buffers :
           /\ ~Published(b)
           /\ \A x \in Buffers : x # b => slots'[x] = slots[x]
           /\ slots'[b][NearLinkIndex(S(t))].val = buf[t]
           /\ slots'[b][NearValueIndex(S(t))].val = op[t].val
           /\ \A i \in Indices : slots'[b][i].type =
                IF i \in {NearLinkIndex(S(t)), NearValueIndex(S(t))} THEN "VALUE"
                ELSE FarType(S(t))
           /\ pool' = pool \ {b} /\ nbr'[t] = b
           /\ \A u \in Threads, r \in Sides :
                /\ cache'[u][r] = IF u = t /\ r = S(t) THEN b ELSE cache[u][r]
                /\ cache[u][r] = b => u = t /\ r = S(t)
<1> DEFINE s == S(t)
           blank(b, c) == IF cache[t][s] = Null
                            THEN [i \in Indices |-> Slot(FarType(s), Garbage, c)]
                            ELSE slots[b]
<1>1. TypeOK /\ Caches /\ s \in Sides
  BY Reads DEF ShapeInv, Chained
<1>2. PICK c \in GarbageCounts, b \in (IF cache[t][s] = Null THEN pool ELSE {cache[t][s]}) :
        /\ slots' = [slots EXCEPT ![b] =
                       [blank(b, c) EXCEPT ![NearLinkIndex(s)]  = Slot("VALUE", buf[t], c),
                                           ![NearValueIndex(s)] = Slot("VALUE", op[t].val, c)]]
        /\ pool' = pool \ {b}
        /\ cache' = [cache EXCEPT ![t][s] = b]
        /\ nbr' = [nbr EXCEPT ![t] = b]
  BY DEF Prepare
<1>3. /\ NearLinkIndex(s) \in Indices /\ NearValueIndex(s) \in Indices
      /\ NearLinkIndex(s) # NearValueIndex(s)
  BY <1>1, Geometry, Places4
<1>4. b \in Buffers /\ ~Published(b)
  BY <1>1, <1>2 DEF Published, Private, TypeOK, VarTypes
<1>5. \A x \in Buffers : x # b => slots'[x] = slots[x]
  BY <1>1, <1>2 DEF TypeOK, VarTypes
<1>6. \A u \in Threads, r \in Sides : cache'[u][r] = IF u = t /\ r = s THEN b ELSE cache[u][r]
  BY <1>1, <1>2 DEF TypeOK, VarTypes
<1>7. \A u \in Threads, r \in Sides : cache[u][r] = b => u = t /\ r = s
  <2>1. b # Null  BY <1>4, OFDequeAssumption
  <2>2. CASE cache[t][s] = Null
    BY <1>1, <1>2, <2>1, <2>2 DEF Caches
  <2>3. CASE cache[t][s] # Null
    BY <1>1, <1>2, <2>1, <2>3 DEF Caches
  <2> QED  BY <2>2, <2>3
<1>8. \A i \in Indices :
        /\ blank(b, c)[i].type =
             IF cache[t][s] # Null /\ i \in {NearLinkIndex(s), NearValueIndex(s)} THEN "VALUE"
             ELSE FarType(s)
  <2>1. CASE cache[t][s] = Null
    BY <2>1 DEF Slot
  <2>2. CASE cache[t][s] # Null
    BY <1>1, <1>2, <2>2 DEF Caches, TypeAt
  <2> QED  BY <2>1, <2>2
<1>9. DOMAIN blank(b, c) = Indices
  BY <1>1, <1>4 DEF TypeOK, VarTypes
<1> HIDE DEF blank
<1>10. slots'[b] = [blank(b, c) EXCEPT ![NearLinkIndex(s)]  = Slot("VALUE", buf[t], c),
                                       ![NearValueIndex(s)] = Slot("VALUE", op[t].val, c)]
  BY <1>1, <1>2, <1>4 DEF TypeOK, VarTypes
<1>11. \A i \in Indices : slots'[b][i] =
         IF i = NearValueIndex(s) THEN Slot("VALUE", op[t].val, c)
         ELSE IF i = NearLinkIndex(s) THEN Slot("VALUE", buf[t], c) ELSE blank(b, c)[i]
  BY <1>3, <1>9, <1>10
<1>12. /\ slots'[b][NearLinkIndex(s)].val = buf[t]
       /\ slots'[b][NearValueIndex(s)].val = op[t].val
       /\ \A i \in Indices : slots'[b][i].type =
            IF i \in {NearLinkIndex(s), NearValueIndex(s)} THEN "VALUE" ELSE FarType(s)
  BY <1>3, <1>8, <1>11 DEF Slot
<1>13. nbr'[t] = b  BY <1>1, <1>2, Locals
<1> QED  BY <1>2, <1>4, <1>5, <1>6, <1>7, <1>12, <1>13

\* Nobody but its owner can reach the new buffer, so nobody loses what it knows.
LEMMA PrepareShape ==
  ASSUME ShapeInv, NEW t \in Threads, Prepare(t)
  PROVE  ShapeInv'
<1> DEFINE s == S(t)
<1>1. /\ TypeOK /\ TypeOK' /\ Chained /\ Profiles /\ Caches /\ Linked /\ pc[t] = "prepare"
      /\ Knows(t) /\ s \in Sides
  BY PrepareTypes, Reads DEF ShapeInv, Prepare, Chained
<1>2. PICK b \in Buffers :
           /\ ~Published(b)
           /\ \A x \in Buffers : x # b => slots'[x] = slots[x]
           /\ slots'[b][NearLinkIndex(s)].val = buf[t]
           /\ slots'[b][NearValueIndex(s)].val = op[t].val
           /\ \A i \in Indices : slots'[b][i].type =
                IF i \in {NearLinkIndex(s), NearValueIndex(s)} THEN "VALUE" ELSE FarType(s)
           /\ pool' = pool \ {b} /\ nbr'[t] = b
           /\ \A u \in Threads, r \in Sides :
                /\ cache'[u][r] = IF u = t /\ r = s THEN b ELSE cache[u][r]
                /\ cache[u][r] = b => u = t /\ r = s
  BY PrepareSetting
<1>3. /\ near'[t] = near[t] /\ far'[t] = far[t] /\ op'[t] = op[t]
      /\ hint'[t] = hint[t] /\ buf'[t] = buf[t] /\ idx'[t] = idx[t]
      /\ S(t)' = s /\ Pushing(t)' = Pushing(t) /\ FarIdx(t)' = FarIdx(t)
      /\ upd'[t] = upd[t] /\ stage'[t] = stage[t] /\ Takes(t)' = Takes(t)
      /\ globalHint' = globalHint /\ chain' = chain /\ pc'[t] = "casSafe"
  BY <1>1, Locals DEF Prepare, snaps, S, Pushing, FarIdx, Takes, Goto
<1>4. \A x \in Buffers : Private(x)' <=> Private(x)
  <2> SUFFICES ASSUME NEW x \in Buffers PROVE Private(x)' <=> Private(x)
    OBVIOUS
  <2>1. CASE x = b
    <3>1. Private(x)  BY <1>2, <2>1 DEF Published
    <3>2. Private(x)'  BY <1>1, <1>2, <2>1 DEF Private
    <3> QED  BY <3>1, <3>2
  <2>2. CASE x # b
    <3>1. x \in pool' <=> x \in pool  BY <1>2, <2>2
    <3>2. ASSUME NEW u \in Threads, NEW r \in Sides
          PROVE  cache'[u][r] = x <=> cache[u][r] = x
      <4>1. cache[t][s] \in {Null, b}
        BY <1>1, <1>2 DEF Prepare, Published, Private, Caches
      <4> QED  BY <1>2, <2>2, <4>1, OFDequeAssumption
    <3> QED  BY <3>1, <3>2 DEF Private
  <2> QED  BY <2>1, <2>2
<1>5. PublishedSame
  BY <1>2, <1>4 DEF PublishedSame, Published
<1>6. Later  BY <1>5, LaterSame
<1>7. OthersStay(t)
  <2>1. \A u \in Threads \ {t}, r \in Sides :
          /\ cache'[u][r] = cache[u][r]
          /\ cache[u][r] \in Buffers => slots'[cache[u][r]] = slots[cache[u][r]]
    BY <1>2
  <2>2. \A u \in Threads \ {t} : pc'[u] = pc[u] /\ nbr'[u] = nbr[u]
    BY <1>1, Locals DEF Prepare, Goto
  <2> QED  BY <2>1, <2>2 DEF Prepare, OthersStay, snaps
<1>8. Caches'
  <2>1. Published(FirstBuffer)'  BY <1>1, <1>5, OFDequeAssumption DEF PublishedSame, Caches
  <2>2. \A x \in pool', i \in Indices : TypeAt(x, i)' # "SEALED"
    BY <1>1, <1>2 DEF Caches, TypeAt, TypeOK, VarTypes
  <2>3. ASSUME NEW u \in Threads, NEW r \in Sides, cache'[u][r] # Null
        PROVE  /\ cache'[u][r] \notin pool'
               /\ \A w \in Threads, q \in Sides : cache'[w][q] = cache'[u][r] => w = u /\ q = r
               /\ \A i \in Indices : slots'[cache'[u][r]][i].type =
                    IF i \in {NearLinkIndex(r), NearValueIndex(r)} THEN "VALUE" ELSE FarType(r)
    <3>1. CASE u = t /\ r = s
      BY <1>2, <2>3, <3>1
    <3>2. CASE ~(u = t /\ r = s)
      <4>1. cache'[u][r] = cache[u][r] /\ cache[u][r] # b /\ cache[u][r] \in Buffers
        BY <1>1, <1>2, <2>3, <3>2 DEF TypeOK, VarTypes
      <4>2. slots'[cache[u][r]] = slots[cache[u][r]]  BY <1>2, <4>1
      <4>3. cache[u][r] \notin pool'  BY <1>1, <1>2, <2>3, <4>1 DEF Caches
      <4>4. \A w \in Threads, q \in Sides : cache'[w][q] = cache[u][r] => w = u /\ q = r
        BY <1>1, <1>2, <2>3, <4>1 DEF Caches
      <4>5. \A i \in Indices : slots[cache[u][r]][i].type =
              IF i \in {NearLinkIndex(r), NearValueIndex(r)} THEN "VALUE" ELSE FarType(r)
        BY <1>1, <2>3, <4>1 DEF Caches, TypeAt
      <4> QED  BY <4>1, <4>2, <4>3, <4>4, <4>5
    <3> QED  BY <3>1, <3>2
  <2> QED  BY <2>1, <2>2, <2>3 DEF Caches, TypeAt
<1>9. Chained'  BY <1>1, <1>3, <1>5, <1>8, ShapeSame DEF Chained
<1>10. ASSUME NEW u \in Threads \ {t} PROVE Busy(u)'
  <2>1. Busy(u) /\ Knows(u) /\ Published(buf[u]) /\ buf[u] \in Buffers
    BY DEF ShapeInv, Knows, Pointers, Published
  <2>2. slots'[buf[u]] = slots[buf[u]]  BY <1>5, <2>1 DEF PublishedSame
  <2>3. NearSlot(u)' = NearSlot(u) /\ FarSlot(u)' = FarSlot(u)
    BY <1>7, <2>2, SameTargets DEF NearSlot, FarSlot
  <2>4. pc[u] = "casEffect" /\ Holds(EffectTarget(u))' => Holds(EffectTarget(u))
    BY <1>1, <1>6, <1>7, <2>1, EffectBack
  <2> QED  BY <1>7, <2>1, <2>3, <2>4, SameTargets DEF Busy, FarType
<1>11. Published(buf[t]) /\ slots'[buf[t]] = slots[buf[t]]
  BY <1>1, <1>5 DEF Knows, Pointers, PublishedSame, Published
<1>12. NearSlot(t)' = NearSlot(t) /\ FarSlot(t)' = FarSlot(t)
  BY <1>3, <1>11 DEF NearSlot, FarSlot
<1>13. stage[t] = "append" /\ Pushing(t)
  BY <1>1 DEF Knows, StageChosen, Choosing
<1>14. Snapshots(t)'
  BY <1>1, <1>3, <1>12, <1>13
     DEF Knows, Snapshots, HasReach, HasNear, HasFar, Choosing, Straddles, Updating
<1>15. EdgeChecked(t)'
  BY <1>1, <1>3 DEF Knows, EdgeChecked, HasFar, Choosing, Updating
<1>16. StageChosen(t)'
  BY <1>1, <1>3, <1>13 DEF Knows, StageChosen, Choosing, Straddles
<1>17. Appending(t)'
  <2>1. cache'[t][s] = nbr'[t]  BY <1>1, <1>2
  <2> QED  BY <1>2, <1>3, <2>1 DEF Appending
<1>18. NotEmpty(t)'  BY <1>3, <1>13 DEF NotEmpty
<1>19. Pointers(t)' /\ SealReads(t)'
  <2>1. /\ Published(buf[t])' /\ Published(hint[t].buf)' /\ Published(upd[t].cand)'
        /\ Published(upd[t].hint.buf)'
    BY <1>1, <1>3, <1>5 DEF Knows, Pointers, PublishedSame, Published
  <2> QED  BY <1>3, <2>1 DEF Pointers, SealReads
<1>20. Knows(t)'  BY <1>14, <1>15, <1>16, <1>17, <1>18, <1>19 DEF Knows
<1>21. HintsLead'  BY <1>3, <1>5 DEF HintsLead, ShapeInv, PublishedSame, Published
<1> QED  BY <1>1, <1>3, <1>6, <1>7, <1>9, <1>10, <1>20, <1>21, AfterStep

-----------------------------------------------------------------------------
(* The invariant holds: at the start, and after every step. *)

\* The constructor's buffer is a chain of its own, and nobody knows anything yet.
LEMMA InitShape == Init => ShapeInv
<1> SUFFICES ASSUME Init PROVE ShapeInv
  OBVIOUS
<1>1. TypeOK  BY InitTypes
<1>2. Split \in Int /\ 1 <= Split /\ Split <= LastIndex /\ LastIndex \in Nat
  BY OFDequeAssumption DEF Split, LastIndex
<1>3. \A b \in Buffers, i \in Indices :
        TypeAt(b, i) = IF i < Split THEN "L" ELSE "R"
  BY DEF Init, TypeAt, Slot
<1>4. \A b : Published(b) <=> b = FirstBuffer
  <2>1. \A t \in Threads, s \in Sides : cache[t][s] = Null  BY DEF Init
  <2> QED  BY <2>1, OFDequeAssumption DEF Init, Published, Private
<1>5. Profiles
  <2> SUFFICES ASSUME NEW b \in Buffers, NEW s \in Sides PROVE Profile(b, s)
    BY DEF Profiles
  <2>1. CASE s = "L"
    <3>1. TypeAt(b, 0) = "L"  BY <1>2, <1>3, Borders
    <3>2. \A i, j \in Indices : j < i /\ TypeAt(b, i) = "L" => TypeAt(b, j) = "L"
      BY <1>2, <1>3 DEF Indices
    <3> QED  BY <1>3, <2>1, <3>1, <3>2, Geometry
             DEF Profile, FarType, FarLinkIndex, Outer
  <2>2. CASE s = "R"
    <3>1. TypeAt(b, LastIndex) = "R"  BY <1>2, <1>3, Borders
    <3>2. \A i, j \in Indices : j > i /\ TypeAt(b, i) = "R" => TypeAt(b, j) = "R"
      BY <1>2, <1>3 DEF Indices
    <3> QED  BY <1>3, <2>2, <3>1, <3>2, Geometry
             DEF Profile, FarType, FarLinkIndex, Outer
  <2> QED  BY <2>1, <2>2 DEF Sides
<1>6. Caches
  <2>1. \A t \in Threads, s \in Sides : cache[t][s] = Null  BY DEF Init
  <2>2. \A b \in pool, i \in Indices : TypeAt(b, i) # "SEALED"  BY <1>3 DEF Init
  <2> QED  BY <1>4, <2>1, <2>2 DEF Caches
<1>7. Linked
  <2>1. /\ chain = <<FirstBuffer>> /\ chain \in Seq(Buffers) /\ chain # <<>>
        /\ Len(chain) = 1 /\ DOMAIN chain = {1} /\ chain[1] = FirstBuffer
    BY OFDequeAssumption DEF Init
  <2>2. TypeAt(FirstBuffer, 0) = "L" /\ TypeAt(FirstBuffer, LastIndex) = "R"
    BY <1>2, <1>3, Borders, OFDequeAssumption
  <2>3. \A b, x \in Buffers : ~Mutual("L", b, x)
    BY <1>3, Borders DEF Mutual, LinksTo, TypeAt, FarLinkIndex
  <2>4. \A b : Published(b) => InChain(b)  BY <1>4, <2>1 DEF InChain
  <2> QED  BY <1>4, <2>1, <2>2, <2>3, <2>4 DEF Linked
<1>8. \A t \in Threads : Knows(t) /\ Busy(t)
  <2> SUFFICES ASSUME NEW t \in Threads PROVE Knows(t) /\ Busy(t)
    OBVIOUS
  <2>1. pc[t] = "idle"  BY DEF Init
  <2>2. Pointers(t)  BY <1>4, <2>1 DEF Init, Pointers, NoHint, NoUpdate
  <2>3. Snapshots(t) /\ EdgeChecked(t) /\ StageChosen(t) /\ Appending(t) /\ NotEmpty(t)
        /\ SealReads(t) /\ Busy(t)
    BY <2>1 DEF Snapshots, EdgeChecked, StageChosen, Appending, NotEmpty, SealReads, Busy,
                HasNear, HasFar, HasReach, Choosing, Updating
  <2> QED  BY <2>2, <2>3 DEF Knows
<1>9. NoCross  BY DEF Init, NoCross, Cross
<1>10. HintsLead  BY <1>4 DEF Init, HintsLead, NoHint
<1> QED  BY <1>1, <1>5, <1>6, <1>7, <1>8, <1>9, <1>10 DEF ShapeInv, Chained

\* Every step of a thread keeps the invariant: by the lemma of its action.
LEMMA StepShape ==
  ASSUME ShapeInv, NEW t \in Threads, Step(t)
  PROVE  ShapeInv'
<1>1. CASE Oracle(t)
  BY <1>1, LoadHintShape, ReserveHintShape, CheckHintShape, LoadLocalShape,
     ProbeInwardShape, ProbeNearShape, ProbeOtherShape, ProbeFarShape, ProbeLinkShape,
     ReserveNbrShape, RecheckHintShape, ProbeNbrShape
     DEF Oracle
<1>2. CASE Edge(t)
  BY <1>2, LoadNearShape, LoadFarShape, LoadReachShape, LoadBackShape, ConfirmEmptyShape,
     PrepareShape, CasSafeShape, EffectFailsShape, PushValueShape, PushBufferShape,
     TakeValueShape, SealNeighborShape, RemoveNeighborShape, BumpLocalShape,
     BumpGlobalShape, ReturnShape
     DEF Edge
<1>3. CASE UpdateHint(t)
  BY <1>3, UpdThresholdShape, UpdLoadShape, Sealed0Shape, Sealed1Shape, Sealed2Shape,
     UpdLinkShape, UpdReserveShape, UpdCheckShape, UpdCasShape, RetireShape
     DEF UpdateHint
<1> QED  BY <1>1, <1>2, <1>3 DEF Step

\* And so does a step of the deque.
LEMMA NextShape == ShapeInv /\ [Next]_vars => ShapeInv'
<1> SUFFICES ASSUME ShapeInv, [Next]_vars PROVE ShapeInv'
  OBVIOUS
<1>1. CASE UNCHANGED vars
  <2>1. TypeOK'  BY <1>1, NextTypes DEF ShapeInv
  <2>2. SameOwners /\ slots' = slots /\ chain' = chain
    BY <1>1 DEF vars, shared, SameOwners
  <2>3. Later /\ Chained'  BY <2>2, LaterQuiet, ChainedQuiet DEF ShapeInv
  <2>4. HintsLead'  BY <1>1, <2>2, SamePublished DEF vars, shared, HintsLead, ShapeInv
  <2>5. ASSUME NEW u \in Threads
        PROVE  /\ pc'[u] = pc[u] /\ op'[u] = op[u] /\ hint'[u] = hint[u] /\ buf'[u] = buf[u]
               /\ idx'[u] = idx[u] /\ nbr'[u] = nbr[u] /\ near'[u] = near[u]
               /\ far'[u] = far[u] /\ reach'[u] = reach[u] /\ stage'[u] = stage[u]
               /\ upd'[u] = upd[u] /\ retired'[u] = retired[u] /\ cache' = cache
    BY <1>1 DEF vars, shared, edge, snaps
  <2>6. ASSUME NEW u \in Threads
        PROVE  /\ SafeTarget(u)' = SafeTarget(u) /\ EffectTarget(u)' = EffectTarget(u)
               /\ Takes(u)' = Takes(u) /\ S(u)' = S(u) /\ FarSlot(u)' = FarSlot(u)
               /\ NearSlot(u)' = NearSlot(u)
    BY <2>2, <2>5 DEF SafeTarget, EffectTarget, Takes, Pushing, S, FarIdx, NearTarget,
                      FarTarget, ReachTarget, Target, FarSlot, NearSlot
  <2>7. ASSUME NEW u \in Threads PROVE Busy(u)'
    BY <2>2, <2>5, <2>6 DEF Busy, Holds, ShapeInv
  <2>8. NoCross'  BY <2>2, <2>5, <2>6 DEF NoCross, Cross, Holds, ShapeInv
  <2>9. ASSUME NEW u \in Threads PROVE Knows(u)'
    BY <1>1, <2>2, <2>5, <2>6, SamePublished
       DEF ShapeInv, vars, shared, edge, snaps, Knows, Snapshots, EdgeChecked, StageChosen, Appending,
           NotEmpty, Pointers, SealReads, HasReach, ReachSlot, Crossing, WereLinked,
           SealedOff, Mutual, LinksTo, TypeAt, Pushing, Probed, AtBorderValue, FarIdx
  <2> QED  BY <2>1, <2>3, <2>4, <2>7, <2>8, <2>9 DEF ShapeInv
<1>2. ASSUME NEW t \in Threads, NEW o \in Operations, Call(t, o) PROVE ShapeInv'
  BY <1>2, CallShape
<1>3. ASSUME NEW t \in Threads, Step(t) PROVE ShapeInv'
  BY <1>3, StepShape
<1> QED  BY <1>1, <1>2, <1>3 DEF Next

\* The chain always has the shape described above, and every thread is right in what it
\* knows of the slots it has snapshots of.
THEOREM ShapeCorrect == Spec => []ShapeInv
  BY InitShape, NextShape, PTL DEF Spec

-----------------------------------------------------------------------------
(* The properties. *)

\* Where the links are, and what lies between them.
LEMMA InnerLinks ==
  ASSUME ShapeInv
  PROVE  /\ Len(chain) \in Nat \ {0} /\ DOMAIN chain = 1..Len(chain)
         /\ \A k \in 1..Len(chain) : Published(chain[k]) /\ chain[k] \in Buffers
         /\ \A k \in 1..Len(chain) : 1 < k =>
              LinksTo(chain[k], 0, chain[k - 1]) /\ LinksTo(chain[k - 1], LastIndex, chain[k])
<1>1. Linked  BY DEF ShapeInv, Chained
<1>2. Len(chain) \in Nat \ {0} /\ DOMAIN chain = 1..Len(chain)
  BY <1>1 DEF Linked
<1>3. ASSUME NEW k \in 1..Len(chain), 1 < k
      PROVE  LinksTo(chain[k], 0, chain[k - 1]) /\ LinksTo(chain[k - 1], LastIndex, chain[k])
  <2>1. k - 1 \in 1..(Len(chain) - 1) /\ (k - 1) + 1 = k  BY <1>2, <1>3
  <2>2. Mutual("L", chain[(k - 1) + 1], chain[k - 1])  BY <1>1, <2>1 DEF Linked
  <2> QED  BY <2>1, <2>2 DEF Mutual, FarLinkIndex, NearLinkIndex
<1> QED  BY <1>1, <1>2, <1>3 DEF Linked, Published

\* A linked buffer is sealed at the end of a chain of several buffers only, and there only
\* next to the link that is left.
LEMMA ChainSeals ==
  ASSUME ShapeInv, NEW k \in 1..Len(chain), NEW i \in Indices,
         TypeAt(chain[k], i) = "SEALED"
  PROVE  /\ Len(chain) > 1
         /\ (k = 1 /\ i = LastIndex - 1) \/ (k = Len(chain) /\ i = 1)
         /\ i = LastIndex - 1 => \A j \in 0..(LastIndex - 2) : TypeAt(chain[k], j) = "L"
         /\ i = 1 => \A j \in 2..LastIndex : TypeAt(chain[k], j) = "R"
<1> DEFINE b == chain[k]
<1>1. /\ Profiles /\ Linked /\ "L" \in Sides
      /\ Published(b) /\ Len(chain) \in Nat \ {0}
      /\ 1 < k => TypeAt(b, 0) = "VALUE"
      /\ k < Len(chain) => TypeAt(b, LastIndex) = "VALUE"
  <2>1. k < Len(chain) => LinksTo(chain[(k + 1) - 1], LastIndex, chain[k + 1])
    BY InnerLinks
  <2>2. k < Len(chain) => (k + 1) - 1 = k  OBVIOUS
  <2> QED  BY InnerLinks, <2>1, <2>2 DEF ShapeInv, Chained, LinksTo, TypeAt, Sides
<1>2. /\ i \in {1, LastIndex - 1}
      /\ TypeAt(b, 1) = "SEALED" =>
           /\ TypeAt(b, 0) = "VALUE" /\ \A j \in Indices \ {0, 1} : TypeAt(b, j) = "R"
      /\ TypeAt(b, LastIndex - 1) = "SEALED" =>
           /\ TypeAt(b, LastIndex) = "VALUE"
           /\ \A j \in Indices \ {LastIndex, LastIndex - 1} : TypeAt(b, j) = "L"
  BY <1>1, Looks
     DEF FarValueIndex, NearValueIndex, FarLinkIndex, NearLinkIndex, FarType, NearType, Opposite
<1>3. /\ LastIndex \in Nat /\ LastIndex >= 3 /\ 0 \in Indices /\ LastIndex \in Indices
      /\ 0..(LastIndex - 2) \subseteq Indices \ {LastIndex, LastIndex - 1}
      /\ 2..LastIndex \subseteq Indices \ {0, 1}
      /\ LastIndex \notin {0, 1} /\ 0 \notin {LastIndex, LastIndex - 1}
  BY OFDequeAssumption DEF LastIndex, Indices
<1>4. CASE i = 1
  <2>1. TypeAt(b, 0) = "VALUE" /\ TypeAt(b, LastIndex) = "R"  BY <1>2, <1>3, <1>4
  <2>2. k = Len(chain) /\ k # 1  BY <1>1, <2>1 DEF Linked
  <2>3. \A j \in 2..LastIndex : TypeAt(b, j) = "R"  BY <1>2, <1>3, <1>4
  <2>4. Len(chain) > 1 /\ i # LastIndex - 1  BY <1>1, <1>3, <1>4, <2>2
  <2> QED  BY <1>4, <2>2, <2>3, <2>4
<1>5. CASE i = LastIndex - 1
  <2>1. TypeAt(b, LastIndex) = "VALUE" /\ TypeAt(b, 0) = "L"  BY <1>2, <1>3, <1>5
  <2>2. k = 1 /\ k # Len(chain)  BY <1>1, <2>1 DEF Linked
  <2>3. \A j \in 0..(LastIndex - 2) : TypeAt(b, j) = "L"  BY <1>2, <1>3, <1>5
  <2>4. i # 1  BY <1>3, <1>5
  <2>5. Len(chain) > 1
    <3>1. Len(chain) \in Nat \ {0} /\ Len(chain) # 1  BY <1>1, <2>2
    <3>2. \A n \in Nat \ {0} : n # 1 => n > 1  OBVIOUS
    <3> QED  BY <3>1, <3>2
  <2> QED  BY <1>5, <2>2, <2>3, <2>4, <2>5
<1> QED  BY <1>2, <1>4, <1>5

\* A slot that is not a link counts as its type, or as emptied from the side it lies on.
LEMMA Sided ==
  ASSUME ShapeInv, NEW k \in 1..Len(chain), NEW i \in Indices
  PROVE  SideOf(k, i) =
           IF TypeAt(chain[k], i) # "SEALED" THEN TypeAt(chain[k], i)
           ELSE IF k = 1 THEN "L" ELSE "R"
<1>1. CASE TypeAt(chain[k], i) # "SEALED"
  BY <1>1 DEF SideOf, TypeAt
<1>2. CASE TypeAt(chain[k], i) = "SEALED"
  <2>1. Len(chain) > 1 /\ ((k = 1 /\ i = LastIndex - 1) \/ (k = Len(chain) /\ i = 1))
    BY <1>2, ChainSeals
  <2>2. LastIndex - 1 # 1  BY OFDequeAssumption DEF LastIndex
  <2> QED  BY <1>2, <2>1, <2>2 DEF SideOf, TypeAt
<1> QED  BY <1>1, <1>2

\* An inner link slot is a link, so the slots of two buffers are of the sides they face:
\* everything left of the last buffer is not "R", everything right of the first not "L".
LEMMA FacingTypes ==
  ASSUME ShapeInv, NEW k \in 1..Len(chain), NEW i \in Indices
  PROVE  /\ k < Len(chain) => TypeAt(chain[k], i) # "R"
         /\ 1 < k => TypeAt(chain[k], i) # "L"
<1>1. Profiles /\ Published(chain[k]) /\ "L" \in Sides /\ Len(chain) \in Nat
  BY InnerLinks DEF ShapeInv, Chained, Sides
<1>2. 1 < k => TypeAt(chain[k], 0) = "VALUE"
  BY InnerLinks DEF LinksTo, TypeAt
<1>3. k < Len(chain) => TypeAt(chain[k], LastIndex) = "VALUE"
  <2>1. k < Len(chain) => LinksTo(chain[(k + 1) - 1], LastIndex, chain[k + 1])
    BY InnerLinks
  <2>2. k < Len(chain) => (k + 1) - 1 = k  OBVIOUS
  <2> QED  BY <2>1, <2>2 DEF LinksTo, TypeAt
<1>4. /\ i # 0 /\ TypeAt(chain[k], i) = "L" => TypeAt(chain[k], 0) = "L"
      /\ i # LastIndex /\ TypeAt(chain[k], i) = "R" => TypeAt(chain[k], LastIndex) = "R"
  <2>1. /\ \A x, y \in Indices : y < x =>
             /\ TypeAt(chain[k], x) = "L" => TypeAt(chain[k], y) = "L"
             /\ TypeAt(chain[k], y) = "R" => TypeAt(chain[k], x) = "R"
    BY <1>1, Looks DEF Outer, FarType, NearType, Opposite
  <2>2. 0 \in Indices /\ LastIndex \in Indices /\ LastIndex \in Nat
        /\ (i # 0 => 0 < i) /\ (i # LastIndex => i < LastIndex)
    BY OFDequeAssumption DEF Indices, LastIndex
  <2> QED  BY <2>1, <2>2
<1> QED  BY <1>2, <1>3, <1>4

\* From left to right, nothing that is "L" follows what is not, and nothing that is not
\* "R" follows what is.
LEMMA Ordered ==
  ASSUME ShapeInv, NEW p \in Places, NEW q \in Places, Before(p, q), ~IsLink(p), ~IsLink(q)
  PROVE  /\ SideOf(q[1], q[2]) = "L" => SideOf(p[1], p[2]) = "L"
         /\ SideOf(p[1], p[2]) = "R" => SideOf(q[1], q[2]) = "R"
<1> DEFINE k == p[1]
           i == p[2]
           l == q[1]
           j == q[2]
<1>1. /\ k \in 1..Len(chain) /\ l \in 1..Len(chain) /\ i \in Indices /\ j \in Indices
      /\ Len(chain) \in Nat \ {0} /\ Profiles
  BY InnerLinks DEF Places, ShapeInv, Chained
<1>2. CASE k < l
  <2>1. TypeAt(chain[k], i) # "R" /\ TypeAt(chain[l], j) # "L"
    BY <1>1, <1>2, FacingTypes
  <2>2. SideOf(k, i) # "R"
    BY <1>1, <1>2, <2>1, Sided, ChainSeals
  <2>3. SideOf(l, j) # "L"
    BY <1>1, <1>2, <2>1, Sided
  <2> QED  BY <2>2, <2>3
<1>3. CASE k = l /\ i < j
  <2> DEFINE b == chain[k]
  <2>1. /\ TypeAt(b, j) = "L" => TypeAt(b, i) = "L"
        /\ TypeAt(b, i) = "R" => TypeAt(b, j) = "R"
    <3>1. Published(b) /\ "L" \in Sides  BY <1>1, InnerLinks DEF Sides
    <3> QED  BY <1>1, <1>3, <3>1, Looks DEF Outer, FarType, NearType, Opposite
  <2>2. /\ SideOf(k, i) = IF TypeAt(b, i) # "SEALED" THEN TypeAt(b, i)
                           ELSE IF k = 1 THEN "L" ELSE "R"
        /\ SideOf(l, j) = IF TypeAt(b, j) # "SEALED" THEN TypeAt(b, j)
                           ELSE IF k = 1 THEN "L" ELSE "R"
    BY <1>1, <1>3, Sided
  <2>3. LastIndex \in Nat /\ LastIndex >= 3 /\ Indices = 0..LastIndex
    BY OFDequeAssumption DEF LastIndex, Indices
  <2>4. SideOf(l, j) = "L" => SideOf(k, i) = "L"
    <3>1. CASE TypeAt(b, j) # "SEALED" /\ TypeAt(b, i) # "SEALED"
      BY <2>1, <2>2, <3>1
    <3>2. CASE TypeAt(b, j) = "SEALED"
      <4>1. SideOf(l, j) = "L" => k = 1 /\ j = LastIndex - 1 /\ Len(chain) > 1
                                  /\ \A m \in 0..(LastIndex - 2) : TypeAt(b, m) = "L"
        BY <1>1, <2>2, <3>2, ChainSeals
      <4>2. j = LastIndex - 1 => i \in 0..(LastIndex - 2)
        BY <1>1, <1>3, <2>3
      <4> QED  BY <2>2, <4>1, <4>2
    <3>3. CASE TypeAt(b, i) = "SEALED" /\ TypeAt(b, j) # "SEALED"
      <4>1. SideOf(l, j) = "L" => TypeAt(b, i) = "L"  BY <2>1, <2>2, <3>3
      <4> QED  BY <3>3, <4>1
    <3> QED  BY <3>1, <3>2, <3>3
  <2>5. SideOf(k, i) = "R" => SideOf(l, j) = "R"
    <3>1. CASE TypeAt(b, j) # "SEALED" /\ TypeAt(b, i) # "SEALED"
      BY <2>1, <2>2, <3>1
    <3>2. CASE TypeAt(b, i) = "SEALED"
      <4>1. SideOf(k, i) = "R" => k = Len(chain) /\ i = 1 /\ k # 1
                                  /\ \A m \in 2..LastIndex : TypeAt(b, m) = "R"
        BY <1>1, <2>2, <3>2, ChainSeals
      <4>2. i = 1 => j \in 2..LastIndex
        BY <1>1, <1>3, <2>3
      <4> QED  BY <2>2, <4>1, <4>2
    <3>3. CASE TypeAt(b, j) = "SEALED" /\ TypeAt(b, i) # "SEALED"
      <4>1. SideOf(k, i) = "R" => TypeAt(b, j) = "R"  BY <2>1, <2>2, <3>3
      <4> QED  BY <3>3, <4>1
    <3> QED  BY <3>1, <3>2, <3>3
  <2> QED  BY <1>3, <2>4, <2>5
<1> QED  BY <1>1, <1>2, <1>3 DEF Before

\* ChainShape is what ShapeInv says of the linked buffers.
LEMMA ShapeImpliesChainShape == ShapeInv => ChainShape
<1> SUFFICES ASSUME ShapeInv PROVE ChainShape
  OBVIOUS
<1>1. Linked /\ Profiles  BY DEF ShapeInv, Chained
<1>2. ASSUME NEW k \in 1..(Len(chain) - 1)
      PROVE  /\ slots[chain[k]][LastIndex].type = "VALUE"
             /\ slots[chain[k]][LastIndex].val = chain[k + 1]
             /\ slots[chain[k + 1]][0].type = "VALUE"
             /\ slots[chain[k + 1]][0].val = chain[k]
  BY <1>1 DEF Linked, Mutual, LinksTo, FarLinkIndex, NearLinkIndex
<1>3. SideOf(1, 0) = "L" /\ SideOf(Len(chain), LastIndex) = "R"
  <2>1. 1 \in 1..Len(chain) /\ Len(chain) \in 1..Len(chain)  BY InnerLinks
  <2>2. TypeAt(chain[1], 0) = "L" /\ TypeAt(chain[Len(chain)], LastIndex) = "R"
    BY <1>1 DEF Linked
  <2> QED  BY <2>1, <2>2, Sided, Borders
<1>4. ASSUME NEW p \in Places PROVE SideOf(p[1], p[2]) # "SEALED"
  <2>1. p[1] \in 1..Len(chain) /\ p[2] \in Indices  BY InnerLinks DEF Places
  <2> QED  BY <2>1, Sided
<1> QED  BY <1>1, <1>2, <1>3, <1>4, Ordered DEF Linked, ChainShape

\* The first two buffers of the chain are not both sealed.
LEMMA ShapeImpliesActive == ShapeInv => SomeActive
<1> SUFFICES ASSUME ShapeInv PROVE SomeActive
  OBVIOUS
<1>1. Len(chain) \in Nat \ {0} /\ DOMAIN chain = 1..Len(chain)  BY InnerLinks
<1>2. 1 \in Indices /\ LastIndex - 1 \in Indices /\ 1 # LastIndex - 1
  BY OFDequeAssumption DEF Indices, LastIndex
<1>3. CASE ~IsSealed(chain[1])
  BY <1>1, <1>3 DEF SomeActive
<1>4. CASE IsSealed(chain[1])
  <2>1. 1 \in 1..Len(chain)  BY <1>1
  <2>2. Len(chain) > 1 /\ TypeAt(chain[1], LastIndex - 1) = "SEALED"
    BY <1>2, <1>4, <2>1, ChainSeals DEF IsSealed, TypeAt
  <2>3. 2 \in 1..Len(chain)  BY <1>1, <2>2
  <2>4. LinksTo(chain[2], 0, chain[2 - 1]) /\ LinksTo(chain[2 - 1], LastIndex, chain[2])
    BY <2>3, InnerLinks
  <2>5. Mutual("L", chain[2], chain[1])
    BY <2>4 DEF Mutual, FarLinkIndex, NearLinkIndex
  <2>6. Published(chain[1]) /\ Published(chain[2])
    BY <2>1, <2>3, InnerLinks
  <2>7. TypeAt(chain[2], 1) # "SEALED"
    BY <2>2, <2>5, <2>6 DEF ShapeInv, Chained, Linked, Published
  <2>8. TypeAt(chain[2], LastIndex - 1) # "SEALED"
    <3>1. TypeAt(chain[2], LastIndex - 1) = "SEALED" =>
            (2 = 1 /\ LastIndex - 1 = LastIndex - 1) \/ (2 = Len(chain) /\ LastIndex - 1 = 1)
      BY <1>2, <2>3, ChainSeals
    <3> QED  BY <1>2, <3>1
  <2> QED  BY <1>1, <2>3, <2>7, <2>8 DEF SomeActive, IsSealed, TypeAt
<1> QED  BY <1>3, <1>4

\* What a CAS writes over a seal is a seal.
LEMMA SealKept ==
  ASSUME ShapeInv, NEW t \in Threads, Step(t), NEW b \in Buffers, NEW i \in Indices,
         slots[b][i].type = "SEALED"
  PROVE  slots'[b][i].type = "SEALED"
<1>1. TypeOK /\ Profiles /\ Knows(t)  BY DEF ShapeInv, Chained
<1> DEFINE c == EffectTarget(t)
<1>2. CASE slots' = slots
  BY <1>2
<1>3. CASE Prepare(t)
  <2>1. PICK x \in Buffers : ~Published(x) /\ \A y \in Buffers : y # x => slots'[y] = slots[y]
    BY <1>3, PrepareSetting
  <2>2. \A j \in Indices : TypeAt(x, j) # "SEALED"
    <3>1. Private(x) /\ Caches  BY <2>1 DEF Published, ShapeInv, Chained
    <3>2. CASE x \in pool  BY <3>1, <3>2 DEF Caches
    <3>3. ASSUME NEW u \in Threads, NEW s \in Sides, cache[u][s] = x
          PROVE  \A j \in Indices : TypeAt(x, j) # "SEALED"
      <4>1. cache[u][s] # Null  BY <2>1, <3>3, OFDequeAssumption
      <4> QED  BY <3>1, <3>3, <4>1 DEF Caches, FarType, Sides
    <3> QED  BY <3>1, <3>2, <3>3 DEF Private
  <2> QED  BY <2>1, <2>2 DEF TypeAt
<1>4. CASE CasSafe(t) /\ Holds(SafeTarget(t))
  <2> DEFINE d == SafeTarget(t)
  <2>1. d.buf \in Buffers /\ d.idx \in Indices /\ Written(d.buf, d.idx, d.exp.type, d.exp.val)
    BY <1>1, <1>4, EffectWrites DEF CasSafe
  <2>2. slots[d.buf][d.idx].type = d.exp.type  BY <1>4 DEF Holds
  <2> QED  BY <2>1, <2>2 DEF Written
<1>5. ASSUME PushValue(t) \/ PushBuffer(t) \/ TakeValue(t) \/ RemoveNeighbor(t)
      PROVE  slots'[b][i].type = "SEALED"
  <2>1. pc[t] = "casEffect" /\ Holds(c)
    BY <1>5 DEF PushValue, PushBuffer, TakeValue, RemoveNeighbor, EffectOf
  <2>2. PICK ty, v : Swing(c, ty, v)
    BY <1>5 DEF PushValue, PushBuffer, TakeValue, RemoveNeighbor
  <2>3. c.buf \in Buffers /\ c.idx \in Indices /\ Written(c.buf, c.idx, ty, v)
    BY <1>1, <2>1, <2>2, EffectWrites
  <2>4. slots[c.buf][c.idx].type # "SEALED"
    <3>1. S(t) \in Sides  BY <2>1, Between
    <3>2. CASE Takes(t)
      BY <2>1, <3>2, Between, TargetFields DEF NearSlot
    <3>3. CASE ~Takes(t) /\ stage[t] \in {"interior", "append"}
      BY <2>1, <3>1, <3>3, Between, TargetFields, Mirror DEF FarSlot
    <3>4. CASE ~Takes(t) /\ stage[t] = "straddle"
      BY <2>1, <3>1, <3>4, Between, TargetFields, Mirror DEF ReachSlot
    <3>5. CASE ~Takes(t) /\ stage[t] = "remove"
      <4>1. c.buf = buf[t] /\ c.idx = FarIdx(t)  BY <3>5, TargetFields
      <4>2. idx[t] = FarValueIndex(S(t))  BY <2>1, <3>5, Between DEF Straddles, Crossing
      <4>3. FarIdx(t) = FarLinkIndex(S(t)) /\ Published(buf[t]) /\ FarIdx(t) \in Indices
        BY <2>1, <4>2, Between
      <4>4. TypeAt(buf[t], FarIdx(t)) \in {FarType(S(t)), "VALUE"}
        BY <1>1, <3>1, <4>3, Looks
      <4> QED  BY <3>1, <4>1, <4>4, Mirror DEF TypeAt
    <3> QED
      BY <1>5, <3>2, <3>3, <3>4, <3>5
         DEF PushValue, PushBuffer, TakeValue, RemoveNeighbor, EffectOf, Takes
  <2> QED  BY <2>3, <2>4 DEF Written
<1>6. CASE SealNeighbor(t)
  <2>1. pc[t] = "casEffect" /\ Holds(c) /\ Swing(c, "SEALED", Garbage)
    BY <1>6 DEF SealNeighbor, EffectOf
  <2>2. c.buf \in Buffers /\ c.idx \in Indices /\ Written(c.buf, c.idx, "SEALED", Garbage)
    BY <1>1, <2>1, EffectWrites
  <2> QED  BY <2>2 DEF Written
<1>7. Oracle(t) => slots' = slots
  BY DEF Oracle, LoadHint, ReserveHint, CheckHint, LoadLocal, ProbeInward, ProbeNear,
         ProbeOther, ProbeFar, ProbeLink, ReserveNbr, RecheckHint, ProbeNbr, shared
<1>8. UpdateHint(t) => slots' = slots
  BY DEF UpdateHint, UpdThreshold, UpdLoad, Sealed0, Sealed1, Sealed2, UpdLink, UpdReserve,
         UpdCheck, UpdCas, Retire, shared
<1>9. LoadNear(t) \/ LoadFar(t) \/ LoadReach(t) \/ LoadBack(t) \/ ConfirmEmpty(t)
        \/ EffectFails(t) \/ BumpLocal(t) \/ BumpGlobal(t) \/ Return(t) => slots' = slots
  BY DEF LoadNear, LoadFar, LoadReach, LoadBack, ConfirmEmpty, EffectFails, BumpLocal,
         BumpGlobal, Return, shared
<1>10. CasSafe(t) /\ ~Holds(SafeTarget(t)) => slots' = slots
  BY DEF CasSafe
<1> QED
  BY <1>2, <1>3, <1>4, <1>5, <1>6, <1>7, <1>8, <1>9, <1>10 DEF Step, Edge

\* Whatever pushes, seals and removals of the two sides are in progress, the chain is
\* doubly linked, closed at both ends, and reads LEFT...LEFT VALUE...VALUE RIGHT...RIGHT.
THEOREM ChainKeepsShape == Spec => []ChainShape
  BY ShapeCorrect, ShapeImpliesChainShape, PTL

\* Pops of the two sides never seal all linked buffers: one stays active, and the next
\* push, like updateHint, finds a place to go.
THEOREM ActiveBuffer == Spec => []SomeActive
  BY ShapeCorrect, ShapeImpliesActive, PTL

\* No push, pop or safe CAS reopens a sealed slot.
THEOREM SealsAreFinal == Spec => SealIsFinal
<1>1. ASSUME ShapeInv, [Next]_vars, NEW b \in Buffers, NEW i \in Indices,
             slots[b][i].type = "SEALED"
      PROVE  slots'[b][i].type = "SEALED"
  <2>1. CASE slots' = slots  BY <1>1, <2>1
  <2>2. ASSUME NEW t \in Threads, Step(t) PROVE slots'[b][i].type = "SEALED"
    BY <1>1, <2>2, SealKept
  <2>3. ASSUME NEW t \in Threads, NEW o \in Operations, Call(t, o) PROVE slots' = slots
    BY <2>3 DEF Call, shared
  <2> QED  BY <1>1, <2>1, <2>2, <2>3 DEF Next, vars, shared
<1>2. ShapeInv /\ [Next]_vars =>
        [\A b \in Buffers, i \in Indices :
           slots[b][i].type = "SEALED" => slots'[b][i].type = "SEALED"]_vars
  BY <1>1
<1> QED  BY <1>2, ShapeCorrect, PTL DEF Spec, SealIsFinal
=============================================================================
