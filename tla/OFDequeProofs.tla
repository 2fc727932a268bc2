--------------------------- MODULE OFDequeProofs ---------------------------
(***************************************************************************)
(* Type correctness of OFDeque, and the reservations of its searches, for  *)
(* any number of threads, buffers, values and slots per buffer; and the    *)
(* inductive invariants of the chain, with the lemmas about it.            *)
(*                                                                         *)
(* ShapeInv says what the chain always looks like, and what the threads    *)
(* know of it: what every buffer looks like that other threads can reach   *)
(* (Profile), how these buffers are linked (Linked), and what a thread     *)
(* knows of the slots it has snapshots of (Knows, Busy, NoCross).          *)
(* RetireInv says why a buffer is out of reach of the hints when it is     *)
(* retired: no store of a global hint that is under way can bring it back. *)
(* ReserveInv says the same of the searches.                               *)
(*                                                                         *)
(* The lemmas about the chain say what each kind of CAS does to Profiles,  *)
(* Caches and Linked, and what stays true of the others' snapshots.  They  *)
(* mention no action: module OFDequeShapeProofs applies them to the        *)
(* actions.                                                                *)
(***************************************************************************)
EXTENDS OFDeque, TLAPS, SequenceTheorems

-----------------------------------------------------------------------------
(* Lemmas about the indices of a buffer, the slots and the operations. *)

\* The four special indices are inside a buffer, the value indices are not the link
\* indices of their side, and a move outwards from any index but the far link (and
\* inwards from any but the near link) stays inside.
LEMMA Geometry ==
  ASSUME NEW s \in Sides
  PROVE  /\ FarLinkIndex(s) \in Indices /\ NearLinkIndex(s) \in Indices
         /\ FarValueIndex(s) \in Indices /\ NearValueIndex(s) \in Indices
         /\ FarValueIndex(s) # FarLinkIndex(s) /\ NearLinkIndex(s) # FarLinkIndex(s)
         /\ FarLinkIndex(s) - FarDirection(s) \in Indices
         /\ \A i \in Indices : i # FarLinkIndex(s) => i + FarDirection(s) \in Indices
         /\ \A i \in Indices : i # NearLinkIndex(s) => i - FarDirection(s) \in Indices
         /\ FarDirection(s) \in Int
  BY OFDequeAssumption
     DEF Sides, Indices, LastIndex, FarLinkIndex, NearLinkIndex, FarValueIndex,
         NearValueIndex, FarDirection

\* The constants of a buffer are indices, and clamping any integer gives one.
LEMMA Borders ==
  /\ 0 \in Indices /\ 1 \in Indices /\ LastIndex \in Indices /\ LastIndex - 1 \in Indices
  /\ Split \in Int
  /\ \A i \in Int : Clamp(i) \in Indices
  BY OFDequeAssumption DEF Indices, LastIndex, Clamp, Split

\* The fields of the records the program handles.
LEMMA OpType ==
  ASSUME NEW o \in Operations
  PROVE  o.side \in Sides /\ (o.kind = "push" => o.val \in Values)
  BY DEF Operations, Push, Pop

\* A slot is a type, a word and a count.
LEMMA SlotFields ==
  \A s \in Slots : s.type \in Types /\ s.val \in Words /\ s.cnt \in Nat
  BY DEF Slots

\* And any three of them make a slot.
LEMMA SlotType ==
  ASSUME NEW ty \in Types, NEW v \in Words, NEW c \in Nat
  PROVE  Slot(ty, v, c) \in Slots
  BY DEF Slots, Slot

\* The slot a successful CAS leaves, and that slot retyped by sealing or unsealing.
LEMMA BumpedType ==
  ASSUME NEW s \in Slots
  PROVE  /\ Bumped(s) \in Slots
         /\ \A ty \in Types : [Bumped(s) EXCEPT !.type = ty] \in Slots
<1>1. Bumped(s) \in Slots
  BY DEF Slots, Bumped
<1>2. ASSUME NEW ty \in Types, NEW r \in Slots PROVE [r EXCEPT !.type = ty] \in Slots
  BY DEF Slots
<1> QED  BY <1>1, <1>2

\* The types, words and sides the program writes.
LEMMA Members ==
  /\ \A s \in Sides : FarType(s) \in Types /\ NearType(s) \in Types
  /\ Garbage \in Words /\ Values \subseteq Words /\ Buffers \subseteq Words
  /\ "VALUE" \in Types /\ "SEALED" \in Types /\ "L" \in Types /\ "R" \in Types
  /\ "L" \in Sides /\ "R" \in Sides
  BY DEF Types, Words, Sides, FarType, NearType, Opposite

\* The values the locals hold before a call.
LEMMA BlankType ==
  NoSlot \in Slots /\ NoHint \in Hints /\ NoUpdate \in Updates
  BY OFDequeAssumption, SlotType, Members DEF NoSlot, NoHint, NoUpdate, Hints, Updates

-----------------------------------------------------------------------------
(* One lemma per action: what it assigns has its type, and t ends in a place where *)
(* the indices and pointers it is going to use are good.                            *)

\* What a step of t leaves alone of the other threads.
OthersSame(t) ==
  \A u \in Threads \ {t} :
    /\ pc'[u] = pc[u] /\ op'[u] = op[u] /\ idx'[u] = idx[u]
    /\ nbr'[u] = nbr[u] /\ stage'[u] = stage[u]

\* TypeOK after a step of t, from what the step shows of t alone.
LEMMA Assemble ==
  ASSUME TypeOK, NEW t \in Threads, OthersSame(t), VarTypes', PlaceOK(t)'
  PROVE  TypeOK'
<1>1. ASSUME NEW u \in Threads, u # t PROVE PlaceOK(u)'
  BY DEF OthersSame, TypeOK, PlaceOK, UsesNbr, S, Pushing
<1> QED  BY <1>1 DEF TypeOK

\* The types of what thread t reads.
LEMMA Reads ==
  ASSUME TypeOK, NEW t \in Threads
  PROVE  /\ S(t) \in Sides /\ op[t] \in Operations /\ pc[t] \in Locations
         /\ hint[t] \in Hints /\ hint[t].buf \in Buffers /\ hint[t].cnt \in Nat
         /\ buf[t] \in Buffers /\ idx[t] \in Indices /\ haz[t] \in {0, 1}
         /\ near[t] \in Slots /\ far[t] \in Slots /\ reach[t] \in Slots
         /\ stage[t] \in Stages /\ upd[t] \in Updates /\ nbr[t] \in Words0
         /\ \A b \in Buffers, i \in Indices : slots[b][i] \in Slots
         /\ \A s \in Sides : /\ globalHint[s] \in Hints
                              /\ globalHint[s].buf \in Buffers /\ globalHint[s].cnt \in Nat
         /\ (Pushing(t) => op[t].val \in Values)
<1>1. op[t] \in Operations  BY DEF TypeOK, VarTypes
<1>2. S(t) \in Sides /\ (Pushing(t) => op[t].val \in Values)
  BY <1>1, OpType DEF S, Pushing
<1>3. hint[t] \in Hints /\ upd[t] \in Updates  BY DEF TypeOK, VarTypes
<1>4. \A s \in Sides : globalHint[s] \in Hints  BY DEF TypeOK, VarTypes
<1> QED  BY <1>2 DEF TypeOK, VarTypes, Hints

\* The fields of the record of a findActiveBuffer call.
LEMMA UpdFields ==
  ASSUME NEW u \in Updates
  PROVE  /\ u.side \in Sides /\ u.threshold \in Nat /\ u.hint \in Hints
         /\ u.hint.buf \in Buffers /\ u.hint.cnt \in Nat /\ u.cand \in Buffers
         /\ u.n0 \in Slots /\ u.n1 \in Slots /\ u.link \in Words /\ u.haz \in {0, 1}
         /\ u.finding \in BOOLEAN
  BY DEF Updates, Hints

\* The edits of that record, one field at a time.
LEMMA UpdEdits ==
  ASSUME NEW u \in Updates
  PROVE  /\ \A n \in Nat : [u EXCEPT !.threshold = n] \in Updates
         /\ \A h \in Hints : [u EXCEPT !.hint = h] \in Updates
         /\ \A b \in Buffers : [u EXCEPT !.cand = b] \in Updates
         /\ \A s \in Slots : [u EXCEPT !.n0 = s] \in Updates /\ [u EXCEPT !.n1 = s] \in Updates
         /\ \A w \in Words : [u EXCEPT !.link = w] \in Updates
         /\ \A h \in {0, 1} : [u EXCEPT !.haz = h] \in Updates
         /\ \A f \in BOOLEAN : [u EXCEPT !.finding = f] \in Updates
         /\ \A s \in Sides : [u EXCEPT !.side = s] \in Updates
  BY DEF Updates

\* A CAS on a slot of a buffer leaves a slot of that buffer.
LEMMA SwingType ==
  ASSUME TypeOK, NEW c, c.buf \in Buffers, c.idx \in Indices, c.exp \in Slots,
         NEW ty \in Types, NEW v \in Words, Swing(c, ty, v)
  PROVE  slots' \in [Buffers -> [Indices -> Slots]]
<1>1. Slot(ty, v, c.exp.cnt + 1) \in Slots  BY SlotFields, SlotType
<1> QED  BY <1>1 DEF Swing, TypeOK, VarTypes

\* A call records an operation and nothing else.
LEMMA CallTypes ==
  ASSUME TypeOK, NEW t \in Threads, NEW o \in Operations, Call(t, o)
  PROVE  TypeOK'
<1>1. VarTypes'
  BY DEF Call, TypeOK, VarTypes, Locations, Goto, shared, edge, snaps
<1>2. PlaceOK(t)'
  BY DEF Call, PlaceOK, UsesNbr, AtEdge, Updating, Goto
<1>3. OthersSame(t)
  BY DEF Call, OthersSame, Goto, edge
<1> QED  BY <1>1, <1>2, <1>3, Assemble

\* The global hint is typed, and a retry clears the locals to typed values.
LEMMA LoadHintTypes ==
  ASSUME TypeOK, NEW t \in Threads, LoadHint(t)
  PROVE  TypeOK'
<1>1. VarTypes'
  BY Reads, BlankType, Borders, OFDequeAssumption
     DEF LoadHint, TypeOK, VarTypes, Locations, Goto, shared, Forget, Stages, Words0
<1>2. PlaceOK(t)'
  BY DEF LoadHint, PlaceOK, UsesNbr, AtEdge, Updating, Goto
<1>3. OthersSame(t)
  BY DEF LoadHint, OthersSame, Goto, Forget
<1> QED  BY <1>1, <1>2, <1>3, Assemble

\* The hint's buffer is a word a reservation can hold.
LEMMA ReserveHintTypes ==
  ASSUME TypeOK, NEW t \in Threads, ReserveHint(t)
  PROVE  TypeOK'
<1>1. VarTypes'
  BY Reads, Members
     DEF ReserveHint, TypeOK, VarTypes, Locations, Goto, edge, snaps, Words0
<1>2. PlaceOK(t)'
  BY DEF ReserveHint, PlaceOK, UsesNbr, AtEdge, Updating, Goto
<1>3. OthersSame(t)
  BY DEF ReserveHint, OthersSame, Goto, edge
<1> QED  BY <1>1, <1>2, <1>3, Assemble

\* The search starts in the hint's buffer, with either reservation next.
LEMMA CheckHintTypes ==
  ASSUME TypeOK, NEW t \in Threads, CheckHint(t)
  PROVE  TypeOK'
<1>1. VarTypes'
  BY Reads DEF CheckHint, TypeOK, VarTypes, Locations, Searching, Goto, shared, snaps
<1>2. PlaceOK(t)'
  BY DEF CheckHint, PlaceOK, UsesNbr, AtEdge, Updating, Goto
<1>3. OthersSame(t)
  BY DEF CheckHint, OthersSame, Goto
<1> QED  BY <1>1, <1>2, <1>3, Assemble

\* A local hint may be any integer, but the clamped index is inside the buffer.
LEMMA LoadLocalTypes ==
  ASSUME TypeOK, NEW t \in Threads, LoadLocal(t)
  PROVE  TypeOK'
<1>1. VarTypes'
  BY Reads, Borders
     DEF LoadLocal, TypeOK, VarTypes, Locations, Searching, Goto, shared, snaps
<1>2. PlaceOK(t)'
  BY DEF LoadLocal, PlaceOK, UsesNbr, AtEdge, Updating, Goto
<1>3. OthersSame(t)
  BY DEF LoadLocal, OthersSame, Goto
<1> QED  BY <1>1, <1>2, <1>3, Assemble

\* A move inwards is made only short of the near link.
LEMMA ProbeInwardTypes ==
  ASSUME TypeOK, NEW t \in Threads, ProbeInward(t)
  PROVE  TypeOK'
<1>1. VarTypes'
  BY Reads, Geometry DEF ProbeInward, TypeOK, VarTypes, shared, snaps, Inward
<1>2. PlaceOK(t)'
  BY DEF ProbeInward, PlaceOK, UsesNbr, AtEdge, Updating
<1>3. OthersSame(t)
  BY DEF ProbeInward, OthersSame
<1> QED  BY <1>1, <1>2, <1>3, Assemble

\* A read on the near side of the edge leaves the index alone.
LEMMA ProbeNearTypes ==
  ASSUME TypeOK, NEW t \in Threads, ProbeNear(t)
  PROVE  TypeOK'
<1>1. VarTypes'
  BY DEF ProbeNear, TypeOK, VarTypes, Locations, Searching, Goto, shared, edge, snaps
<1>2. PlaceOK(t)'
  BY DEF ProbeNear, PlaceOK, UsesNbr, Updating, S, Goto, edge, NearSide
<1>3. OthersSame(t)
  BY DEF ProbeNear, OthersSame, Goto, edge
<1> QED  BY <1>1, <1>2, <1>3, Assemble

\* The neighbor is a value read from a slot, hence a word.
LEMMA ProbeOtherTypes ==
  ASSUME TypeOK, NEW t \in Threads, ProbeOther(t)
  PROVE  TypeOK'
<1>1. VarTypes'
  BY SlotFields
     DEF ProbeOther, TypeOK, VarTypes, Locations, Searching, Goto, shared, snaps, Probed,
         Words0
<1>2. PlaceOK(t)'
  BY DEF ProbeOther, PlaceOK, UsesNbr, AtEdge, Updating, Goto
<1>3. OthersSame(t)
  BY DEF ProbeOther, OthersSame, Goto
<1> QED  BY <1>1, <1>2, <1>3, Assemble

\* A move outwards is made only short of the far link.
LEMMA ProbeFarTypes ==
  ASSUME TypeOK, NEW t \in Threads, ProbeFar(t)
  PROVE  TypeOK'
<1>1. idx[t] # FarLinkIndex(S(t)) => FarIdx(t) \in Indices
  BY Reads, Geometry DEF FarIdx
<1>2. VarTypes'
  BY Reads, <1>1
     DEF ProbeFar, TypeOK, VarTypes, Locations, Searching, AtEdge, Updating, Finishing,
         Goto, shared, edge, snaps, PlaceOK
<1>3. PlaceOK(t)'
  BY DEF ProbeFar, PlaceOK, UsesNbr, AtEdge, Updating, S, Goto, TypeOK, VarTypes
<1>4. OthersSame(t)
  BY DEF ProbeFar, OthersSame, TypeOK, VarTypes, Goto
<1> QED  BY <1>2, <1>3, <1>4, Assemble

\* The neighbor is a value read from the link past the edge.
LEMMA ProbeLinkTypes ==
  ASSUME TypeOK, NEW t \in Threads, ProbeLink(t)
  PROVE  TypeOK'
<1>1. VarTypes'
  BY Reads, Geometry, SlotFields
     DEF ProbeLink, TypeOK, VarTypes, Locations, Searching, Goto, shared, snaps, Words0
<1>2. PlaceOK(t)'
  BY DEF ProbeLink, PlaceOK, UsesNbr, AtEdge, Updating, Goto
<1>3. OthersSame(t)
  BY DEF ProbeLink, OthersSame, Goto
<1> QED  BY <1>1, <1>2, <1>3, Assemble

\* The neighbor goes into a reservation.
LEMMA ReserveNbrTypes ==
  ASSUME TypeOK, NEW t \in Threads, ReserveNbr(t)
  PROVE  TypeOK'
<1>1. VarTypes'
  BY DEF ReserveNbr, TypeOK, VarTypes, Locations, Searching, Goto, snaps
<1>2. PlaceOK(t)'
  BY DEF ReserveNbr, PlaceOK, UsesNbr, AtEdge, Updating, Goto
<1>3. OthersSame(t)
  BY DEF ReserveNbr, OthersSame, Goto
<1> QED  BY <1>1, <1>2, <1>3, Assemble

\* The check changes the place only.
LEMMA RecheckHintTypes ==
  ASSUME TypeOK, NEW t \in Threads, RecheckHint(t)
  PROVE  TypeOK'
<1>1. VarTypes'
  BY DEF RecheckHint, TypeOK, VarTypes, Locations, Searching, Goto, shared, edge, snaps
<1>2. PlaceOK(t)'
  BY DEF RecheckHint, PlaceOK, UsesNbr, AtEdge, Updating, Goto, edge
<1>3. OthersSame(t)
  BY DEF RecheckHint, OthersSame, Goto, edge
<1> QED  BY <1>1, <1>2, <1>3, Assemble

\* The search enters the neighbor, or stays at the far value of its buffer.
LEMMA ProbeNbrTypes ==
  ASSUME TypeOK, NEW t \in Threads, ProbeNbr(t)
  PROVE  TypeOK'
<1>1. VarTypes'
  BY Reads, Geometry
     DEF ProbeNbr, TypeOK, VarTypes, Locations, Searching, AtEdge, Goto, shared, snaps,
         PlaceOK, UsesNbr
<1>2. PlaceOK(t)'
  BY Reads, Geometry
     DEF ProbeNbr, PlaceOK, UsesNbr, AtEdge, Updating, S, Goto, TypeOK, VarTypes
<1>3. OthersSame(t)
  BY DEF ProbeNbr, OthersSame, Goto
<1> QED  BY <1>1, <1>2, <1>3, Assemble

\* The near slot of the edge is a slot of the buffer.
LEMMA LoadNearTypes ==
  ASSUME TypeOK, NEW t \in Threads, LoadNear(t)
  PROVE  TypeOK'
<1>1. VarTypes'
  BY DEF LoadNear, TypeOK, VarTypes, Locations, AtEdge, Goto, shared, edge
<1>2. PlaceOK(t)'
  BY DEF LoadNear, PlaceOK, UsesNbr, AtEdge, Updating, S, Goto, TypeOK, edge
<1>3. OthersSame(t)
  BY DEF LoadNear, OthersSame, Goto, edge
<1> QED  BY <1>1, <1>2, <1>3, Assemble

\* So is the far one, as an edge never lies on the far link.
LEMMA LoadFarTypes ==
  ASSUME TypeOK, NEW t \in Threads, LoadFar(t)
  PROVE  TypeOK'
<1>1. FarIdx(t) \in Indices
  BY Reads, Geometry DEF LoadFar, TypeOK, PlaceOK, AtEdge, FarIdx
<1>2. slots[buf[t]][FarIdx(t)] \in Slots /\ slots[buf[t]][FarIdx(t)].val \in Words
  BY <1>1, Reads, SlotFields
<1>3. VarTypes'
  <2>1. far' \in [Threads -> Slots]  BY <1>2 DEF LoadFar, TypeOK, VarTypes
  <2>2. nbr' \in [Threads -> Words0]
    BY <1>2 DEF LoadFar, TypeOK, VarTypes, Words0
  <2>3. stage' \in [Threads -> Stages]
    BY DEF LoadFar, TypeOK, VarTypes, BeginStage, Stages
  <2>4. pc' \in [Threads -> Locations]
    BY DEF LoadFar, TypeOK, VarTypes, BeginStage, Goto, Locations, AtEdge
  <2> QED  BY <2>1, <2>2, <2>3, <2>4 DEF LoadFar, TypeOK, VarTypes, shared
<1>4. PlaceOK(t)'
  BY DEF LoadFar, PlaceOK, UsesNbr, AtEdge, Updating, S, Pushing, Goto, TypeOK, VarTypes,
         BeginStage
<1>5. OthersSame(t)
  BY DEF LoadFar, OthersSame, TypeOK, VarTypes, Goto, BeginStage
<1> QED  BY <1>3, <1>4, <1>5, Assemble

\* The third slot is the neighbor's near value, as the neighbor is a buffer.
LEMMA LoadReachTypes ==
  ASSUME TypeOK, NEW t \in Threads, LoadReach(t)
  PROVE  TypeOK'
<1>1. VarTypes'
  BY Reads, Geometry
     DEF LoadReach, TypeOK, VarTypes, Locations, AtEdge, Goto, shared, edge, PlaceOK,
         UsesNbr
<1>2. PlaceOK(t)'
  BY DEF LoadReach, PlaceOK, UsesNbr, AtEdge, S, Goto, TypeOK, edge
<1>3. OthersSame(t)
  BY DEF LoadReach, OthersSame, Goto, edge
<1> QED  BY <1>1, <1>2, <1>3, Assemble

\* The link back decides the stage.
LEMMA LoadBackTypes ==
  ASSUME TypeOK, NEW t \in Threads, LoadBack(t)
  PROVE  TypeOK'
<1>1. VarTypes'
  BY Reads
     DEF LoadBack, TypeOK, VarTypes, Locations, Searching, AtEdge, Updating, Finishing,
         Goto, shared, edge, snaps, BeginStage, Stages
<1>2. PlaceOK(t)'
  BY DEF LoadBack, PlaceOK, UsesNbr, AtEdge, S, Goto, TypeOK, VarTypes, edge, BeginStage
<1>3. OthersSame(t)
  BY DEF LoadBack, OthersSame, TypeOK, VarTypes, Goto, edge, BeginStage
<1> QED  BY <1>1, <1>2, <1>3, Assemble

\* A pop that finds nothing has a result of the right type.
LEMMA ConfirmEmptyTypes ==
  ASSUME TypeOK, NEW t \in Threads, ConfirmEmpty(t)
  PROVE  TypeOK'
<1>1. VarTypes'
  BY DEF ConfirmEmpty, TypeOK, VarTypes, Locations, AtEdge, Finishing, Goto, shared, edge,
         snaps
<1>2. PlaceOK(t)'
  BY DEF ConfirmEmpty, PlaceOK, UsesNbr, AtEdge, Updating, S, Goto, TypeOK, edge
<1>3. OthersSame(t)
  BY DEF ConfirmEmpty, OthersSame, Goto, edge
<1> QED  BY <1>1, <1>2, <1>3, Assemble

\* A buffer from the pool is filled with slots and linked.
LEMMA PrepareTypes ==
  ASSUME TypeOK, NEW t \in Threads, Prepare(t)
  PROVE  TypeOK'
<1>1. S(t) \in Sides /\ op[t].val \in Words /\ buf[t] \in Words
  BY Reads, Members DEF Prepare, TypeOK, PlaceOK
<1>2. VarTypes'
  <2> DEFINE s == S(t)
             blank(b, c) == IF cache[t][s] = Null
                              THEN [i \in Indices |-> Slot(FarType(s), Garbage, c)]
                              ELSE slots[b]
             filled(b, c) == [blank(b, c) EXCEPT
                                ![NearLinkIndex(s)]  = Slot("VALUE", buf[t], c),
                                ![NearValueIndex(s)] = Slot("VALUE", op[t].val, c)]
  <2>1. PICK c \in GarbageCounts, b \in (IF cache[t][s] = Null THEN pool ELSE {cache[t][s]}) :
          /\ slots' = [slots EXCEPT ![b] = filled(b, c)]
          /\ localHint' = IF cache[t][s] = Null
                            THEN [localHint EXCEPT ![b] = [u \in Sides |-> NearValueIndex(s)]]
                            ELSE localHint
          /\ pool' = pool \ {b}
          /\ cache' = [cache EXCEPT ![t][s] = b]
          /\ nbr' = [nbr EXCEPT ![t] = b]
    BY DEF Prepare
  <2>2. b \in Buffers  BY <1>1 DEF TypeOK, VarTypes
  <2>3. c \in Nat  BY OFDequeAssumption
  <2>4. /\ Slot(FarType(s), Garbage, c) \in Slots
        /\ Slot("VALUE", buf[t], c) \in Slots /\ Slot("VALUE", op[t].val, c) \in Slots
    BY <1>1, <2>3, SlotType, Members
  <2>5. blank(b, c) \in [Indices -> Slots]
    BY <2>2, <2>4 DEF TypeOK, VarTypes
  <2> HIDE DEF blank
  <2>6. filled(b, c) \in [Indices -> Slots]
    BY <2>4, <2>5
  <2> HIDE DEF filled
  <2>7. slots' \in [Buffers -> [Indices -> Slots]]
    BY <2>1, <2>6 DEF TypeOK, VarTypes
  <2>8. NearValueIndex(s) \in Int
    BY <1>1, Geometry DEF Indices
  <2>9. localHint' \in [Buffers -> [Sides -> Int]]
    BY <2>1, <2>8 DEF TypeOK, VarTypes
  <2>10. /\ pool' \subseteq Buffers /\ nbr' \in [Threads -> Words0]
         /\ cache' \in [Threads -> [Sides -> Buffers \cup {Null}]]
    BY <2>1, <2>2, Members DEF TypeOK, VarTypes, Words0
  <2>11. pc' \in [Threads -> Locations]
    BY DEF Prepare, TypeOK, VarTypes, Locations, AtEdge, Goto
  <2> QED
    BY <2>7, <2>9, <2>10, <2>11 DEF Prepare, TypeOK, VarTypes, snaps
<1>3. PlaceOK(t)'
  BY Reads DEF Prepare, PlaceOK, AtEdge, S, Goto, TypeOK, VarTypes
<1>4. OthersSame(t)
  BY DEF Prepare, OthersSame, Goto
<1> QED  BY <1>2, <1>3, <1>4, Assemble

\* The targets of the CASes are slots of buffers.
LEMMA CasTypes ==
  ASSUME TypeOK, NEW t \in Threads, pc[t] \in {"casSafe", "casEffect"}
  PROVE  /\ SafeTarget(t).buf \in Buffers /\ SafeTarget(t).idx \in Indices
         /\ SafeTarget(t).exp \in Slots
         /\ EffectTarget(t).buf \in Buffers /\ EffectTarget(t).idx \in Indices
         /\ EffectTarget(t).exp \in Slots
<1>1. FarIdx(t) \in Indices
  BY Reads, Geometry DEF TypeOK, PlaceOK, AtEdge, FarIdx
<1>2. stage[t] \in {"straddle", "seal"} => nbr[t] \in Buffers
  BY DEF TypeOK, PlaceOK, UsesNbr
<1>3. NearValueIndex(S(t)) \in Indices
  BY Reads, Geometry
<1> QED
  BY <1>1, <1>2, <1>3, Reads
     DEF SafeTarget, EffectTarget, Target, NearTarget, FarTarget, ReachTarget

\* The first CAS of a pair writes the expected slot back, with its count bumped.
LEMMA CasSafeTypes ==
  ASSUME TypeOK, NEW t \in Threads, CasSafe(t)
  PROVE  TypeOK'
<1>1. /\ SafeTarget(t).buf \in Buffers /\ SafeTarget(t).idx \in Indices
       /\ SafeTarget(t).exp \in Slots
  BY CasTypes DEF CasSafe
<1>2. SafeTarget(t).exp.type \in Types /\ SafeTarget(t).exp.val \in Words
  BY <1>1, SlotFields
<1>3. slots' \in [Buffers -> [Indices -> Slots]]
  BY <1>1, <1>2, SwingType DEF CasSafe, TypeOK, VarTypes
<1>4. VarTypes'
  BY <1>3 DEF CasSafe, TypeOK, VarTypes, Locations, AtEdge, Goto, edge, snaps
<1>5. PlaceOK(t)'
  BY DEF CasSafe, PlaceOK, UsesNbr, AtEdge, Updating, S, Goto, TypeOK, VarTypes, edge
<1>6. OthersSame(t)
  BY DEF CasSafe, OthersSame, TypeOK, VarTypes, Goto, edge
<1> QED  BY <1>4, <1>5, <1>6, Assemble

\* A failed second CAS starts the operation again.
LEMMA EffectFailsTypes ==
  ASSUME TypeOK, NEW t \in Threads, EffectFails(t)
  PROVE  TypeOK'
<1>1. VarTypes'
  BY DEF EffectFails, TypeOK, VarTypes, Locations, Goto, shared, edge, snaps
<1>2. PlaceOK(t)'
  BY DEF EffectFails, PlaceOK, UsesNbr, AtEdge, Updating, Goto, TypeOK, VarTypes
<1>3. OthersSame(t)
  BY DEF EffectFails, OthersSame, Goto, edge
<1> QED  BY <1>1, <1>2, <1>3, Assemble

\* A push writes its value into the far slot, or beyond a straddling edge.
LEMMA PushValueTypes ==
  ASSUME TypeOK, NEW t \in Threads, PushValue(t)
  PROVE  TypeOK'
<1>1. slots' \in [Buffers -> [Indices -> Slots]]
  BY Reads, CasTypes, SwingType, Members DEF PushValue, EffectOf
<1>2. VarTypes'
  BY Reads, <1>1, Members
     DEF PushValue, TypeOK, VarTypes, Locations, Finishing, Goto, edge, snaps
<1>3. PlaceOK(t)'
  BY DEF PushValue, PlaceOK, UsesNbr, AtEdge, Updating, Goto, TypeOK, VarTypes, edge,
         EffectOf
<1>4. OthersSame(t)
  BY DEF PushValue, OthersSame, Goto, edge
<1> QED  BY <1>2, <1>3, <1>4, Assemble

\* An append writes the new buffer into the far link.
LEMMA PushBufferTypes ==
  ASSUME TypeOK, NEW t \in Threads, PushBuffer(t)
  PROVE  TypeOK'
<1>1. nbr[t] \in Words
  BY Members DEF PushBuffer, EffectOf, TypeOK, PlaceOK, UsesNbr
<1>2. slots' \in [Buffers -> [Indices -> Slots]]
  BY <1>1, CasTypes, SwingType, Members DEF PushBuffer, EffectOf
<1>3. VarTypes'
  BY Reads, <1>2, Members
     DEF PushBuffer, TypeOK, VarTypes, Locations, Finishing, Goto, edge, snaps
<1>4. PlaceOK(t)'
  BY DEF PushBuffer, PlaceOK, UsesNbr, AtEdge, S, Goto, TypeOK, edge, EffectOf
<1>5. OthersSame(t)
  BY DEF PushBuffer, OthersSame, Goto, edge
<1> QED  BY <1>3, <1>4, <1>5, Assemble

\* A pop turns the near slot into a null of its side.
LEMMA TakeValueTypes ==
  ASSUME TypeOK, NEW t \in Threads, TakeValue(t)
  PROVE  TypeOK'
<1>1. slots' \in [Buffers -> [Indices -> Slots]]
  BY Reads, CasTypes, SwingType, Members DEF TakeValue, EffectOf
<1>2. VarTypes'
  BY <1>1, SlotFields
     DEF TakeValue, TypeOK, VarTypes, Locations, Finishing, Goto, edge, snaps
<1>3. PlaceOK(t)'
  BY DEF TakeValue, PlaceOK, UsesNbr, AtEdge, Updating, Pushing, Goto, TypeOK, VarTypes,
         Takes
<1>4. OthersSame(t)
  BY DEF TakeValue, OthersSame, Goto, edge
<1> QED  BY <1>2, <1>3, <1>4, Assemble

\* A seal rewrites the neighbor's near value.
LEMMA SealNeighborTypes ==
  ASSUME TypeOK, NEW t \in Threads, SealNeighbor(t)
  PROVE  TypeOK'
<1>1. slots' \in [Buffers -> [Indices -> Slots]]
  BY CasTypes, SwingType, Members DEF SealNeighbor, EffectOf
<1>2. VarTypes'
  BY <1>1, BumpedType, Members
     DEF SealNeighbor, TypeOK, VarTypes, Locations, AtEdge, Goto, edge, BeginStage, Stages
<1>3. PlaceOK(t)'
  BY DEF SealNeighbor, PlaceOK, UsesNbr, AtEdge, S, Goto, TypeOK, edge, EffectOf,
         BeginStage
<1>4. OthersSame(t)
  BY DEF SealNeighbor, OthersSame, Goto, edge, BeginStage
<1> QED  BY <1>2, <1>3, <1>4, Assemble

\* A removal unlinks the neighbor and starts retire.
LEMMA RemoveNeighborTypes ==
  ASSUME TypeOK, NEW t \in Threads, RemoveNeighbor(t)
  PROVE  TypeOK'
<1>1. slots' \in [Buffers -> [Indices -> Slots]]
  BY Reads, CasTypes, SwingType, Members DEF RemoveNeighbor, EffectOf
<1>2. VarTypes'
  BY <1>1, BlankType
     DEF RemoveNeighbor, TypeOK, VarTypes, Locations, Updating, Goto, edge, snaps
<1>3. PlaceOK(t)'
  BY DEF RemoveNeighbor, PlaceOK, UsesNbr, AtEdge, S, Goto, TypeOK, edge, EffectOf
<1>4. OthersSame(t)
  BY DEF RemoveNeighbor, OthersSame, Goto, edge
<1> QED  BY <1>2, <1>3, <1>4, Assemble

\* The local hint moves by one.
LEMMA BumpLocalTypes ==
  ASSUME TypeOK, NEW t \in Threads, BumpLocal(t)
  PROVE  TypeOK'
<1>1. VarTypes'
  BY Reads, Geometry
     DEF BumpLocal, TypeOK, VarTypes, Locations, Finishing, Goto, edge, snaps
<1>2. PlaceOK(t)'
  BY DEF BumpLocal, PlaceOK, UsesNbr, AtEdge, Updating, Goto
<1>3. OthersSame(t)
  BY DEF BumpLocal, OthersSame, Goto, edge
<1> QED  BY <1>1, <1>2, <1>3, Assemble

\* The global hint keeps its form whichever buffer it names.
LEMMA BumpGlobalTypes ==
  ASSUME TypeOK, NEW t \in Threads, BumpGlobal(t)
  PROVE  TypeOK'
<1>1. VarTypes'
  BY Reads
     DEF BumpGlobal, TypeOK, VarTypes, Locations, Finishing, Goto, edge, snaps, PlaceOK,
         UsesNbr, Hints
<1>2. PlaceOK(t)'
  BY DEF BumpGlobal, PlaceOK, UsesNbr, AtEdge, Updating, Goto, TypeOK, VarTypes
<1>3. OthersSame(t)
  BY DEF BumpGlobal, OthersSame, Goto, edge
<1> QED  BY <1>1, <1>2, <1>3, Assemble

\* A return clears the locals to typed values.
LEMMA ReturnTypes ==
  ASSUME TypeOK, NEW t \in Threads, Return(t)
  PROVE  TypeOK'
<1>1. VarTypes'
  BY BlankType, Borders, OFDequeAssumption
     DEF Return, TypeOK, VarTypes, Locations, Goto, Forget, Stages, Words0
<1>2. PlaceOK(t)'
  BY DEF Return, PlaceOK, UsesNbr, AtEdge, Updating, Goto
<1>3. OthersSame(t)
  BY DEF Return, OthersSame, Goto, Forget
<1> QED  BY <1>1, <1>2, <1>3, Assemble

\* The edits of findActiveBuffer's record are typed: its threshold is a count,
LEMMA UpdThresholdTypes ==
  ASSUME TypeOK, NEW t \in Threads, UpdThreshold(t)
  PROVE  TypeOK'
<1>1. upd' \in [Threads -> Updates]
  BY Reads, UpdFields, UpdEdits DEF UpdThreshold, TypeOK, VarTypes
<1>2. VarTypes'
  BY <1>1
     DEF UpdThreshold, TypeOK, VarTypes, Locations, Updating, Goto, shared, edge, snaps
<1>3. PlaceOK(t)'
  BY DEF UpdThreshold, PlaceOK, UsesNbr, Updating, S, Goto, TypeOK, edge
<1>4. OthersSame(t)
  BY DEF UpdThreshold, OthersSame, Goto, edge
<1> QED  BY <1>2, <1>3, <1>4, Assemble

\* the hint and the candidate are those of the global hint,
LEMMA UpdLoadTypes ==
  ASSUME TypeOK, NEW t \in Threads, UpdLoad(t)
  PROVE  TypeOK'
<1>1. upd' \in [Threads -> Updates]
  BY Reads, UpdFields, UpdEdits, Borders, SlotFields, Members
     DEF UpdLoad, TypeOK, VarTypes
<1>2. VarTypes'
  BY <1>1 DEF UpdLoad, TypeOK, VarTypes, Locations, Updating, Goto, shared, edge, snaps
<1>3. PlaceOK(t)'
  BY DEF UpdLoad, PlaceOK, UsesNbr, Updating, S, Goto, TypeOK, edge
<1>4. OthersSame(t)
  BY DEF UpdLoad, OthersSame, Goto, edge
<1> QED  BY <1>2, <1>3, <1>4, Assemble

\* isSealed reads one value slot at the border,
LEMMA Sealed0Types ==
  ASSUME TypeOK, NEW t \in Threads, Sealed0(t)
  PROVE  TypeOK'
<1>1. upd' \in [Threads -> Updates]
  BY Reads, UpdFields, UpdEdits, Borders DEF Sealed0, TypeOK, VarTypes
<1>2. VarTypes'
  BY <1>1 DEF Sealed0, TypeOK, VarTypes, Locations, Updating, Goto, shared, edge, snaps
<1>3. PlaceOK(t)'
  BY DEF Sealed0, PlaceOK, UsesNbr, Updating, S, Goto, TypeOK, edge
<1>4. OthersSame(t)
  BY DEF Sealed0, OthersSame, Goto, edge
<1> QED  BY <1>2, <1>3, <1>4, Assemble

\* then the other,
LEMMA Sealed1Types ==
  ASSUME TypeOK, NEW t \in Threads, Sealed1(t)
  PROVE  TypeOK'
<1>1. upd' \in [Threads -> Updates]
  BY Reads, UpdFields, UpdEdits, Borders DEF Sealed1, TypeOK, VarTypes
<1>2. VarTypes'
  BY <1>1 DEF Sealed1, TypeOK, VarTypes, Locations, Updating, Goto, shared, edge, snaps
<1>3. PlaceOK(t)'
  BY DEF Sealed1, PlaceOK, UsesNbr, Updating, S, Goto, TypeOK, edge
<1>4. OthersSame(t)
  BY DEF Sealed1, OthersSame, Goto, edge
<1> QED  BY <1>2, <1>3, <1>4, Assemble

\* and then goes on, starts again or ends this side's update;
LEMMA Sealed2Types ==
  ASSUME TypeOK, NEW t \in Threads, Sealed2(t)
  PROVE  TypeOK'
<1>1. upd' \in [Threads -> Updates]
  <2>1. upd[t] \in Updates  BY Reads
  <2>2. SideDone(upd[t]) \in Updates  BY <2>1, UpdEdits, Members DEF SideDone
  <2>3. [upd[t] EXCEPT !.finding = TRUE] \in Updates  BY <2>1, UpdEdits
  <2>4. \/ upd' = upd
        \/ upd' = [upd EXCEPT ![t].finding = TRUE]
        \/ upd' = [upd EXCEPT ![t] = SideDone(@)]
    BY DEF Sealed2
  <2> QED  BY <2>2, <2>3, <2>4 DEF TypeOK, VarTypes
<1>2. VarTypes'
  BY Reads, <1>1
     DEF Sealed2, TypeOK, VarTypes, Locations, Searching, AtEdge, Updating, Finishing,
         Goto, shared, edge, snaps, NextSide
<1>3. PlaceOK(t)'
  BY DEF Sealed2, PlaceOK, UsesNbr, Updating, S, Goto, TypeOK, VarTypes, edge, NextSide
<1>4. OthersSame(t)
  BY DEF Sealed2, OthersSame, TypeOK, VarTypes, Goto, edge, NextSide
<1> QED  BY <1>2, <1>3, <1>4, Assemble

\* the link it follows is a word read from a slot,
LEMMA UpdLinkTypes ==
  ASSUME TypeOK, NEW t \in Threads, UpdLink(t)
  PROVE  TypeOK'
<1>1. upd' \in [Threads -> Updates]
  BY Reads, UpdFields, UpdEdits, Borders, SlotFields DEF UpdLink, TypeOK, VarTypes
<1>2. VarTypes'
  BY <1>1 DEF UpdLink, TypeOK, VarTypes, Locations, Updating, Goto, shared, edge, snaps
<1>3. PlaceOK(t)'
  BY DEF UpdLink, PlaceOK, UsesNbr, Updating, S, Goto, TypeOK, edge
<1>4. OthersSame(t)
  BY DEF UpdLink, OthersSame, Goto, edge
<1> QED  BY <1>2, <1>3, <1>4, Assemble

\* it goes into the reservation whose turn it is,
LEMMA UpdReserveTypes ==
  ASSUME TypeOK, NEW t \in Threads, UpdReserve(t)
  PROVE  TypeOK'
<1>1. upd' \in [Threads -> Updates]
  <2>1. upd[t] \in Updates /\ 1 - upd[t].haz \in {0, 1}  BY Reads, UpdFields
  <2>2. [upd[t] EXCEPT !.haz = 1 - @] \in Updates  BY <2>1, UpdEdits
  <2> QED  BY <2>2 DEF UpdReserve, TypeOK, VarTypes
<1>2. VarTypes'
  BY <1>1, UpdFields
     DEF UpdReserve, TypeOK, VarTypes, Locations, Updating, Goto, edge, snaps, Words0
<1>3. PlaceOK(t)'
  BY DEF UpdReserve, PlaceOK, UsesNbr, Updating, S, Goto, TypeOK, edge
<1>4. OthersSame(t)
  BY DEF UpdReserve, OthersSame, Goto, edge
<1> QED  BY <1>2, <1>3, <1>4, Assemble

\* the next candidate is a buffer,
LEMMA UpdCheckTypes ==
  ASSUME TypeOK, NEW t \in Threads, UpdCheck(t)
  PROVE  TypeOK'
<1>1. upd' \in [Threads -> Updates]
  BY UpdFields, UpdEdits DEF UpdCheck, TypeOK, VarTypes
<1>2. VarTypes'
  BY <1>1 DEF UpdCheck, TypeOK, VarTypes, Locations, Updating, Goto, shared, edge, snaps
<1>3. PlaceOK(t)'
  BY DEF UpdCheck, PlaceOK, UsesNbr, Updating, S, Goto, TypeOK, edge
<1>4. OthersSame(t)
  BY DEF UpdCheck, OthersSame, Goto, edge
<1> QED  BY <1>2, <1>3, <1>4, Assemble

\* and so is the one the global hint is swung to.
LEMMA UpdCasTypes ==
  ASSUME TypeOK, NEW t \in Threads, UpdCas(t)
  PROVE  TypeOK'
<1>1. upd' \in [Threads -> Updates]
  <2>1. upd[t] \in Updates  BY Reads
  <2>2. SideDone(upd[t]) \in Updates  BY <2>1, UpdEdits, Members DEF SideDone
  <2>3. upd' = upd \/ upd' = [upd EXCEPT ![t] = SideDone(@)]
    BY DEF UpdCas
  <2> QED  BY <2>2, <2>3 DEF TypeOK, VarTypes
<1>2. globalHint' \in [Sides -> Hints]
  <2>1. [buf |-> upd[t].cand, cnt |-> upd[t].hint.cnt + 1] \in Hints
    BY Reads, UpdFields DEF Hints
  <2>2. \/ globalHint' = globalHint
        \/ globalHint' = [globalHint EXCEPT ![upd[t].side] =
                            [buf |-> upd[t].cand, cnt |-> upd[t].hint.cnt + 1]]
    BY DEF UpdCas
  <2> QED  BY <2>1, <2>2 DEF TypeOK, VarTypes
<1>3. VarTypes'
  BY Reads, <1>1, <1>2
     DEF UpdCas, TypeOK, VarTypes, Locations, Searching, AtEdge, Updating, Finishing,
         Goto, shared, edge, snaps, NextSide, Hints
<1>4. PlaceOK(t)'
  BY DEF UpdCas, PlaceOK, UsesNbr, Updating, S, Goto, TypeOK, VarTypes, edge, NextSide
<1>5. OthersSame(t)
  BY DEF UpdCas, OthersSame, TypeOK, VarTypes, Goto, edge, NextSide
<1> QED  BY <1>3, <1>4, <1>5, Assemble

\* After retire the buffer is queued and the two copies of the slots are corrected.
LEMMA RetireTypes ==
  ASSUME TypeOK, NEW t \in Threads, Retire(t)
  PROVE  TypeOK'
<1>1. nbr[t] \in Buffers
  BY DEF Retire, TypeOK, PlaceOK, UsesNbr, Updating
<1>2. far' \in [Threads -> Slots] /\ near' \in [Threads -> Slots]
  <2>1. FarType(S(t)) \in Types  BY Reads, Members
  <2>2. [Bumped(far[t]) EXCEPT !.type = FarType(S(t))] \in Slots /\ Bumped(near[t]) \in Slots
    BY <2>1, Reads, BumpedType
  <2> QED  BY <2>2 DEF Retire, TypeOK, VarTypes
<1>3. VarTypes'
  <2>1. stage' \in [Threads -> Stages]
    BY DEF Retire, TypeOK, VarTypes, BeginStage, Stages
  <2>2. pc' \in [Threads -> Locations]
    BY DEF Retire, TypeOK, VarTypes, BeginStage, Goto, Locations, AtEdge
  <2>3. retired' \in [Threads -> SUBSET Buffers]
    BY <1>1 DEF Retire, TypeOK, VarTypes
  <2> QED  BY <1>2, <2>1, <2>2, <2>3 DEF Retire, TypeOK, VarTypes, edge
<1>4. PlaceOK(t)'
  BY DEF Retire, PlaceOK, UsesNbr, Updating, S, Goto, TypeOK, VarTypes, edge, BeginStage
<1>5. OthersSame(t)
  BY DEF Retire, OthersSame, TypeOK, VarTypes, Goto, edge, BeginStage
<1> QED  BY <1>3, <1>4, <1>5, Assemble

-----------------------------------------------------------------------------
(* Type correctness. *)

\* The initial states are typed, whatever counts the blocks of the pool come with.
LEMMA InitTypes == Init => TypeOK
<1> SUFFICES ASSUME Init PROVE TypeOK
  OBVIOUS
<1>1. PICK c \in GarbageCounts :
        slots = [b \in Buffers |-> [i \in Indices |->
                   Slot(IF i < Split THEN "L" ELSE "R", Garbage, c)]]
  BY DEF Init
<1>2. c \in Nat  BY OFDequeAssumption
<1>3. slots \in [Buffers -> [Indices -> Slots]]
  BY <1>1, <1>2, SlotType, Members
<1>4. localHint \in [Buffers -> [Sides -> Int]]
  BY Borders DEF Init
<1>5. Pop("L") \in Operations  BY DEF Operations, Sides
<1>6. VarTypes
  BY <1>3, <1>5, BlankType, Borders, OFDequeAssumption
     DEF Init, VarTypes, Locations, Words0, Stages
<1>7. \A t \in Threads : PlaceOK(t)
  BY DEF Init, PlaceOK, UsesNbr, AtEdge, Updating
<1> QED  BY <1>6, <1>7 DEF TypeOK

\* And every step keeps the types: by the lemma of its action.
LEMMA NextTypes == TypeOK /\ [Next]_vars => TypeOK'
<1> SUFFICES ASSUME TypeOK, [Next]_vars PROVE TypeOK'
  OBVIOUS
<1>1. CASE UNCHANGED vars
  BY <1>1 DEF vars, shared, edge, snaps, TypeOK, VarTypes, PlaceOK, UsesNbr, S, Pushing
<1>2. ASSUME NEW t \in Threads, NEW o \in Operations, Call(t, o) PROVE TypeOK'
  BY <1>2, CallTypes
<1>3. ASSUME NEW t \in Threads, Oracle(t) PROVE TypeOK'
  BY <1>3, LoadHintTypes, ReserveHintTypes, CheckHintTypes, LoadLocalTypes,
     ProbeInwardTypes, ProbeNearTypes, ProbeOtherTypes, ProbeFarTypes, ProbeLinkTypes,
     ReserveNbrTypes, RecheckHintTypes, ProbeNbrTypes
     DEF Oracle
<1>4. ASSUME NEW t \in Threads, Edge(t) PROVE TypeOK'
  BY <1>4, LoadNearTypes, LoadFarTypes, LoadReachTypes, LoadBackTypes, ConfirmEmptyTypes,
     PrepareTypes, CasSafeTypes, EffectFailsTypes, PushValueTypes, PushBufferTypes,
     TakeValueTypes, SealNeighborTypes, RemoveNeighborTypes, BumpLocalTypes,
     BumpGlobalTypes, ReturnTypes
     DEF Edge
<1>5. ASSUME NEW t \in Threads, UpdateHint(t) PROVE TypeOK'
  BY <1>5, UpdThresholdTypes, UpdLoadTypes, Sealed0Types, Sealed1Types, Sealed2Types,
     UpdLinkTypes, UpdReserveTypes, UpdCheckTypes, UpdCasTypes, RetireTypes
     DEF UpdateHint
<1> QED  BY <1>1, <1>2, <1>3, <1>4, <1>5 DEF Next, Step

\* Every variable keeps its type and every slot the code touches is a slot of a buffer,
\* whatever the threads do.
THEOREM TypeCorrect == Spec => []TypeOK
  BY InitTypes, NextTypes, PTL DEF Spec

-----------------------------------------------------------------------------
(* The reservations of the search.  SearchIsReserved is not inductive: it does not say    *)
(* which of the two reservations protects the buffer, and ReserveNbr overwrites one of    *)
(* them.  SlotsAlternate says it.                                                         *)

\* The search's buffer is in the reservation that ReserveNbr does not overwrite next;
\* after ReserveNbr, buffer and neighbor have one each.
AlternateAt(t) ==
  /\ pc[t] = "checkHint" => hazard[t][0] = hint[t].buf
  /\ pc[t] \in Searching \ {"recheckHint", "probeNbr"} => hazard[t][1 - haz[t]] = buf[t]
  /\ pc[t] \in {"recheckHint", "probeNbr"} =>
       hazard[t][haz[t]] = buf[t] /\ hazard[t][1 - haz[t]] = nbr[t]
  /\ pc[t] \in AtEdge /\ upd[t].side = "L" => buf[t] \in Reserved(t)
  /\ pc[t] = "retire" => upd[t].side = "R"

SlotsAlternate == \A t \in Threads : AlternateAt(t)

\* A step of t leaves the search state and the reservations of the others alone.
OthersKeep(t) ==
  \A u \in Threads \ {t} :
    /\ pc'[u] = pc[u] /\ hazard'[u] = hazard[u] /\ hint'[u] = hint[u]
    /\ buf'[u] = buf[u] /\ nbr'[u] = nbr[u] /\ haz'[u] = haz[u] /\ upd'[u] = upd[u]

\* Every step of oracle and findEdge keeps the alternation.
LEMMA OracleAlternates ==
  ASSUME TypeOK, SlotsAlternate, NEW t \in Threads, Oracle(t)
  PROVE  AlternateAt(t)' /\ OthersKeep(t)
<1>1. AlternateAt(t)  BY DEF SlotsAlternate
<1>2. haz[t] \in {0, 1} /\ hazard[t] \in [{0, 1} -> Words0]  BY DEF TypeOK, VarTypes
<1> USE DEF Goto, TypeOK, VarTypes
<1>3. CASE LoadHint(t)
  <2>1. AlternateAt(t)'
    BY <1>3 DEF LoadHint, AlternateAt, Searching, AtEdge
  <2>2. OthersKeep(t)
    BY <1>3 DEF LoadHint, Forget, OthersKeep, shared
  <2> QED  BY <2>1, <2>2
<1>4. CASE ReserveHint(t)
  <2>1. AlternateAt(t)'
    BY <1>4 DEF ReserveHint, AlternateAt, Searching, AtEdge, edge
  <2>2. OthersKeep(t)
    BY <1>4 DEF ReserveHint, OthersKeep, edge
  <2> QED  BY <2>1, <2>2
<1>5. CASE CheckHint(t)
  <2>1. AlternateAt(t)'
    BY <1>1, <1>5 DEF CheckHint, AlternateAt, AtEdge, shared
  <2>2. OthersKeep(t)
    BY <1>5 DEF CheckHint, OthersKeep, shared
  <2> QED  BY <2>1, <2>2
<1>6. CASE LoadLocal(t)
  <2>1. AlternateAt(t)'
    BY <1>1, <1>6 DEF LoadLocal, AlternateAt, Searching, AtEdge, shared
  <2>2. OthersKeep(t)
    BY <1>6 DEF LoadLocal, OthersKeep, shared
  <2> QED  BY <2>1, <2>2
<1>7. CASE ProbeInward(t)
  <2>1. AlternateAt(t)'
    BY <1>1, <1>7 DEF ProbeInward, AlternateAt, AtEdge, shared
  <2>2. OthersKeep(t)
    BY <1>7 DEF ProbeInward, OthersKeep, shared
  <2> QED  BY <2>1, <2>2
<1>8. CASE ProbeNear(t)
  <2>1. AlternateAt(t)'
    BY <1>1, <1>8 DEF ProbeNear, AlternateAt, Searching, AtEdge, shared, edge
  <2>2. OthersKeep(t)
    BY <1>8 DEF ProbeNear, OthersKeep, shared, edge
  <2> QED  BY <2>1, <2>2
<1>9. CASE ProbeOther(t)
  <2>1. AlternateAt(t)'
    BY <1>1, <1>9 DEF ProbeOther, AlternateAt, Searching, AtEdge, shared
  <2>2. OthersKeep(t)
    BY <1>9 DEF ProbeOther, OthersKeep, shared
  <2> QED  BY <2>1, <2>2
<1>10. CASE ProbeFar(t)
  <2>1. AlternateAt(t)'
    BY <1>1, <1>2, <1>10 DEF ProbeFar, AlternateAt, Reserved, Searching, shared
  <2>2. OthersKeep(t)
    BY <1>10 DEF ProbeFar, OthersKeep, shared
  <2> QED  BY <2>1, <2>2
<1>11. CASE ProbeLink(t)
  <2>1. AlternateAt(t)'
    BY <1>1, <1>11 DEF ProbeLink, AlternateAt, Searching, AtEdge, shared
  <2>2. OthersKeep(t)
    BY <1>11 DEF ProbeLink, OthersKeep, shared
  <2> QED  BY <2>1, <2>2
<1>12. CASE ReserveNbr(t)
  <2>1. AlternateAt(t)'
    <3>1. hazard[t][1 - haz[t]] = buf[t] /\ 1 - haz[t] # haz[t]
      BY <1>1, <1>12 DEF ReserveNbr, AlternateAt, Searching
    <3>2. /\ hazard'[t] = [hazard[t] EXCEPT ![haz[t]] = nbr[t]]
          /\ haz'[t] = 1 - haz[t] /\ 1 - haz'[t] = haz[t]
          /\ buf' = buf /\ nbr' = nbr /\ pc'[t] = "recheckHint"
      BY <1>12 DEF ReserveNbr
    <3>3. hazard'[t][haz'[t]] = buf'[t] /\ hazard'[t][1 - haz'[t]] = nbr'[t]
      BY <3>1, <3>2
    <3> QED  BY <3>2, <3>3 DEF AlternateAt, AtEdge
  <2>2. OthersKeep(t)
    BY <1>12 DEF ReserveNbr, OthersKeep
  <2> QED  BY <2>1, <2>2
<1>13. CASE RecheckHint(t)
  <2>1. AlternateAt(t)'
    BY <1>1, <1>13 DEF RecheckHint, AlternateAt, Searching, AtEdge, shared, edge
  <2>2. OthersKeep(t)
    BY <1>13 DEF RecheckHint, OthersKeep, shared, edge
  <2> QED  BY <2>1, <2>2
<1>14. CASE ProbeNbr(t)
  <2>1. AlternateAt(t)'
    <3>1. hazard[t][haz[t]] = buf[t] /\ hazard[t][1 - haz[t]] = nbr[t]
      BY <1>1, <1>14 DEF ProbeNbr, AlternateAt
    <3>2. hazard' = hazard /\ haz' = haz /\ pc'[t] \in {"loadNear", "loadLocal"}
      BY <1>14 DEF ProbeNbr, shared
    <3>3. /\ buf'[t] \in {buf[t], nbr[t]}
          /\ pc'[t] = "loadLocal" => buf'[t] = nbr[t]
      BY <1>14 DEF ProbeNbr
    <3>4. buf'[t] \in Reserved(t)'
      BY <1>2, <3>1, <3>2, <3>3 DEF Reserved
    <3>5. pc'[t] = "loadLocal" => hazard'[t][1 - haz'[t]] = buf'[t]
      BY <3>1, <3>2, <3>3
    <3> QED  BY <3>2, <3>4, <3>5 DEF AlternateAt, Searching
  <2>2. OthersKeep(t)
    BY <1>14 DEF ProbeNbr, OthersKeep, shared
  <2> QED  BY <2>1, <2>2
<1> QED
  BY <1>3, <1>4, <1>5, <1>6, <1>7, <1>8, <1>9, <1>10, <1>11, <1>12, <1>13, <1>14
     DEF Oracle

\* So does every step of doPush and doPop up to the return.
LEMMA EdgeAlternates ==
  ASSUME TypeOK, SlotsAlternate, NEW t \in Threads, Edge(t)
  PROVE  AlternateAt(t)' /\ OthersKeep(t)
<1>1. AlternateAt(t)  BY DEF SlotsAlternate
<1> USE DEF Goto, TypeOK, VarTypes
<1>2. CASE LoadNear(t)
  <2>1. AlternateAt(t)'
    BY <1>1, <1>2 DEF LoadNear, AlternateAt, Reserved, Searching, AtEdge, shared, edge
  <2>2. OthersKeep(t)
    BY <1>2 DEF LoadNear, OthersKeep, shared, edge
  <2> QED  BY <2>1, <2>2
<1>3. CASE LoadFar(t)
  <2>1. AlternateAt(t)'
    BY <1>1, <1>3
       DEF LoadFar, BeginStage, AlternateAt, Reserved, Searching, AtEdge, shared
  <2>2. OthersKeep(t)
    BY <1>3 DEF LoadFar, BeginStage, OthersKeep, shared
  <2> QED  BY <2>1, <2>2
<1>4. CASE LoadReach(t)
  <2>1. AlternateAt(t)'
    BY <1>1, <1>4 DEF LoadReach, AlternateAt, Reserved, Searching, AtEdge, shared, edge
  <2>2. OthersKeep(t)
    BY <1>4 DEF LoadReach, OthersKeep, shared, edge
  <2> QED  BY <2>1, <2>2
<1>5. CASE LoadBack(t)
  <2>1. AlternateAt(t)'
    BY <1>1, <1>5
       DEF LoadBack, BeginStage, AlternateAt, Reserved, Searching, AtEdge, shared, edge
  <2>2. OthersKeep(t)
    BY <1>5 DEF LoadBack, BeginStage, OthersKeep, shared, edge
  <2> QED  BY <2>1, <2>2
<1>6. CASE ConfirmEmpty(t)
  <2>1. AlternateAt(t)'
    BY <1>1, <1>6 DEF ConfirmEmpty, AlternateAt, Reserved, Searching, AtEdge, shared, edge
  <2>2. OthersKeep(t)
    BY <1>6 DEF ConfirmEmpty, OthersKeep, shared, edge
  <2> QED  BY <2>1, <2>2
<1>7. CASE Prepare(t)
  <2>1. AlternateAt(t)'
    BY <1>1, <1>7 DEF Prepare, AlternateAt, Reserved, Searching, AtEdge
  <2>2. OthersKeep(t)
    BY <1>7 DEF Prepare, OthersKeep
  <2> QED  BY <2>1, <2>2
<1>8. CASE CasSafe(t)
  <2>1. AlternateAt(t)'
    BY <1>1, <1>8 DEF CasSafe, AlternateAt, Reserved, Searching, AtEdge, edge
  <2>2. OthersKeep(t)
    BY <1>8 DEF CasSafe, OthersKeep, edge
  <2> QED  BY <2>1, <2>2
<1>9. CASE EffectFails(t)
  <2>1. AlternateAt(t)'
    BY <1>9 DEF EffectFails, AlternateAt, Searching, AtEdge
  <2>2. OthersKeep(t)
    BY <1>9 DEF EffectFails, OthersKeep, shared, edge
  <2> QED  BY <2>1, <2>2
<1>10. CASE PushValue(t)
  <2>1. AlternateAt(t)'
    BY <1>10 DEF PushValue, AlternateAt, Searching, AtEdge
  <2>2. OthersKeep(t)
    BY <1>10 DEF PushValue, OthersKeep, edge
  <2> QED  BY <2>1, <2>2
<1>11. CASE PushBuffer(t)
  <2>1. AlternateAt(t)'
    BY <1>11 DEF PushBuffer, AlternateAt, Searching, AtEdge
  <2>2. OthersKeep(t)
    BY <1>11 DEF PushBuffer, OthersKeep, edge
  <2> QED  BY <2>1, <2>2
<1>12. CASE TakeValue(t)
  <2>1. AlternateAt(t)'
    BY <1>12 DEF TakeValue, AlternateAt, Searching, AtEdge
  <2>2. OthersKeep(t)
    BY <1>12 DEF TakeValue, OthersKeep, edge
  <2> QED  BY <2>1, <2>2
<1>13. CASE SealNeighbor(t)
  <2>1. AlternateAt(t)'
    BY <1>1, <1>13
       DEF SealNeighbor, EffectOf, BeginStage, AlternateAt, Reserved, Searching, AtEdge,
           edge
  <2>2. OthersKeep(t)
    BY <1>13 DEF SealNeighbor, BeginStage, OthersKeep, edge
  <2> QED  BY <2>1, <2>2
<1>14. CASE RemoveNeighbor(t)
  <2>1. AlternateAt(t)'
    BY <1>14 DEF RemoveNeighbor, AlternateAt, Searching, AtEdge
  <2>2. OthersKeep(t)
    BY <1>14 DEF RemoveNeighbor, OthersKeep, edge
  <2> QED  BY <2>1, <2>2
<1>15. CASE BumpLocal(t)
  <2>1. AlternateAt(t)'
    BY <1>15 DEF BumpLocal, AlternateAt, Searching, AtEdge
  <2>2. OthersKeep(t)
    BY <1>15 DEF BumpLocal, OthersKeep, edge
  <2> QED  BY <2>1, <2>2
<1>16. CASE BumpGlobal(t)
  <2>1. AlternateAt(t)'
    BY <1>16 DEF BumpGlobal, AlternateAt, Searching, AtEdge
  <2>2. OthersKeep(t)
    BY <1>16 DEF BumpGlobal, OthersKeep, edge
  <2> QED  BY <2>1, <2>2
<1>17. CASE Return(t)
  <2>1. AlternateAt(t)'
    BY <1>17 DEF Return, AlternateAt, Searching, AtEdge
  <2>2. OthersKeep(t)
    BY <1>17 DEF Return, Forget, OthersKeep
  <2> QED  BY <2>1, <2>2
<1> QED
  BY <1>2, <1>3, <1>4, <1>5, <1>6, <1>7, <1>8, <1>9, <1>10, <1>11, <1>12, <1>13, <1>14,
     <1>15, <1>16, <1>17
     DEF Edge

\* And every step of retire: findActiveBuffer overwrites both reservations, but no
\* claim is made of an edge after it.
LEMMA UpdateHintAlternates ==
  ASSUME TypeOK, SlotsAlternate, NEW t \in Threads, UpdateHint(t)
  PROVE  AlternateAt(t)' /\ OthersKeep(t)
<1>1. AlternateAt(t)  BY DEF SlotsAlternate
<1>2. SideDone(upd[t]).side = "R"  BY DEF SideDone
<1> USE DEF Goto, TypeOK, VarTypes
<1>3. CASE UpdThreshold(t)
  <2>1. AlternateAt(t)'
    BY <1>3 DEF UpdThreshold, AlternateAt, Searching, AtEdge
  <2>2. OthersKeep(t)
    BY <1>3 DEF UpdThreshold, OthersKeep, shared, edge
  <2> QED  BY <2>1, <2>2
<1>4. CASE UpdLoad(t)
  <2>1. AlternateAt(t)'
    BY <1>4 DEF UpdLoad, AlternateAt, Searching, AtEdge
  <2>2. OthersKeep(t)
    BY <1>4 DEF UpdLoad, OthersKeep, shared, edge
  <2> QED  BY <2>1, <2>2
<1>5. CASE Sealed0(t)
  <2>1. AlternateAt(t)'
    BY <1>5 DEF Sealed0, AlternateAt, Searching, AtEdge
  <2>2. OthersKeep(t)
    BY <1>5 DEF Sealed0, OthersKeep, shared, edge
  <2> QED  BY <2>1, <2>2
<1>6. CASE Sealed1(t)
  <2>1. AlternateAt(t)'
    BY <1>6 DEF Sealed1, AlternateAt, Searching, AtEdge
  <2>2. OthersKeep(t)
    BY <1>6 DEF Sealed1, OthersKeep, shared, edge
  <2> QED  BY <2>1, <2>2
<1>7. CASE Sealed2(t)
  <2>1. AlternateAt(t)'
    BY <1>2, <1>7 DEF Sealed2, NextSide, AlternateAt, Searching, AtEdge
  <2>2. OthersKeep(t)
    BY <1>7 DEF Sealed2, NextSide, OthersKeep, shared, edge
  <2> QED  BY <2>1, <2>2
<1>8. CASE UpdLink(t)
  <2>1. AlternateAt(t)'
    BY <1>8 DEF UpdLink, AlternateAt, Searching, AtEdge
  <2>2. OthersKeep(t)
    BY <1>8 DEF UpdLink, OthersKeep, shared, edge
  <2> QED  BY <2>1, <2>2
<1>9. CASE UpdReserve(t)
  <2>1. AlternateAt(t)'
    BY <1>9 DEF UpdReserve, AlternateAt, Searching, AtEdge
  <2>2. OthersKeep(t)
    BY <1>9 DEF UpdReserve, OthersKeep, edge
  <2> QED  BY <2>1, <2>2
<1>10. CASE UpdCheck(t)
  <2>1. AlternateAt(t)'
    BY <1>10 DEF UpdCheck, AlternateAt, Searching, AtEdge
  <2>2. OthersKeep(t)
    BY <1>10 DEF UpdCheck, OthersKeep, shared, edge
  <2> QED  BY <2>1, <2>2
<1>11. CASE UpdCas(t)
  <2>1. AlternateAt(t)'
    BY <1>2, <1>11 DEF UpdCas, NextSide, AlternateAt, Searching, AtEdge
  <2>2. OthersKeep(t)
    BY <1>11 DEF UpdCas, NextSide, OthersKeep, edge
  <2> QED  BY <2>1, <2>2
<1>12. CASE Retire(t)
  <2>1. AlternateAt(t)'
    BY <1>1, <1>12 DEF Retire, BeginStage, AlternateAt, Searching
  <2>2. OthersKeep(t)
    BY <1>12 DEF Retire, BeginStage, OthersKeep, edge
  <2> QED  BY <2>1, <2>2
<1> QED
  BY <1>3, <1>4, <1>5, <1>6, <1>7, <1>8, <1>9, <1>10, <1>11, <1>12 DEF UpdateHint

\* AlternateAt of a thread depends only on what OthersKeep names.
LEMMA Kept ==
  ASSUME SlotsAlternate, NEW t \in Threads, AlternateAt(t)', OthersKeep(t)
  PROVE  SlotsAlternate'
<1>1. ASSUME NEW u \in Threads, u # t PROVE AlternateAt(u)'
  BY DEF SlotsAlternate, AlternateAt, OthersKeep, Reserved
<1> QED  BY <1>1 DEF SlotsAlternate

\* Nothing is claimed of an idle thread, so the alternation holds at the start.
LEMMA InitAlternates == Init => SlotsAlternate
  BY DEF Init, SlotsAlternate, AlternateAt, Searching, AtEdge

\* Every step of every thread keeps it.
LEMMA NextAlternates == TypeOK /\ SlotsAlternate /\ [Next]_vars => SlotsAlternate'
<1> SUFFICES ASSUME TypeOK, SlotsAlternate, [Next]_vars PROVE SlotsAlternate'
  OBVIOUS
<1>1. CASE UNCHANGED vars
  BY <1>1 DEF vars, shared, edge, SlotsAlternate, AlternateAt, Reserved
<1>2. ASSUME NEW t \in Threads, NEW o \in Operations, Call(t, o) PROVE SlotsAlternate'
  <2>1. AlternateAt(t)'
    BY <1>2 DEF Call, AlternateAt, Searching, AtEdge, Goto
  <2>2. OthersKeep(t)
    BY <1>2 DEF Call, OthersKeep, Goto, shared, edge
  <2> QED  BY <2>1, <2>2, Kept
<1>3. ASSUME NEW t \in Threads, Step(t) PROVE SlotsAlternate'
  BY <1>3, OracleAlternates, EdgeAlternates, UpdateHintAlternates, Kept DEF Step
<1> QED  BY <1>1, <1>2, <1>3 DEF Next

\* The alternation is what SearchIsReserved needs of each place of the search.
LEMMA AlternateReserves == TypeOK /\ SlotsAlternate => SearchIsReserved
<1> SUFFICES ASSUME TypeOK, SlotsAlternate, NEW t \in Threads
             PROVE  /\ pc[t] \in Searching => buf[t] \in Reserved(t)
                    /\ pc[t] = "probeNbr" => nbr[t] \in Reserved(t)
                    /\ pc[t] \in AtEdge /\ upd[t].side = "L" => buf[t] \in Reserved(t)
  BY DEF SearchIsReserved
<1>1. AlternateAt(t) /\ haz[t] \in {0, 1}
  BY DEF SlotsAlternate, TypeOK, VarTypes
<1> QED  BY <1>1 DEF AlternateAt, Reserved

\* No thread reads a buffer in findEdge, or works on the edge it found, without holding
\* a reservation on it, for as many threads and buffers as one likes.
THEOREM SearchReserved == Spec => []SearchIsReserved
<1>1. Init => SlotsAlternate  BY InitAlternates
<1>2. TypeOK /\ SlotsAlternate /\ [Next]_vars => SlotsAlternate'  BY NextAlternates
<1>3. TypeOK /\ SlotsAlternate => SearchIsReserved  BY AlternateReserves
<1> QED  BY <1>1, <1>2, <1>3, TypeCorrect, PTL DEF Spec

-----------------------------------------------------------------------------
(* The inductive invariant: buffers. *)

\* A buffer in the pool or in a cache is private, all others can be reached by anybody.
Private(b) == b \in pool \/ \E t \in Threads, s \in Sides : cache[t][s] = b
Published(b) == b \in Buffers /\ ~Private(b)

TypeAt(b, i) == slots[b][i].type
LinksTo(b, i, x) == slots[b][i].type = "VALUE" /\ slots[b][i].val = x

\* j lies further out than i, seen from side s.
Outer(s, j, i) == IF s = "L" THEN j < i ELSE j > i

\* From side s, a published buffer reads: a link or the end of the chain; the slots that
\* are empty on this side before all others; a seal at a border only, and then the link
\* beside it stays and all the slots behind it are empty on the other side.
Profile(b, s) ==
  /\ TypeAt(b, FarLinkIndex(s)) \in {FarType(s), "VALUE"}
  /\ TypeAt(b, FarLinkIndex(s)) = "VALUE" => Published(slots[b][FarLinkIndex(s)].val)
  /\ \A i, j \in Indices :
       Outer(s, j, i) /\ TypeAt(b, i) = FarType(s) => TypeAt(b, j) = FarType(s)
  /\ \A i \in Indices : TypeAt(b, i) = "SEALED" => i \in {FarValueIndex(s), NearValueIndex(s)}
  /\ TypeAt(b, FarValueIndex(s)) = "SEALED" =>
       /\ TypeAt(b, FarLinkIndex(s)) = "VALUE"
       /\ \A i \in Indices \ {FarLinkIndex(s), FarValueIndex(s)} : TypeAt(b, i) = NearType(s)

Profiles == \A b \in Buffers : Published(b) => \A s \in Sides : Profile(b, s)

\* What a thread keeps for its next append is its own, and ready but for the link back
\* and the value; and the pool holds no seal.
Caches ==
  /\ Published(FirstBuffer)
  /\ \A b \in pool, i \in Indices : TypeAt(b, i) # "SEALED"
  /\ \A t \in Threads, s \in Sides : cache[t][s] # Null =>
       /\ cache[t][s] \notin pool
       /\ \A u \in Threads, r \in Sides : cache[u][r] = cache[t][s] => u = t /\ r = s
       /\ \A i \in Indices : TypeAt(cache[t][s], i) =
            IF i \in {NearLinkIndex(s), NearValueIndex(s)} THEN "VALUE" ELSE FarType(s)

\* Seen from side s, x is the outer neighbor of b and b the inner one of x.
Mutual(s, b, x) == LinksTo(b, FarLinkIndex(s), x) /\ LinksTo(x, NearLinkIndex(s), b)

InChain(b) == \E k \in DOMAIN chain : chain[k] = b

\* Mutual links are those of the chain, which holds every published buffer that is not
\* sealed; and two neighbors are never both sealed at the edge between them.
Linked ==
  /\ chain \in Seq(Buffers) /\ chain # <<>>
  /\ \A k \in DOMAIN chain : Published(chain[k])
  /\ \A k, l \in DOMAIN chain : chain[k] = chain[l] => k = l
  /\ \A k \in 1..(Len(chain) - 1) : Mutual("L", chain[k + 1], chain[k])
  /\ TypeAt(chain[1], 0) = "L" /\ TypeAt(chain[Len(chain)], LastIndex) = "R"
  /\ \A b \in Buffers : Published(b) /\ ~InChain(b) => IsSealed(b)
  /\ \A b, x \in Buffers : Published(b) /\ Published(x) /\ Mutual("L", b, x) =>
       /\ \E k \in 1..(Len(chain) - 1) : chain[k] = x /\ chain[k + 1] = b
       /\ ~(TypeAt(b, 1) = "SEALED" /\ TypeAt(x, LastIndex - 1) = "SEALED")

Chained == Profiles /\ Caches /\ Linked

\* b and x have been neighbors: they still are, unless one of them has been sealed.
WereLinked(s, b, x) ==
  \/ Mutual(s, b, x)
  \/ TypeAt(b, FarValueIndex(s)) = "SEALED" \/ TypeAt(x, NearValueIndex(s)) = "SEALED"

\* x has been sealed from side s and still leads to b.
SealedOff(s, b, x) == TypeAt(x, NearValueIndex(s)) = "SEALED" /\ LinksTo(x, NearLinkIndex(s), b)

-----------------------------------------------------------------------------
(* The inductive invariant: threads. *)

NearSlot(t)  == slots[buf[t]][idx[t]]
FarSlot(t)   == slots[buf[t]][FarIdx(t)]
ReachSlot(t) == slots[nbr[t]][NearValueIndex(S(t))]

\* The places where the stage has been chosen, and those where the far slot, the near
\* slot and the neighbor's slot have been loaded.
Choosing  == {"confirmEmpty", "prepare", "casSafe", "casEffect"}
HasFar    == {"loadReach", "loadBack"} \cup Choosing \cup Updating
HasNear   == {"loadFar"} \cup HasFar
Straddles == {"straddle", "seal", "remove"}
HasReach(t) == pc[t] = "loadBack" \/ (pc[t] \in Choosing /\ stage[t] \in Straddles)

\* A snapshot is not younger than the slot, and a snapshot of a seal is true for ever.
Snapshots(t) ==
  /\ pc[t] \in HasNear => /\ near[t].cnt <= NearSlot(t).cnt
                          /\ near[t].type = "SEALED" => NearSlot(t).type = "SEALED"
  /\ pc[t] \in HasFar => far[t].cnt <= FarSlot(t).cnt
  /\ HasReach(t) => /\ reach[t].cnt <= ReachSlot(t).cnt
                    /\ reach[t].type = "SEALED" => ReachSlot(t).type = "SEALED"
  /\ pc[t] \in Updating \/ (pc[t] = "casEffect" /\ ~Takes(t)) => near[t].cnt < NearSlot(t).cnt
  /\ pc[t] \in Updating => far[t].cnt < FarSlot(t).cnt

\* The edge straddles two buffers that have been neighbors.
Crossing(t) ==
  /\ idx[t] = FarValueIndex(S(t))
  /\ far[t].type = "VALUE" /\ far[t].val = nbr[t]
  /\ Published(nbr[t]) /\ WereLinked(S(t), buf[t], nbr[t])

\* What the checks before the CASes have established.
EdgeChecked(t) ==
  /\ pc[t] \in HasFar =>
       /\ near[t].type # FarType(S(t))
       /\ near[t].type = "SEALED" => idx[t] = FarValueIndex(S(t))
       /\ idx[t] = NearLinkIndex(S(t)) => near[t].type = NearType(S(t))
  /\ pc[t] \in {"loadReach", "loadBack"} => Crossing(t)
  /\ pc[t] \in Updating =>
       /\ idx[t] = FarValueIndex(S(t)) /\ near[t].type # "SEALED" /\ Published(nbr[t])

\* What each stage can rely on.
StageChosen(t) ==
  pc[t] \in Choosing =>
    /\ stage[t] = "interior" => idx[t] # FarValueIndex(S(t)) /\ far[t].type = FarType(S(t))
    /\ stage[t] \in {"append", "boundary"} =>
         /\ idx[t] = FarValueIndex(S(t)) /\ far[t].type = FarType(S(t))
         /\ near[t].type # "SEALED"
    /\ stage[t] \in Straddles => Crossing(t)
    /\ stage[t] \in {"append", "straddle"} => Pushing(t)
    /\ stage[t] \in {"boundary", "seal"} => ~Pushing(t)
    /\ stage[t] \in {"straddle", "seal"} => reach[t].type = FarType(S(t))
    /\ stage[t] = "remove" => SealedOff(S(t), buf[t], nbr[t])
    /\ pc[t] = "prepare" => stage[t] = "append"
    /\ pc[t] = "confirmEmpty" => ~Pushing(t)

\* The buffer to append is the one in the cache, and holds the link back and the value.
Appending(t) ==
  pc[t] \in {"casSafe", "casEffect"} /\ stage[t] = "append" =>
    /\ nbr[t] \in Buffers /\ cache[t][S(t)] = nbr[t]
    /\ slots[nbr[t]][NearLinkIndex(S(t))].val = buf[t]
    /\ slots[nbr[t]][NearValueIndex(S(t))].val = op[t].val

\* A pop that has seen an empty deque goes on only if the near slot has changed.
NotEmpty(t) ==
  pc[t] \in {"casSafe", "casEffect"} /\ ~Pushing(t)
    /\ near[t].type \in EmptyTypes(S(t), stage[t]) =>
  /\ near[t].cnt < NearSlot(t).cnt
  /\ pc[t] = "casEffect" => Takes(t)

\* Every pointer the code follows leads to a published buffer, and no assertion fails but
\* that of HazardTracker::retire.
Pointers(t) ==
  /\ Published(buf[t]) /\ Published(hint[t].buf)
  /\ Published(upd[t].cand) /\ Published(upd[t].hint.buf)
  /\ pc[t] \in {"reserveNbr", "recheckHint", "probeNbr"} => Published(nbr[t])
  /\ pc[t] = "bumpGlobal" /\ Pushing(t) => Published(nbr[t])
  /\ pc[t] = "probeLink" => Probed(t).type = "SEALED" /\ AtBorderValue(t)
  /\ pc[t] \in {"updReserve", "updCheck"} => Published(upd[t].link)
  /\ pc[t] = "fault" => nbr[t] \in retired[t]

\* What isSealed has read.
SealReads(t) ==
  LET u == upd[t] IN
  /\ pc[t] \in {"sealed1", "sealed2", "updLink"} =>
       /\ u.n0.cnt <= slots[u.cand][1].cnt
       /\ u.n0.cnt = slots[u.cand][1].cnt => u.n0.type = slots[u.cand][1].type
       /\ u.n0.type = "SEALED" => TypeAt(u.cand, 1) = "SEALED"
  /\ pc[t] \in {"sealed2", "updLink"} =>
       (u.n1.type = "SEALED" => TypeAt(u.cand, LastIndex - 1) = "SEALED")
  /\ pc[t] = "updLink" => u.n0.type = "SEALED" \/ u.n1.type = "SEALED"

Knows(t) ==
  /\ Snapshots(t) /\ EdgeChecked(t) /\ StageChosen(t) /\ Appending(t) /\ NotEmpty(t)
  /\ Pointers(t) /\ SealReads(t)

\* While the second CAS of a pair can still succeed, the slot of the first one has not
\* turned into what would make the pair wrong.
Busy(t) ==
  pc[t] = "casEffect" /\ Holds(EffectTarget(t)) =>
    IF Takes(t) THEN FarSlot(t).type = FarType(S(t))
    ELSE stage[t] \in {"interior", "append", "seal"} =>
           NearSlot(t).type \notin {FarType(S(t)), "SEALED"}

\* Of two pairs that cross, each with its first CAS on the other's second slot, one fails.
SameSlot(c, d) == c.buf = d.buf /\ c.idx = d.idx
Cross(t, u) ==
  /\ pc[t] = "casEffect" /\ pc[u] = "casEffect"
  /\ SameSlot(SafeTarget(t), EffectTarget(u)) /\ SameSlot(SafeTarget(u), EffectTarget(t))
NoCross ==
  \A t, u \in Threads :
    t # u /\ Cross(t, u) => ~Holds(EffectTarget(t)) \/ ~Holds(EffectTarget(u))

HintsLead == \A s \in Sides : Published(globalHint[s].buf)

ShapeInv ==
  /\ TypeOK /\ Chained /\ HintsLead /\ NoCross
  /\ \A t \in Threads : Knows(t) /\ Busy(t)

-----------------------------------------------------------------------------
(* The inductive invariant: retirement. *)

\* A copy of a global hint is out of date or equal to it.
Copied(h, g) == h.cnt <= g.cnt /\ (h.cnt = g.cnt => h = g)

\* A search holds a copy of its side's hint.  updateHint has loaded its own after the
\* threshold, and its candidate is the hint's buffer until findActiveBuffer has begun.
HintSnap(t) ==
  LET u == upd[t] IN
  /\ pc[t] \notin {"idle", "loadHint"} => Copied(hint[t], globalHint[S(t)])
  /\ pc[t] \in Updating \ {"updThreshold", "updLoad", "retire"} =>
       /\ Copied(u.hint, globalHint[u.side])
       /\ u.threshold <= u.hint.cnt
       /\ ~u.finding => u.cand = u.hint.buf
  /\ pc[t] = "updLoad" => u.threshold <= globalHint[u.side].cnt
  /\ pc[t] \in {"updLink", "updReserve", "updCheck"} => u.finding

\* The buffer thread w is about to store as a global hint, if its checks stay good, and
\* the count of the hint it expects to replace.
To(w) == IF Pushing(w) THEN nbr[w] ELSE buf[w]
Danger(w, x, s) ==
  \/ pc[w] = "bumpGlobal" /\ S(w) = s /\ To(w) = x
  \/ /\ pc[w] \in {"sealed2", "updCas"} /\ upd[w].side = s /\ upd[w].cand = x
     /\ pc[w] = "sealed2" => /\ upd[w].n0.type # "SEALED" /\ upd[w].n1.type # "SEALED"
                             /\ upd[w].n0.cnt = slots[x][1].cnt
Stamp(w) == IF pc[w] = "bumpGlobal" THEN hint[w].cnt ELSE upd[w].hint.cnt

\* The hint of side s is not x, and never will be again: who would store x expects an
\* older hint.
Cleared(x, s) ==
  /\ globalHint[s].buf # x
  /\ \A w \in Threads : Danger(w, x, s) => Stamp(w) < globalHint[s].cnt

\* The count th is not older than the removal of x, which can become the hint of side s
\* once more at most.
OnceMore(x, s, th) ==
  /\ \A w \in Threads : Danger(w, x, s) => Stamp(w) <= th
  /\ globalHint[s].buf = x => globalHint[s].cnt <= th + 1

\* So it is since thread t has loaded its threshold.
Expiring(t) == OnceMore(nbr[t], upd[t].side, upd[t].threshold)

\* Between removal and retirement.
RetireFact(t) ==
  pc[t] \in Updating =>
    /\ \A s \in Sides : ~Danger(t, nbr[t], s)
    /\ upd[t].side = "R" => Cleared(nbr[t], "L")
    /\ pc[t] = "retire" => upd[t].side = "R" /\ Cleared(nbr[t], "R")
    /\ pc[t] \notin {"updThreshold", "retire"} => Expiring(t)

\* What holds of the buffers t has removed, and of its copies of the hints.
RetireKnows(t) ==
  /\ \A x \in Retiring(t) : Published(x)
  /\ \A x \in retired[t], s \in Sides : Cleared(x, s)
  /\ HintSnap(t) /\ RetireFact(t)

RetireInv == ShapeInv /\ RetiredOnce /\ NoFault /\ \A t \in Threads : RetireKnows(t)

-----------------------------------------------------------------------------
(* The inductive invariant: searches and retired buffers. *)

\* A set of removed buffers that no link of another buffer leads into.
Detached(G) ==
  /\ \A y \in G : Published(y) /\ ~InChain(y)
  /\ \A b \in Buffers, i \in {0, LastIndex}, y \in G :
       Published(b) /\ LinksTo(b, i, y) => b \in G

\* The search of w is not in G, nor about to enter it.
Away(w, G) ==
  /\ pc[w] \in Searching => buf[w] \notin G
  /\ pc[w] \in {"reserveNbr", "recheckHint", "probeNbr"} => nbr[w] \notin G

\* Side s is done with G: the hint has left it for good, and so have the searches that
\* began with the hint of today.
Left(G, s) ==
  /\ \A y \in G : Cleared(y, s)
  /\ \A w \in Threads : S(w) = s /\ hint[w].cnt = globalHint[s].cnt => Away(w, G)

\* The count th is not older than the removal of G: the hint can move into G once more at
\* most, and only a search that begins with such a hint can.
Leaving(G, s, th) ==
  /\ \A y \in G : OnceMore(y, s, th)
  /\ \A w \in Threads : S(w) = s /\ hint[w].cnt > th /\ hint[w].buf \notin G => Away(w, G)

\* While thread t updates the hints for a set of removed buffers, the one it retires
\* among them.
Underway(t) == pc[t] \in Updating /\ ~(pc[t] = "updThreshold" /\ upd[t].side = "L")
LeavesFor(t, G) ==
  /\ nbr[t] \in G /\ Detached(G)
  /\ \A y \in G, s \in Sides : ~Danger(t, y, s)
  /\ upd[t].side = "R" => Left(G, "L")
  /\ pc[t] = "retire" => Left(G, "R")
  /\ pc[t] \notin {"updThreshold", "retire"} => Leaving(G, upd[t].side, upd[t].threshold)

\* What holds of the buffers that t has retired, and of the one it is about to retire.
ReserveKnows(t) ==
  /\ \A x \in retired[t] : \E G \in SUBSET Buffers :
       x \in G /\ Detached(G) /\ \A s \in Sides : Left(G, s)
  /\ Underway(t) => \E G \in SUBSET Buffers : LeavesFor(t, G)

ReserveInv == RetireInv /\ \A t \in Threads : ReserveKnows(t)

-----------------------------------------------------------------------------
(* What a step may do to the published buffers, and what the others know after it. *)

\* Published buffers stay published; their slots change with their counts; seals and
\* what has been linked stay as they are.
Later ==
  /\ \A b \in Buffers : Published(b) => Published(b)'
  /\ \A b \in Buffers, i \in Indices : Published(b) =>
       /\ slots'[b][i] = slots[b][i] \/ slots[b][i].cnt < slots'[b][i].cnt
       /\ TypeAt(b, i) = "SEALED" => TypeAt(b, i)' = "SEALED"
  /\ \A b, x \in Buffers, s \in Sides : Published(b) /\ Published(x) =>
       /\ WereLinked(s, b, x) => WereLinked(s, b, x)'
       /\ SealedOff(s, b, x) => SealedOff(s, b, x)'

\* A step of t leaves the locals and the caches of the others alone.
OthersStay(t) ==
  \A u \in Threads \ {t} :
    /\ pc'[u] = pc[u] /\ op'[u] = op[u] /\ hint'[u] = hint[u] /\ buf'[u] = buf[u]
    /\ idx'[u] = idx[u] /\ nbr'[u] = nbr[u] /\ near'[u] = near[u] /\ far'[u] = far[u]
    /\ reach'[u] = reach[u] /\ stage'[u] = stage[u] /\ upd'[u] = upd[u]
    /\ retired'[u] = retired[u]
    /\ \A s \in Sides : cache'[u][s] = cache[u][s]
    /\ \A s \in Sides : cache[u][s] \in Buffers => slots'[cache[u][s]] = slots[cache[u][s]]

\* A slot is never older than it was, and one that is not younger is the same.
LEMMA Ages ==
  ASSUME TypeOK, TypeOK', Later, NEW b \in Buffers, NEW i \in Indices, Published(b)
  PROVE  /\ slots[b][i].cnt \in Nat /\ slots'[b][i].cnt \in Nat
         /\ slots[b][i].cnt <= slots'[b][i].cnt
         /\ slots[b][i].cnt = slots'[b][i].cnt => slots'[b][i] = slots[b][i]
         /\ TypeAt(b, i) = "SEALED" => TypeAt(b, i)' = "SEALED"
<1>1. slots[b][i] \in Slots /\ slots'[b][i] \in Slots
  BY DEF TypeOK, VarTypes
<1>2. slots[b][i].cnt \in Nat /\ slots'[b][i].cnt \in Nat
  BY <1>1 DEF Slots
<1> QED  BY <1>2 DEF Later

\* What thread u knows is still so after a step of another thread.
LEMMA Others ==
  ASSUME TypeOK, TypeOK', Later, NEW t \in Threads, OthersStay(t),
         NEW u \in Threads, u # t, Knows(u)
  PROVE  Knows(u)'
<1>1. /\ pc'[u] = pc[u] /\ op'[u] = op[u] /\ hint'[u] = hint[u] /\ buf'[u] = buf[u]
      /\ idx'[u] = idx[u] /\ nbr'[u] = nbr[u] /\ near'[u] = near[u] /\ far'[u] = far[u]
      /\ reach'[u] = reach[u] /\ stage'[u] = stage[u] /\ upd'[u] = upd[u]
      /\ retired'[u] = retired[u]
  BY DEF OthersStay
<1>2. /\ S(u)' = S(u) /\ Pushing(u)' = Pushing(u) /\ FarIdx(u)' = FarIdx(u)
      /\ Takes(u)' = Takes(u) /\ HasReach(u)' = HasReach(u) /\ AtBorderValue(u)' = AtBorderValue(u)
  BY <1>1 DEF S, Pushing, FarIdx, Takes, HasReach, AtBorderValue
<1>3. /\ S(u) \in Sides /\ buf[u] \in Buffers /\ idx[u] \in Indices /\ upd[u].cand \in Buffers
      /\ pc[u] \in AtEdge \cup Updating => FarIdx(u) \in Indices
      /\ NearValueIndex(S(u)) \in Indices /\ FarValueIndex(S(u)) \in Indices
      /\ NearLinkIndex(S(u)) \in Indices
      /\ near[u].cnt \in Nat /\ far[u].cnt \in Nat /\ reach[u].cnt \in Nat
      /\ upd[u].n0.cnt \in Nat
  BY Reads, Geometry, UpdFields, SlotFields DEF TypeOK, PlaceOK, FarIdx
<1>4. /\ Published(buf[u]) /\ Published(upd[u].cand)
      /\ HasReach(u) => Published(nbr[u]) /\ nbr[u] \in Buffers
  BY DEF Knows, Pointers, EdgeChecked, StageChosen, HasReach, Crossing, Published
<1>5. Snapshots(u)'
  <2>1. pc[u] \in HasNear => /\ near[u].cnt <= NearSlot(u)'.cnt
                             /\ near[u].type = "SEALED" => NearSlot(u)'.type = "SEALED"
    BY <1>1, <1>3, <1>4, Ages DEF Knows, Snapshots, NearSlot, TypeAt
  <2>2. pc[u] \in HasFar => far[u].cnt <= FarSlot(u)'.cnt
    BY <1>1, <1>2, <1>3, <1>4, Ages
       DEF Knows, Snapshots, FarSlot, HasFar, Choosing, AtEdge
  <2>3. HasReach(u) => /\ reach[u].cnt <= ReachSlot(u)'.cnt
                       /\ reach[u].type = "SEALED" => ReachSlot(u)'.type = "SEALED"
    BY <1>1, <1>2, <1>3, <1>4, Ages DEF Knows, Snapshots, ReachSlot, TypeAt
  <2>4. pc[u] \in Updating \/ (pc[u] = "casEffect" /\ ~Takes(u)) => near[u].cnt < NearSlot(u)'.cnt
    BY <1>1, <1>3, <1>4, Ages DEF Knows, Snapshots, NearSlot
  <2>5. pc[u] \in Updating => far[u].cnt < FarSlot(u)'.cnt
    BY <1>1, <1>2, <1>3, <1>4, Ages DEF Knows, Snapshots, FarSlot
  <2> QED  BY <1>1, <1>2, <2>1, <2>2, <2>3, <2>4, <2>5 DEF Snapshots
<1>6. Crossing(u) => Crossing(u)'
  BY <1>1, <1>2, <1>3, <1>4 DEF Crossing, Later, Published
<1>7. EdgeChecked(u)'
  BY <1>1, <1>2, <1>6 DEF Knows, EdgeChecked, Later, Published
<1>8. StageChosen(u)'
  BY <1>1, <1>2, <1>3, <1>4, <1>6 
     DEF Knows, StageChosen, Straddles, Later, Crossing, Published
<1>9. Appending(u)'
  BY <1>1, <1>2, <1>3 DEF Knows, Appending, OthersStay
<1>10. NotEmpty(u)'
  BY <1>1, <1>2, <1>3, <1>4, Ages DEF Knows, NotEmpty, NearSlot
<1>11. Pointers(u)'
  BY <1>1, <1>2, <1>3, <1>4 DEF Knows, Pointers, Later, Published, Probed, TypeAt
<1>12. SealReads(u)'
  <2> DEFINE n0 == upd[u].n0
             new == slots'[upd[u].cand][1]
             old == slots[upd[u].cand][1]
  <2>1. /\ old.cnt <= new.cnt /\ old.cnt \in Nat /\ new.cnt \in Nat
        /\ old.cnt = new.cnt => new = old
        /\ old.type = "SEALED" => new.type = "SEALED"
        /\ TypeAt(upd[u].cand, LastIndex - 1) = "SEALED" =>
             TypeAt(upd[u].cand, LastIndex - 1)' = "SEALED"
    BY <1>1, <1>3, <1>4, Ages, Borders DEF TypeAt
  <2>2. SealReads(u)  BY DEF Knows
  <2> QED  BY <1>1, <1>3, <2>1, <2>2 DEF SealReads, TypeAt
<1> QED  BY <1>5, <1>7, <1>8, <1>9, <1>10, <1>11, <1>12 DEF Knows

-----------------------------------------------------------------------------
(* Two sides of one buffer, and two neighbors. *)

\* What is near on one side is far on the other.
LEMMA Mirror ==
  ASSUME NEW s \in Sides
  PROVE  /\ Opposite(s) \in Sides /\ Opposite(s) # s /\ Opposite(Opposite(s)) = s
         /\ \A r \in Sides : r # s => r = Opposite(s)
         /\ FarLinkIndex(Opposite(s)) = NearLinkIndex(s)
         /\ NearLinkIndex(Opposite(s)) = FarLinkIndex(s)
         /\ FarValueIndex(Opposite(s)) = NearValueIndex(s)
         /\ NearValueIndex(Opposite(s)) = FarValueIndex(s)
         /\ FarType(Opposite(s)) = NearType(s) /\ NearType(Opposite(s)) = FarType(s)
         /\ FarType(s) # NearType(s)
         /\ FarType(s) \notin {"VALUE", "SEALED"} /\ NearType(s) \notin {"VALUE", "SEALED"}
         /\ Types = {FarType(s), NearType(s), "VALUE", "SEALED"}
  BY DEF Sides, Opposite, FarLinkIndex, NearLinkIndex, FarValueIndex, NearValueIndex,
         FarType, NearType, Types

\* The four borders are different slots, in this order from the outside.
LEMMA Places4 ==
  ASSUME NEW s \in Sides
  PROVE  /\ FarValueIndex(s) # NearValueIndex(s) /\ FarLinkIndex(s) # NearLinkIndex(s)
         /\ FarValueIndex(s) # FarLinkIndex(s) /\ FarValueIndex(s) # NearLinkIndex(s)
         /\ NearValueIndex(s) # FarLinkIndex(s) /\ NearValueIndex(s) # NearLinkIndex(s)
         /\ FarValueIndex(s) + FarDirection(s) = FarLinkIndex(s)
         /\ \A i \in Indices :
              /\ i # FarLinkIndex(s) => Outer(s, FarLinkIndex(s), i)
              /\ i # NearLinkIndex(s) => Outer(s, i, NearLinkIndex(s))
              /\ i + FarDirection(s) # NearLinkIndex(s)
              /\ i + FarDirection(s) = FarLinkIndex(s) => i = FarValueIndex(s)
              /\ i + FarDirection(s) = NearValueIndex(s) => i = NearLinkIndex(s)
              /\ Outer(s, i + FarDirection(s), i)
         /\ \A i, j \in Indices :
              /\ Outer(Opposite(s), i, j) <=> Outer(s, j, i)
              /\ i = j \/ Outer(s, i, j) \/ Outer(s, j, i)
              /\ ~(Outer(s, i, j) /\ Outer(s, j, i))
              /\ Outer(s, i, j) => i = j + FarDirection(s) \/ Outer(s, i, j + FarDirection(s))
              /\ i + FarDirection(s) = j + FarDirection(s) => i = j
              /\ \A k \in Indices : Outer(s, i, j) /\ Outer(s, j, k) => Outer(s, i, k)
  BY OFDequeAssumption
     DEF Sides, Opposite, FarLinkIndex, NearLinkIndex, FarValueIndex, NearValueIndex,
         FarDirection, Outer, Indices, LastIndex

\* Being neighbors looks the same from both.
LEMMA BothWays ==
  ASSUME NEW s \in Sides, NEW b, NEW x
  PROVE  /\ Mutual(Opposite(s), x, b) <=> Mutual(s, b, x)
         /\ WereLinked(Opposite(s), x, b) <=> WereLinked(s, b, x)
  BY Mirror DEF Mutual, WereLinked

\* A published buffer from both sides.
LEMMA Looks ==
  ASSUME Profiles, NEW b, Published(b), NEW s \in Sides
  PROVE  /\ TypeAt(b, FarLinkIndex(s)) \in {FarType(s), "VALUE"}
         /\ TypeAt(b, NearLinkIndex(s)) \in {NearType(s), "VALUE"}
         /\ \A i \in Indices : TypeAt(b, i) = "SEALED" =>
              i \in {FarValueIndex(s), NearValueIndex(s)}
         /\ TypeAt(b, FarValueIndex(s)) = "SEALED" =>
              /\ TypeAt(b, FarLinkIndex(s)) = "VALUE"
              /\ \A i \in Indices \ {FarLinkIndex(s), FarValueIndex(s)} :
                   TypeAt(b, i) = NearType(s)
         /\ TypeAt(b, NearValueIndex(s)) = "SEALED" =>
              /\ TypeAt(b, NearLinkIndex(s)) = "VALUE"
              /\ \A i \in Indices \ {NearLinkIndex(s), NearValueIndex(s)} :
                   TypeAt(b, i) = FarType(s)
         /\ \A i, j \in Indices : Outer(s, j, i) =>
              /\ TypeAt(b, i) = FarType(s) => TypeAt(b, j) = FarType(s)
              /\ TypeAt(b, j) = NearType(s) => TypeAt(b, i) = NearType(s)
<1>1. Profile(b, s) /\ Profile(b, Opposite(s))
  BY Mirror DEF Profiles, Published
<1> QED  BY <1>1, Mirror, Places4 DEF Profile

\* The links of a published buffer lead to published buffers, and back unless a seal
\* says otherwise.
LEMMA LinkLeads ==
  ASSUME TypeOK, Chained, NEW b, NEW x, NEW s \in Sides,
         Published(b), LinksTo(b, FarLinkIndex(s), x)
  PROVE  Published(x) /\ WereLinked(s, b, x)
<1>1. Published(x)
  BY DEF Chained, Profiles, Profile, LinksTo, TypeAt, Published
<1>2. TypeAt(b, FarLinkIndex(s)) = "VALUE" /\ slots[b][FarLinkIndex(s)].val = x
  BY DEF LinksTo, TypeAt
<1>3. CASE ~InChain(b)
  <2>1. TypeAt(b, FarValueIndex(s)) = "SEALED" \/ TypeAt(b, NearValueIndex(s)) = "SEALED"
    BY <1>3 DEF Chained, Linked, IsSealed, FarValueIndex, NearValueIndex, Sides, TypeAt,
                Published
  <2>2. TypeAt(b, NearValueIndex(s)) = "SEALED" => TypeAt(b, FarLinkIndex(s)) = FarType(s)
    BY Looks, Geometry, Places4 DEF Chained
  <2> QED  BY <1>2, <2>1, <2>2, Mirror, <1>1 DEF WereLinked
<1>4. CASE InChain(b)
  <2>1. PICK k \in DOMAIN chain : chain[k] = b
    BY <1>4 DEF InChain
  <2>2. Len(chain) \in Nat /\ k \in 1..Len(chain)
    BY LenProperties DEF Chained, Linked
  <2>3. CASE s = "L"
    <3>1. k # 1  BY <1>2, <2>1, <2>3 DEF Chained, Linked, FarLinkIndex
    <3>2. Mutual("L", b, chain[k - 1])
      <4>1. k - 1 \in 1..(Len(chain) - 1) /\ (k - 1) + 1 = k  BY <2>2, <3>1
      <4> QED  BY <4>1, <2>1 DEF Chained, Linked
    <3> QED  BY <1>1, <1>2, <2>3, <3>2 DEF Mutual, LinksTo, WereLinked
  <2>4. CASE s = "R"
    <3>1. k # Len(chain)  BY <1>2, <2>1, <2>4 DEF Chained, Linked, FarLinkIndex
    <3>2. Mutual("L", chain[k + 1], b)
      <4>1. k \in 1..(Len(chain) - 1)  BY <2>2, <3>1
      <4> QED  BY <4>1, <2>1 DEF Chained, Linked
    <3>3. Mutual("R", b, chain[k + 1])
      BY <3>2, BothWays DEF Sides, Opposite
    <3> QED  BY <1>1, <1>2, <2>4, <3>3 DEF Mutual, LinksTo, WereLinked
  <2> QED  BY <2>3, <2>4 DEF Sides
<1> QED  BY <1>3, <1>4

\* Two neighbors are not both sealed at the edge between them.
LEMMA NotBoth ==
  ASSUME Chained, NEW b, NEW x, NEW s \in Sides, Published(b), Published(x), Mutual(s, b, x)
  PROVE  ~(TypeAt(b, FarValueIndex(s)) = "SEALED" /\ TypeAt(x, NearValueIndex(s)) = "SEALED")
<1>1. CASE s = "L"
  BY <1>1 DEF Chained, Linked, FarValueIndex, NearValueIndex, Published
<1>2. CASE s = "R"
  <2>1. Mutual("L", x, b)
    BY <1>2, BothWays DEF Sides, Opposite
  <2> QED  BY <1>2, <2>1 DEF Chained, Linked, FarValueIndex, NearValueIndex, Published
<1> QED  BY <1>1, <1>2 DEF Sides

\* A buffer of the chain whose far link is not a link is the end of the chain.
LEMMA AtTheEnd ==
  ASSUME Chained, NEW b, NEW s \in Sides, InChain(b), TypeAt(b, FarLinkIndex(s)) # "VALUE"
  PROVE  Len(chain) \in Nat \ {0} /\ chain[IF s = "L" THEN 1 ELSE Len(chain)] = b
<1>1. PICK k \in DOMAIN chain : chain[k] = b
  BY DEF InChain
<1>2. Len(chain) \in Nat /\ k \in 1..Len(chain)
  BY LenProperties DEF Chained, Linked
<1>3. CASE s = "L" /\ k # 1
  <2>1. k - 1 \in 1..(Len(chain) - 1) /\ (k - 1) + 1 = k  BY <1>2, <1>3
  <2>2. Mutual("L", b, chain[k - 1])  BY <1>1, <2>1 DEF Chained, Linked
  <2> QED  BY <1>3, <2>2 DEF Mutual, LinksTo, TypeAt
<1>4. CASE s = "R" /\ k # Len(chain)
  <2>1. k \in 1..(Len(chain) - 1)  BY <1>2, <1>4
  <2>2. Mutual("L", chain[k + 1], b)  BY <1>1, <2>1 DEF Chained, Linked
  <2> QED  BY <1>4, <2>2 DEF Mutual, LinksTo, TypeAt, NearLinkIndex, FarLinkIndex
<1> QED  BY <1>1, <1>2, <1>3, <1>4 DEF Sides

-----------------------------------------------------------------------------
(* What the CASes do to the published buffers. *)

\* A successful CAS: one slot gets type ty and word v and the next count.
Written(b, i, ty, v) ==
  /\ slots'[b][i].type = ty /\ slots'[b][i].val = v
  /\ slots'[b][i].cnt = slots[b][i].cnt + 1
  /\ \A x \in Buffers, j \in Indices : x # b \/ j # i => slots'[x][j] = slots[x][j]

\* A successful CAS writes as described.
LEMMA SwingWrites ==
  ASSUME TypeOK, NEW c, c.buf \in Buffers, c.idx \in Indices, Holds(c), NEW ty, NEW v,
         Swing(c, ty, v)
  PROVE  Written(c.buf, c.idx, ty, v)
<1>1. c.exp.cnt + 1 = slots[c.buf][c.idx].cnt + 1
  BY DEF Holds
<1>2. slots'[c.buf][c.idx] = Slot(ty, v, c.exp.cnt + 1)
  BY DEF Swing, TypeOK, VarTypes
<1>3. \A x \in Buffers, j \in Indices : x # c.buf \/ j # c.idx => slots'[x][j] = slots[x][j]
  BY DEF Swing, TypeOK, VarTypes
<1> QED  BY <1>1, <1>2, <1>3 DEF Written, Slot

\* Who owns a buffer depends on the pool and the caches only.
SameOwners == pool' = pool /\ cache' = cache

\* With the same owners, the same buffers are published.
LEMMA SamePublished ==
  ASSUME SameOwners
  PROVE  \A b : Published(b)' <=> Published(b)
  BY DEF SameOwners, Published, Private

\* A write that opens no seal and cuts no link takes nothing from what was known.
LEMMA LaterWrite ==
  ASSUME TypeOK, NEW b \in Buffers, NEW i \in Indices, NEW ty, NEW v, Written(b, i, ty, v),
         \A x \in Buffers : Published(x) => Published(x)',
         TypeAt(b, i) = "SEALED" => ty = "SEALED",
         TypeAt(b, i) = "VALUE" /\ i \in {0, LastIndex} => ty = "VALUE" /\ v = slots[b][i].val
  PROVE  Later
<1>1. \A x \in Buffers, j \in Indices :
        /\ slots'[x][j] = slots[x][j] \/ slots[x][j].cnt < slots'[x][j].cnt
        /\ TypeAt(x, j) = "SEALED" => TypeAt(x, j)' = "SEALED"
  BY SlotFields DEF Written, TypeAt, TypeOK, VarTypes
<1>2. \A x, y \in Buffers : \A j \in {0, LastIndex} : LinksTo(x, j, y) => LinksTo(x, j, y)'
  BY Borders DEF Written, TypeAt, LinksTo
<1>3. ASSUME NEW x \in Buffers, NEW y \in Buffers, NEW s \in Sides
      PROVE  /\ WereLinked(s, x, y) => WereLinked(s, x, y)'
             /\ SealedOff(s, x, y) => SealedOff(s, x, y)'
  <2>1. FarLinkIndex(s) \in {0, LastIndex} /\ NearLinkIndex(s) \in {0, LastIndex}
    BY DEF FarLinkIndex, NearLinkIndex
  <2>2. Mutual(s, x, y) => Mutual(s, x, y)'
    BY <1>2, <2>1 DEF Mutual
  <2>3. /\ TypeAt(x, FarValueIndex(s)) = "SEALED" => TypeAt(x, FarValueIndex(s))' = "SEALED"
        /\ TypeAt(y, NearValueIndex(s)) = "SEALED" => TypeAt(y, NearValueIndex(s))' = "SEALED"
    BY <1>1, Geometry
  <2>4. LinksTo(y, NearLinkIndex(s), x) => LinksTo(y, NearLinkIndex(s), x)'
    BY <1>2, <2>1
  <2> QED  BY <2>2, <2>3, <2>4 DEF WereLinked, SealedOff
<1> QED  BY <1>1, <1>3 DEF Later

\* No write, no change.
LEMMA LaterQuiet ==
  ASSUME slots' = slots, SameOwners
  PROVE  Later
  BY SamePublished DEF Later, TypeAt, WereLinked, SealedOff, Mutual, LinksTo

\* The chain and the caches stay as they are when no slot is written.
LEMMA ChainedQuiet ==
  ASSUME Chained, slots' = slots, SameOwners, chain' = chain
  PROVE  Chained'
<1>1. Profiles'
  BY SamePublished DEF Chained, Profiles, Profile, TypeAt
<1>2. Caches'
  BY SamePublished DEF Chained, Caches, TypeAt, SameOwners
<1>3. Linked'
  BY SamePublished DEF Chained, Linked, TypeAt, Mutual, LinksTo, InChain, IsSealed
<1> QED  BY <1>1, <1>2, <1>3 DEF Chained

\* The caches do not notice a write to a published buffer.
LEMMA CachesKept ==
  ASSUME TypeOK, Caches, SameOwners, NEW b, Published(b), NEW i \in Indices, NEW ty, NEW v,
         Written(b, i, ty, v)
  PROVE  Caches'
<1>1. Published(FirstBuffer)'
  BY SamePublished DEF Caches
<1>2. \A x \in Buffers, j \in Indices : Private(x) => TypeAt(x, j)' = TypeAt(x, j)
  BY DEF Written, TypeAt, Published
<1>3. \A x \in pool : Private(x) /\ x \in Buffers
  BY DEF Private, TypeOK, VarTypes
<1>4. \A t \in Threads, s \in Sides : cache[t][s] # Null =>
        Private(cache[t][s]) /\ cache[t][s] \in Buffers
  BY DEF Private, TypeOK, VarTypes
<1> QED  BY <1>1, <1>2, <1>3, <1>4 DEF Caches, SameOwners

\* Nor do the buffers it is not made to.
LEMMA ProfilesKept ==
  ASSUME Profiles, \A x \in Buffers : Published(x) => Published(x)',
         NEW b \in Buffers, NEW i \in Indices, NEW ty, NEW v, Written(b, i, ty, v),
         NEW x \in Buffers, x # b, Published(x), NEW s \in Sides
  PROVE  Profile(x, s)'
<1>1. \A j \in Indices : slots'[x][j] = slots[x][j]
  BY DEF Written
<1>2. Profile(x, s)
  BY DEF Profiles
<1>3. FarLinkIndex(s) \in Indices /\ FarValueIndex(s) \in Indices
  BY Geometry
<1>4. TypeAt(x, FarLinkIndex(s)) = "VALUE" => slots[x][FarLinkIndex(s)].val \in Buffers
  BY <1>2 DEF Profile, Published
<1> QED  BY <1>1, <1>2, <1>3, <1>4 DEF Profile, TypeAt

\* The chain does not notice a write that keeps links and seals.
LEMMA LinkedKept ==
  ASSUME Linked, SameOwners, chain' = chain,
         \A x \in Buffers : \A j \in {0, LastIndex} :
           TypeAt(x, j)' = TypeAt(x, j) /\ slots'[x][j].val = slots[x][j].val,
         \A x \in Buffers : \A j \in {1, LastIndex - 1} :
           TypeAt(x, j)' = "SEALED" <=> TypeAt(x, j) = "SEALED"
  PROVE  Linked'
<1>1. \A x, y \in Buffers : Mutual("L", x, y)' <=> Mutual("L", x, y)
  BY DEF Mutual, LinksTo, FarLinkIndex, NearLinkIndex, TypeAt
<1>2. \A x \in Buffers : IsSealed(x)' <=> IsSealed(x)
  BY DEF IsSealed, TypeAt
<1>3. \A x : InChain(x)' <=> InChain(x)
  BY DEF InChain
<1>4. \A k \in DOMAIN chain : chain[k] \in Buffers
  BY DEF Linked, Published
<1>5. Len(chain) \in Nat \ {0} /\ DOMAIN chain = 1..Len(chain)
  BY LenProperties, EmptySeq DEF Linked
<1>6. \A k \in 1..(Len(chain) - 1) : Mutual("L", chain[k + 1], chain[k])'
  <2> SUFFICES ASSUME NEW k \in 1..(Len(chain) - 1)
               PROVE  Mutual("L", chain[k + 1], chain[k])'
    BY DEF Linked
  <2>1. k \in DOMAIN chain /\ k + 1 \in DOMAIN chain  BY <1>5
  <2>2. Mutual("L", chain[k + 1], chain[k])  BY DEF Linked
  <2> QED  BY <1>1, <1>4, <2>1, <2>2
<1>7. TypeAt(chain[1], 0)' = "L" /\ TypeAt(chain[Len(chain)], LastIndex)' = "R"
  <2>1. chain[1] \in Buffers /\ chain[Len(chain)] \in Buffers  BY <1>4, <1>5
  <2>2. TypeAt(chain[1], 0) = "L" /\ TypeAt(chain[Len(chain)], LastIndex) = "R"  BY DEF Linked
  <2> QED  BY <2>1, <2>2 DEF TypeAt
<1> QED
  BY <1>1, <1>2, <1>3, <1>6, <1>7, SamePublished DEF Linked, Published

\* A CAS that safes a slot: its type and word stay.
LEMMA SafeChained ==
  ASSUME TypeOK, Chained, SameOwners, chain' = chain, NEW b, Published(b),
         NEW i \in Indices, Written(b, i, TypeAt(b, i), slots[b][i].val)
  PROVE  Chained'
<1>0. b \in Buffers  BY DEF Published
<1>1. \A x \in Buffers, j \in Indices :
        TypeAt(x, j)' = TypeAt(x, j) /\ slots'[x][j].val = slots[x][j].val
  BY <1>0 DEF Written, TypeAt
<1>2. Profiles'
  <2> SUFFICES ASSUME NEW x \in Buffers, Published(x), NEW s \in Sides PROVE Profile(x, s)'
    BY SamePublished DEF Profiles
  <2>1. Profile(x, s)  BY DEF Chained, Profiles
  <2>2. FarLinkIndex(s) \in Indices /\ FarValueIndex(s) \in Indices  BY Geometry
  <2>3. slots'[x][FarLinkIndex(s)].val = slots[x][FarLinkIndex(s)].val
    BY <1>1, <2>2
  <2> QED  BY <1>1, <2>1, <2>2, <2>3, SamePublished DEF Profile
<1>3. Caches'
  BY CachesKept DEF Chained
<1>4. Linked'
  BY <1>1, Borders, LinkedKept DEF Chained
<1> QED  BY <1>2, <1>3, <1>4 DEF Chained

\* A write between the links that neither opens nor sets a seal: it is enough to look
\* at the buffer it is made to.
LEMMA ValueChained ==
  ASSUME TypeOK, Chained, SameOwners, chain' = chain, NEW b, Published(b), NEW s \in Sides,
         NEW i \in Indices, i \notin {FarLinkIndex(s), NearLinkIndex(s)},
         TypeAt(b, i) # "SEALED", NEW ty, ty # "SEALED", NEW v, Written(b, i, ty, v),
         Profile(b, s)', Profile(b, Opposite(s))'
  PROVE  Chained'
<1>0. b \in Buffers  BY DEF Published
<1>1. Profiles'
  <2> SUFFICES ASSUME NEW x \in Buffers, Published(x), NEW r \in Sides PROVE Profile(x, r)'
    BY SamePublished DEF Profiles
  <2>1. CASE x = b  BY <2>1, Mirror
  <2>2. CASE x # b  BY <1>0, <2>2, SamePublished, ProfilesKept DEF Chained
  <2> QED  BY <2>1, <2>2
<1>2. Caches'
  BY CachesKept DEF Chained
<1>3. Linked'
  <2>1. i \notin {0, LastIndex}
    BY DEF Sides, FarLinkIndex, NearLinkIndex
  <2> QED  BY <1>0, <2>1, Borders, LinkedKept DEF Chained, Written, TypeAt
<1> QED  BY <1>1, <1>2, <1>3 DEF Chained

\* A push fills the empty slot next to one that is not empty on its side.
LEMMA FillChained ==
  ASSUME TypeOK, Chained, SameOwners, chain' = chain, NEW b, Published(b), NEW s \in Sides,
         NEW i \in Indices, i \notin {FarLinkIndex(s), NearLinkIndex(s)},
         TypeAt(b, i) = FarType(s), TypeAt(b, NearValueIndex(s)) # "SEALED",
         NEW j \in Indices, i = j + FarDirection(s), TypeAt(b, j) # FarType(s),
         NEW v, Written(b, i, "VALUE", v)
  PROVE  Chained'
<1>0. b \in Buffers  BY DEF Published
<1>1. \A k \in Indices : k # i => slots'[b][k] = slots[b][k] /\ TypeAt(b, k)' = TypeAt(b, k)
  BY <1>0 DEF Written, TypeAt
<1>2. TypeAt(b, i)' = "VALUE"  BY DEF Written, TypeAt
<1>3. Profile(b, s) /\ Profile(b, Opposite(s))
  BY Mirror DEF Chained, Profiles, Published
<1>4. Profile(b, s)'
  <2>1. ASSUME NEW k \in Indices, NEW l \in Indices, Outer(s, l, k), TypeAt(b, k)' = FarType(s)
        PROVE  TypeAt(b, l)' = FarType(s)
    <3>1. k # i /\ TypeAt(b, k) = FarType(s)  BY <1>1, <1>2, <2>1, Mirror
    <3>2. ~Outer(s, j, k) /\ k # j
      BY <1>3, <3>1 DEF Profile
    <3>3. Outer(s, k, i)
      BY <3>1, <3>2, Places4
    <3>4. l # i  BY <2>1, <3>3, Places4
    <3> QED  BY <1>1, <1>3, <2>1, <3>1, <3>4 DEF Profile
  <2>2. TypeAt(b, FarValueIndex(s)) # "SEALED"
    BY <1>3, Mirror, Places4 DEF Profile
  <2>3. FarLinkIndex(s) # i /\ FarLinkIndex(s) \in Indices /\ FarValueIndex(s) \in Indices
    BY Geometry
  <2>4. TypeAt(b, FarValueIndex(s))' # "SEALED"  BY <1>1, <1>2, <2>2, <2>3
  <2> QED  BY <1>1, <1>2, <1>3, <2>1, <2>3, <2>4, SamePublished DEF Profile
<1>5. Profile(b, Opposite(s))'
  <2> DEFINE r == Opposite(s)
  <2>1. r \in Sides /\ FarType(r) = NearType(s) /\ FarLinkIndex(r) = NearLinkIndex(s)
        /\ FarValueIndex(r) = NearValueIndex(s)
    BY Mirror
  <2>2. ASSUME NEW k \in Indices, NEW l \in Indices, Outer(r, l, k), TypeAt(b, k)' = FarType(r)
        PROVE  TypeAt(b, l)' = FarType(r)
    <3>1. k # i /\ TypeAt(b, k) = FarType(r)  BY <1>1, <1>2, <2>1, <2>2, Mirror
    <3>2. TypeAt(b, l) = FarType(r)  BY <1>3, <2>2, <3>1 DEF Profile
    <3>3. l # i  BY <2>1, <3>2, Mirror
    <3> QED  BY <1>1, <3>2, <3>3
  <2>3. FarLinkIndex(r) # i /\ FarLinkIndex(r) \in Indices /\ FarValueIndex(r) \in Indices
    BY <2>1, Geometry
  <2>4. TypeAt(b, FarValueIndex(r))' # "SEALED"  BY <1>1, <1>2, <2>1, <2>3
  <2> HIDE DEF r
  <2>5. Profile(b, r)'
    BY <1>1, <1>2, <1>3, <2>2, <2>3, <2>4, SamePublished DEF Profile, r
  <2> QED  BY <2>5 DEF r
<1> QED  BY <1>4, <1>5, Mirror, ValueChained

\* A pop empties the value next to an empty slot of its side.
LEMMA TakeChained ==
  ASSUME TypeOK, Chained, SameOwners, chain' = chain, NEW b, Published(b), NEW s \in Sides,
         NEW i \in Indices, i \notin {FarLinkIndex(s), NearLinkIndex(s)},
         TypeAt(b, i) = "VALUE", TypeAt(b, i + FarDirection(s)) = FarType(s),
         NEW v, Written(b, i, FarType(s), v)
  PROVE  Chained'
<1>0. b \in Buffers /\ i + FarDirection(s) \in Indices  BY Geometry DEF Published
<1>1. \A k \in Indices : k # i => slots'[b][k] = slots[b][k] /\ TypeAt(b, k)' = TypeAt(b, k)
  BY <1>0 DEF Written, TypeAt
<1>2. TypeAt(b, i)' = FarType(s)  BY DEF Written, TypeAt
<1>3. Profile(b, s) /\ Profile(b, Opposite(s))
  BY Mirror DEF Chained, Profiles, Published
<1>4. TypeAt(b, FarValueIndex(s)) # "SEALED" /\ TypeAt(b, NearValueIndex(s)) # "SEALED"
  BY Looks, Mirror, Places4, Geometry DEF Chained
<1>5. Profile(b, s)'
  <2>1. ASSUME NEW k \in Indices, NEW l \in Indices, Outer(s, l, k), TypeAt(b, k)' = FarType(s)
        PROVE  TypeAt(b, l)' = FarType(s)
    <3>1. CASE k = i
      <4>1. l = i + FarDirection(s) \/ Outer(s, l, i + FarDirection(s))
        BY <2>1, <3>1, Places4
      <4>2. TypeAt(b, l) = FarType(s)  BY <1>0, <1>3, <4>1 DEF Profile
      <4> QED  BY <1>1, <1>2, <4>2
    <3>2. CASE k # i
      <4>1. TypeAt(b, l) = FarType(s)  BY <1>1, <1>3, <2>1, <3>2 DEF Profile
      <4> QED  BY <1>1, <1>2, <4>1
    <3> QED  BY <3>1, <3>2
  <2>2. FarLinkIndex(s) # i /\ FarLinkIndex(s) \in Indices /\ FarValueIndex(s) \in Indices
    BY Geometry
  <2>3. TypeAt(b, FarValueIndex(s))' # "SEALED"  BY <1>1, <1>2, <1>4, <2>2, Mirror
  <2> QED  BY <1>1, <1>2, <1>3, <2>1, <2>2, <2>3, Mirror, SamePublished DEF Profile
<1>6. Profile(b, Opposite(s))'
  <2> DEFINE r == Opposite(s)
  <2>1. r \in Sides /\ FarType(r) = NearType(s) /\ FarLinkIndex(r) = NearLinkIndex(s)
        /\ FarValueIndex(r) = NearValueIndex(s)
    BY Mirror
  <2>2. ASSUME NEW k \in Indices, NEW l \in Indices, Outer(r, l, k), TypeAt(b, k)' = FarType(r)
        PROVE  TypeAt(b, l)' = FarType(r)
    <3>1. k # i /\ TypeAt(b, k) = FarType(r)  BY <1>1, <1>2, <2>1, <2>2, Mirror
    <3>2. TypeAt(b, l) = FarType(r)  BY <1>3, <2>2, <3>1 DEF Profile
    <3>3. l # i  BY <2>1, <3>2, Mirror
    <3> QED  BY <1>1, <3>2, <3>3
  <2>3. FarLinkIndex(r) # i /\ FarLinkIndex(r) \in Indices /\ FarValueIndex(r) \in Indices
    BY <2>1, Geometry
  <2>4. TypeAt(b, FarValueIndex(r))' # "SEALED"  BY <1>1, <1>2, <1>4, <2>1, <2>3, Mirror
  <2> HIDE DEF r
  <2>5. Profile(b, r)'
    BY <1>1, <1>2, <1>3, <2>2, <2>3, <2>4, Mirror, SamePublished DEF Profile, r
  <2> QED  BY <2>5 DEF r
<1> QED  BY <1>5, <1>6, Mirror, ValueChained

\* A pop seals the empty buffer x beyond the edge of y, which is not sealed.
LEMMA SealChained ==
  ASSUME TypeOK, Chained, SameOwners, chain' = chain, NEW x, Published(x), NEW y, Published(y),
         NEW s \in Sides, Mutual(s, y, x), TypeAt(y, FarValueIndex(s)) # "SEALED",
         TypeAt(x, NearValueIndex(s)) = FarType(s),
         NEW v, Written(x, NearValueIndex(s), "SEALED", v)
  PROVE  Chained'
<1> DEFINE i == NearValueIndex(s)
           r == Opposite(s)
<1>0. x \in Buffers /\ y \in Buffers /\ i \in Indices  BY Geometry DEF Published
<1>1. \A z \in Buffers, k \in Indices : z # x \/ k # i =>
        slots'[z][k] = slots[z][k] /\ TypeAt(z, k)' = TypeAt(z, k)
  BY <1>0 DEF Written, TypeAt
<1>2. TypeAt(x, i)' = "SEALED"  BY DEF Written, TypeAt
<1>3. Profile(x, s) /\ Profile(x, r)
  BY Mirror DEF Chained, Profiles, Published
<1>4. r \in Sides /\ FarType(r) = NearType(s) /\ FarLinkIndex(r) = NearLinkIndex(s)
      /\ FarValueIndex(r) = i /\ NearType(r) = FarType(s) /\ NearValueIndex(r) = FarValueIndex(s)
  BY Mirror
<1>5. \A k \in Indices : Outer(s, k, i) => TypeAt(x, k) = FarType(s)
  BY <1>0, <1>3 DEF Profile
<1>6. \A k \in Indices \ {i, NearLinkIndex(s)} : Outer(s, k, i)
  <2> SUFFICES ASSUME NEW k \in Indices, k # i, k # NearLinkIndex(s) PROVE Outer(s, k, i)
    OBVIOUS
  <2>1. NearLinkIndex(s) \in Indices /\ i = NearLinkIndex(s) + FarDirection(s)
    BY Geometry, <1>0 DEF NearLinkIndex, NearValueIndex, FarDirection, Sides, LastIndex, Indices
  <2>2. Outer(s, k, NearLinkIndex(s))  BY Places4
  <2> QED  BY <2>1, <2>2, Places4
<1>7. TypeAt(x, NearLinkIndex(s)) = "VALUE"
  BY DEF Mutual, LinksTo, TypeAt
<1> HIDE DEF i, r
<1>8. Profile(x, s)'
  <2>1. ASSUME NEW k \in Indices, NEW l \in Indices, Outer(s, l, k), TypeAt(x, k)' = FarType(s)
        PROVE  TypeAt(x, l)' = FarType(s)
    <3>1. k # i /\ k # NearLinkIndex(s)
      BY <1>0, <1>1, <1>2, <1>7, <2>1, Mirror, Geometry, Places4 DEF i
    <3>2. l # i
      BY <1>6, <2>1, <3>1, Places4, <1>0
    <3> QED  BY <1>0, <1>1, <1>3, <2>1, <3>1, <3>2 DEF Profile
  <2>2. /\ FarLinkIndex(s) # i /\ FarLinkIndex(s) \in Indices /\ FarValueIndex(s) \in Indices
        /\ FarValueIndex(s) # i
    BY Geometry, Places4 DEF i
  <2>3. TypeAt(x, FarValueIndex(s))' # "SEALED"
    BY <1>0, <1>1, <1>5, <1>6, <2>2, Mirror, Places4 DEF i
  <2>4. \A k \in Indices : TypeAt(x, k)' = "SEALED" => k \in {FarValueIndex(s), i}
    BY <1>0, <1>1, <1>3 DEF Profile, i
  <2>5. /\ TypeAt(x, FarLinkIndex(s))' \in {FarType(s), "VALUE"}
        /\ TypeAt(x, FarLinkIndex(s))' = "VALUE" => Published(slots[x][FarLinkIndex(s)].val)'
    BY <1>0, <1>1, <1>3, <2>2, SamePublished DEF Profile
  <2> QED  BY <2>1, <2>3, <2>4, <2>5 DEF Profile, i
<1>9. Profile(x, r)'
  <2>1. ASSUME NEW k \in Indices, NEW l \in Indices, Outer(r, l, k), TypeAt(x, k)' = FarType(r)
        PROVE  TypeAt(x, l)' = FarType(r)
    <3>1. k # i  BY <1>2, <1>4, <2>1, Mirror
    <3>2. k = NearLinkIndex(s) \/ TypeAt(x, k) = FarType(s)  BY <1>5, <1>6, <3>1
    <3>3. TypeAt(x, k) = NearType(s)  BY <1>0, <1>1, <1>4, <2>1, <3>1
    <3> QED  BY <1>7, <3>2, <3>3, Mirror
  <2>2. FarLinkIndex(r) # i /\ FarLinkIndex(r) \in Indices
    BY <1>4, Geometry, Places4 DEF i
  <2>3. /\ TypeAt(x, FarLinkIndex(r))' = "VALUE"
        /\ Published(slots[x][FarLinkIndex(r)].val)'
    BY <1>0, <1>1, <1>3, <1>4, <1>7, <2>2, SamePublished DEF Profile
  <2>4. \A k \in Indices \ {FarLinkIndex(r), FarValueIndex(r)} : TypeAt(x, k)' = NearType(r)
    BY <1>0, <1>1, <1>4, <1>5, <1>6
  <2>5. \A k \in Indices : TypeAt(x, k)' = "SEALED" => k \in {FarValueIndex(r), NearValueIndex(r)}
    BY <1>0, <1>1, <1>3, <1>4 DEF Profile
  <2> QED  BY <2>1, <2>3, <2>4, <2>5 DEF Profile
<1>10. Profiles'
  <2> SUFFICES ASSUME NEW z \in Buffers, Published(z), NEW q \in Sides PROVE Profile(z, q)'
    BY SamePublished DEF Profiles
  <2>1. CASE z = x  BY <1>8, <1>9, <2>1, Mirror DEF r
  <2>2. CASE z # x  BY <1>0, <2>2, SamePublished, ProfilesKept DEF Chained, i
  <2> QED  BY <2>1, <2>2
<1>11. Caches'
  BY <1>0, CachesKept DEF Chained, i
<1>12. Linked'
  <2>1. \A z \in Buffers : \A j \in {0, LastIndex} : slots'[z][j] = slots[z][j]
    <3>1. i \notin {0, LastIndex}
      BY Places4 DEF i, Sides, FarLinkIndex, NearLinkIndex
    <3> QED  BY <1>0, <1>1, <3>1, Borders
  <2>2. \A c, d \in Buffers : Mutual("L", c, d)' <=> Mutual("L", c, d)
    BY <2>1 DEF Mutual, LinksTo, FarLinkIndex, NearLinkIndex
  <2>3. \A z \in Buffers : IsSealed(z) => IsSealed(z)'
    <3>1. \A z \in Buffers, j \in Indices : TypeAt(z, j) = "SEALED" => TypeAt(z, j)' = "SEALED"
      BY <1>1, <1>2
    <3> QED  BY <3>1, Borders DEF IsSealed, TypeAt
  <2>4. \A z : InChain(z)' <=> InChain(z)  BY DEF InChain
  <2>5. Len(chain) \in Nat \ {0} /\ DOMAIN chain = 1..Len(chain)
    BY LenProperties, EmptySeq DEF Chained, Linked
  <2>6. \A k \in DOMAIN chain : chain[k] \in Buffers
    BY DEF Chained, Linked, Published
  <2>7. \A k \in 1..(Len(chain) - 1) : Mutual("L", chain[k + 1], chain[k])'
    <3> SUFFICES ASSUME NEW k \in 1..(Len(chain) - 1) PROVE Mutual("L", chain[k + 1], chain[k])'
      OBVIOUS
    <3>1. k \in DOMAIN chain /\ k + 1 \in DOMAIN chain  BY <2>5
    <3>2. Mutual("L", chain[k + 1], chain[k])  BY DEF Chained, Linked
    <3> QED  BY <2>2, <2>6, <3>1, <3>2
  <2>8. TypeAt(chain[1], 0)' = "L" /\ TypeAt(chain[Len(chain)], LastIndex)' = "R"
    <3>1. chain[1] \in Buffers /\ chain[Len(chain)] \in Buffers  BY <2>5, <2>6
    <3> QED  BY <2>1, <3>1 DEF Chained, Linked, TypeAt
  <2>9. ASSUME NEW c \in Buffers, NEW d \in Buffers, Published(c), Published(d),
               Mutual("L", c, d)
        PROVE  ~(TypeAt(c, 1)' = "SEALED" /\ TypeAt(d, LastIndex - 1)' = "SEALED")
    <3>1. ~(TypeAt(c, 1) = "SEALED" /\ TypeAt(d, LastIndex - 1) = "SEALED")
      BY <2>9 DEF Chained, Linked
    <3>2. CASE s = "L"
      <4>1. i = LastIndex - 1 /\ FarValueIndex(s) = 1  BY <3>2 DEF i, NearValueIndex, FarValueIndex
      <4>2. d = x => c = y
        BY <2>9, <3>2 DEF Mutual, LinksTo
      <4>3. TypeAt(y, 1)' # "SEALED"
        BY <1>0, <1>1, <4>1, Places4, Borders DEF i
      <4>4. c # x \/ 1 # i  BY <4>1, Places4 DEF i
      <4> QED  BY <1>0, <1>1, <3>1, <4>1, <4>2, <4>3, <4>4, Borders
    <3>3. CASE s = "R"
      <4>1. i = 1 /\ FarValueIndex(s) = LastIndex - 1  BY <3>3 DEF i, NearValueIndex, FarValueIndex
      <4>2. c = x => d = y
        BY <2>9, <3>3 DEF Mutual, LinksTo, FarLinkIndex, NearLinkIndex
      <4>3. TypeAt(y, LastIndex - 1)' # "SEALED"
        BY <1>0, <1>1, <4>1, Places4, Borders DEF i
      <4>4. LastIndex - 1 # i  BY <4>1, Places4 DEF i
      <4> QED  BY <1>0, <1>1, <3>1, <4>1, <4>2, <4>3, <4>4, Borders
    <3> QED  BY <3>2, <3>3 DEF Sides
  <2> QED
    BY <2>2, <2>3, <2>4, <2>7, <2>8, <2>9, SamePublished DEF Chained, Linked, Published
<1> QED  BY <1>10, <1>11, <1>12 DEF Chained

-----------------------------------------------------------------------------
(* The chain grows and shrinks at its ends. *)

\* A sequence that has grown at its left end: the old elements have moved up by one.
LEMMA GrownLeft ==
  ASSUME NEW X, NEW q \in Seq(X), NEW e \in X
  PROVE  /\ AtEnd("L", e, q) \in Seq(X) /\ Len(AtEnd("L", e, q)) = Len(q) + 1
         /\ AtEnd("L", e, q)[1] = e
         /\ \A k \in 1..Len(q) : AtEnd("L", e, q)[k + 1] = q[k]
<1>1. <<e>> \in Seq(X) /\ Len(<<e>>) = 1 /\ <<e>>[1] = e
  OBVIOUS
<1>2. Len(q) \in Nat  BY LenProperties
<1>3. /\ <<e>> \o q \in Seq(X) /\ Len(<<e>> \o q) = 1 + Len(q)
      /\ \A k \in 1..(1 + Len(q)) :
           (<<e>> \o q)[k] = IF k <= 1 THEN <<e>>[k] ELSE q[k - 1]
  BY <1>1, ConcatProperties
<1>4. \A k \in 1..Len(q) : (<<e>> \o q)[k + 1] = q[k]
  <2> SUFFICES ASSUME NEW k \in 1..Len(q) PROVE (<<e>> \o q)[k + 1] = q[k]
    OBVIOUS
  <2>1. k + 1 \in 1..(1 + Len(q)) /\ ~(k + 1 <= 1) /\ (k + 1) - 1 = k  BY <1>2
  <2> QED  BY <1>3, <2>1
<1>5. (<<e>> \o q)[1] = e  BY <1>1, <1>2, <1>3
<1> QED  BY <1>2, <1>3, <1>4, <1>5 DEF AtEnd

\* A sequence that has grown at its right end: the old elements stay where they are.
LEMMA GrownRight ==
  ASSUME NEW X, NEW q \in Seq(X), NEW e \in X
  PROVE  /\ AtEnd("R", e, q) \in Seq(X) /\ Len(AtEnd("R", e, q)) = Len(q) + 1
         /\ AtEnd("R", e, q)[Len(q) + 1] = e
         /\ \A k \in 1..Len(q) : AtEnd("R", e, q)[k] = q[k]
<1>1. /\ Append(q, e) \in Seq(X) /\ Len(Append(q, e)) = Len(q) + 1
      /\ \A k \in 1..Len(q) : Append(q, e)[k] = q[k]
      /\ Append(q, e)[Len(q) + 1] = e
  BY AppendProperties
<1> QED  BY <1>1 DEF AtEnd

\* A sequence without the element at one of its ends.
LEMMA Shrunk ==
  ASSUME NEW X, NEW q \in Seq(X), Len(q) > 1, NEW s \in Sides
  PROVE  /\ WithoutEnd(s, q) \in Seq(X) /\ Len(q) \in Nat
         /\ Len(WithoutEnd(s, q)) = Len(q) - 1 /\ WithoutEnd(s, q) # <<>>
         /\ s = "L" => \A k \in 1..(Len(q) - 1) : WithoutEnd(s, q)[k] = q[k + 1]
         /\ s = "R" => \A k \in 1..(Len(q) - 1) : WithoutEnd(s, q)[k] = q[k]
<1>1. Len(q) \in Nat /\ q # <<>>  BY LenProperties, EmptySeq
<1>2. CASE s = "L"
  <2>1. /\ Tail(q) \in Seq(X) /\ Len(Tail(q)) = Len(q) - 1
        /\ \A k \in 1..Len(Tail(q)) : Tail(q)[k] = q[k + 1]
    BY <1>1, HeadTailProperties
  <2>2. Tail(q) # <<>>
    <3> DEFINE p == Tail(q)
    <3>1. Len(p) = Len(q) - 1  BY <2>1
    <3> HIDE DEF p
    <3>2. p # <<>>  BY <1>1, <3>1, EmptySeq
    <3> QED  BY <3>2 DEF p
  <2> QED  BY <1>1, <1>2, <2>1, <2>2 DEF WithoutEnd
<1>3. CASE s = "R"
  <2> DEFINE n == Len(q) - 1
             p == SubSeq(q, 1, n)
  <2>1. \A k \in 1..n : q[k] \in X
    BY <1>1, ElementOfSeq
  <2>2. n \in Int /\ 1 \in Int /\ 1 <= n  BY <1>1
  <2> HIDE DEF n
  <2>3. /\ p \in Seq(X) /\ Len(p) = IF 1 <= n THEN n - 1 + 1 ELSE 0
        /\ \A k \in 1..(n - 1 + 1) : p[k] = q[1 + k - 1]
    BY <2>1, <2>2, SubSeqProperties
  <2>4. \A k \in 1..n : p[k] = q[k]
    <3> SUFFICES ASSUME NEW k \in 1..n PROVE p[k] = q[k]
      OBVIOUS
    <3>1. k \in 1..(n - 1 + 1) /\ 1 + k - 1 = k  BY <2>2
    <3> QED  BY <2>3, <3>1
  <2>5. Len(p) = n  BY <2>2, <2>3
  <2>6. p # <<>>  BY <2>2, <2>5, EmptySeq
  <2>7. WithoutEnd(s, q) = p  BY <1>3 DEF WithoutEnd, n
  <2> HIDE DEF p
  <2> QED  BY <1>1, <1>3, <2>3, <2>4, <2>5, <2>6, <2>7 DEF n
<1> QED  BY <1>2, <1>3 DEF Sides

\* A removal unlinks the sealed buffer x beyond the edge of b: x was the end of the chain,
\* and what x and b knew of each other stays true.
LEMMA UnlinkSetting ==
  ASSUME TypeOK, Chained, NEW b, Published(b), NEW x, Published(x), NEW s \in Sides,
         LinksTo(b, FarLinkIndex(s), x), SealedOff(s, b, x)
  PROVE  /\ Mutual(s, b, x) /\ b # x
         /\ TypeAt(b, FarValueIndex(s)) # "SEALED"
         /\ TypeAt(x, FarLinkIndex(s)) = FarType(s)
         /\ Len(chain) \in Nat /\ Len(chain) > 1
         /\ s = "L" => chain[1] = x /\ chain[2] = b
         /\ s = "R" => chain[Len(chain)] = x /\ chain[Len(chain) - 1] = b
<1>1. Mutual(s, b, x)  BY DEF Mutual, SealedOff
<1>2. TypeAt(b, FarValueIndex(s)) # "SEALED"  BY <1>1, NotBoth DEF SealedOff
<1>3. TypeAt(x, FarLinkIndex(s)) = FarType(s)
  BY Looks, Geometry, Places4 DEF Chained, SealedOff
<1>4. b # x  BY <1>3, Mirror DEF LinksTo, TypeAt
<1>5. Len(chain) \in Nat  BY LenProperties DEF Chained, Linked
<1>6. CASE s = "L"
  <2>1. PICK k \in 1..(Len(chain) - 1) : chain[k] = x /\ chain[k + 1] = b
    BY <1>1, <1>6 DEF Chained, Linked, Published
  <2>2. k \in DOMAIN chain  BY <1>5, <2>1, LenProperties DEF Chained, Linked
  <2>3. chain[1] = x
    BY <1>3, <1>6, <2>1, <2>2, AtTheEnd, Mirror DEF InChain
  <2>4. 1 \in DOMAIN chain
    BY <1>5, <2>1, LenProperties DEF Chained, Linked
  <2>5. k = 1  BY <2>1, <2>2, <2>3, <2>4 DEF Chained, Linked
  <2> QED  BY <1>1, <1>2, <1>3, <1>4, <1>5, <1>6, <2>1, <2>5
<1>7. CASE s = "R"
  <2>0. Mutual("L", x, b)  BY <1>1, <1>7, BothWays DEF Sides, Opposite
  <2>1. PICK k \in 1..(Len(chain) - 1) : chain[k] = b /\ chain[k + 1] = x
    BY <2>0 DEF Chained, Linked, Published
  <2>2. k + 1 \in DOMAIN chain  BY <1>5, <2>1, LenProperties DEF Chained, Linked
  <2>3. chain[Len(chain)] = x
    BY <1>3, <1>7, <2>1, <2>2, AtTheEnd, Mirror DEF InChain
  <2>4. Len(chain) \in DOMAIN chain
    BY <1>5, <2>1, LenProperties DEF Chained, Linked
  <2>5. k + 1 = Len(chain)  BY <2>1, <2>2, <2>3, <2>4 DEF Chained, Linked
  <2>6. k = Len(chain) - 1 /\ Len(chain) > 1  BY <1>5, <2>1, <2>5
  <2> QED  BY <1>1, <1>2, <1>3, <1>4, <1>5, <1>7, <2>1, <2>3, <2>6
<1> QED  BY <1>6, <1>7 DEF Sides

\* Then the link that is cut is that of the end of the chain: the sealed end buffer leaves
\* the chain, the other buffers stay as they are.
LEMMA UnlinkChained ==
  ASSUME TypeOK, Chained, SameOwners, NEW b, Published(b), NEW x, Published(x),
         NEW s \in Sides, LinksTo(b, FarLinkIndex(s), x), SealedOff(s, b, x),
         NEW v, Written(b, FarLinkIndex(s), FarType(s), v), chain' = WithoutEnd(s, chain)
  PROVE  Chained' /\ Later
<1> DEFINE i == FarLinkIndex(s)
           r == Opposite(s)
<1>0. x \in Buffers /\ b \in Buffers /\ i \in Indices  BY Geometry DEF Published
<1>1. \A z \in Buffers, k \in Indices : z # b \/ k # i =>
        slots'[z][k] = slots[z][k] /\ TypeAt(z, k)' = TypeAt(z, k)
  BY <1>0 DEF Written, TypeAt
<1>2. TypeAt(b, i)' = FarType(s) /\ TypeAt(b, i) = "VALUE"
  BY DEF Written, TypeAt, LinksTo
<1>3. /\ Mutual(s, b, x) /\ b # x
      /\ TypeAt(b, FarValueIndex(s)) # "SEALED"
      /\ TypeAt(x, FarLinkIndex(s)) = FarType(s)
      /\ Len(chain) \in Nat /\ Len(chain) > 1
      /\ s = "L" => chain[1] = x /\ chain[2] = b
      /\ s = "R" => chain[Len(chain)] = x /\ chain[Len(chain) - 1] = b
  BY UnlinkSetting
<1>4. r \in Sides /\ FarType(r) = NearType(s) /\ FarLinkIndex(r) = NearLinkIndex(s)
      /\ FarValueIndex(r) = NearValueIndex(s) /\ NearType(r) = FarType(s)
      /\ NearValueIndex(r) = FarValueIndex(s) /\ NearLinkIndex(r) = i
  BY Mirror
<1>5. Profile(b, s) /\ Profile(b, r)
  BY <1>0, Mirror DEF Chained, Profiles
<1> HIDE DEF i, r
<1>6. Profile(b, s)'
  <2>1. ASSUME NEW k \in Indices, NEW l \in Indices, Outer(s, l, k), TypeAt(b, k)' = FarType(s)
        PROVE  TypeAt(b, l)' = FarType(s)
    <3>1. k # i  BY <2>1, Places4, <1>0 DEF i
    <3> QED  BY <1>0, <1>1, <1>2, <1>5, <2>1, <3>1 DEF Profile
  <2>2. FarValueIndex(s) # i /\ FarValueIndex(s) \in Indices  BY Geometry DEF i
  <2>3. TypeAt(b, FarValueIndex(s))' # "SEALED"  BY <1>0, <1>1, <1>3, <2>2
  <2>4. \A k \in Indices : TypeAt(b, k)' = "SEALED" => k \in {FarValueIndex(s), NearValueIndex(s)}
    BY <1>0, <1>1, <1>2, <1>5, Mirror DEF Profile
  <2> QED  BY <1>2, <2>1, <2>3, <2>4, Mirror DEF Profile, i
<1>7. Profile(b, r)'
  <2>1. ASSUME NEW k \in Indices, NEW l \in Indices, Outer(r, l, k), TypeAt(b, k)' = FarType(r)
        PROVE  TypeAt(b, l)' = FarType(r)
    <3>1. k # i  BY <1>2, <1>4, <2>1, Mirror
    <3>2. TypeAt(b, l) = FarType(r)  BY <1>0, <1>1, <1>5, <2>1, <3>1 DEF Profile
    <3>3. l # i  BY <1>2, <1>4, <3>2, Mirror
    <3> QED  BY <1>0, <1>1, <3>2, <3>3
  <2>2. FarLinkIndex(r) # i /\ FarLinkIndex(r) \in Indices /\ FarValueIndex(r) # i
        /\ FarValueIndex(r) \in Indices
    BY <1>4, Geometry, Places4 DEF i
  <2>3. TypeAt(b, FarValueIndex(r)) # "SEALED"
    BY <1>0, <1>2, <1>4, <1>5, <2>2, Mirror, Places4 DEF Profile, i
  <2>4. TypeAt(b, FarValueIndex(r))' # "SEALED"  BY <1>0, <1>1, <2>2, <2>3
  <2>5. \A k \in Indices : TypeAt(b, k)' = "SEALED" => k \in {FarValueIndex(r), NearValueIndex(r)}
    BY <1>0, <1>1, <1>2, <1>5, Mirror DEF Profile
  <2>6. /\ TypeAt(b, FarLinkIndex(r))' \in {FarType(r), "VALUE"}
        /\ TypeAt(b, FarLinkIndex(r))' = "VALUE" => Published(slots[b][FarLinkIndex(r)].val)'
    BY <1>0, <1>1, <1>5, <2>2, SamePublished DEF Profile
  <2> QED  BY <2>1, <2>4, <2>5, <2>6 DEF Profile
<1>8. Profiles'
  <2> SUFFICES ASSUME NEW z \in Buffers, Published(z), NEW q \in Sides PROVE Profile(z, q)'
    BY SamePublished DEF Profiles
  <2>1. CASE z = b  BY <1>6, <1>7, <2>1, Mirror DEF r
  <2>2. CASE z # b  BY <1>0, <2>2, SamePublished, ProfilesKept DEF Chained, i
  <2> QED  BY <2>1, <2>2
<1>9. Caches'
  BY <1>0, CachesKept DEF Chained, i
<1>10. \A c, d \in Buffers : Mutual("L", c, d)' <=>
         Mutual("L", c, d) /\ IF s = "L" THEN c # b ELSE d # b
  <2>1. "VALUE" # FarType(s)  BY Mirror
  <2>2. CASE s = "L"
    <3>1. i = 0 /\ 0 # LastIndex  BY <2>2, Places4 DEF i, FarLinkIndex, NearLinkIndex
    <3> QED
      BY <1>0, <1>1, <1>2, <2>1, <2>2, <3>1, Borders
         DEF Mutual, LinksTo, TypeAt, FarLinkIndex, NearLinkIndex
  <2>3. CASE s = "R"
    <3>1. i = LastIndex /\ 0 # LastIndex  BY <2>3, Places4 DEF i, FarLinkIndex, NearLinkIndex
    <3> QED
      BY <1>0, <1>1, <1>2, <2>1, <2>3, <3>1, Borders
         DEF Mutual, LinksTo, TypeAt, FarLinkIndex, NearLinkIndex
  <2> QED  BY <2>2, <2>3 DEF Sides
<1>11. \A z \in Buffers, k \in Indices : TypeAt(z, k)' = "SEALED" <=> TypeAt(z, k) = "SEALED"
  BY <1>0, <1>1, <1>2, Mirror
<1>12. Linked'
  <2> DEFINE n == Len(chain)
             f(k) == IF s = "L" THEN k + 1 ELSE k
  <2>1. /\ chain' \in Seq(Buffers) /\ Len(chain') = n - 1 /\ chain' # <<>>
        /\ \A k \in 1..(n - 1) : chain'[k] = chain[f(k)]
    <3>1. chain \in Seq(Buffers)  BY DEF Chained, Linked
    <3>2. s = "L" \/ s = "R"  BY DEF Sides
    <3>3. /\ WithoutEnd(s, chain) \in Seq(Buffers) /\ Len(WithoutEnd(s, chain)) = Len(chain) - 1
          /\ WithoutEnd(s, chain) # <<>>
          /\ s = "L" => \A k \in 1..(Len(chain) - 1) : WithoutEnd(s, chain)[k] = chain[k + 1]
          /\ s = "R" => \A k \in 1..(Len(chain) - 1) : WithoutEnd(s, chain)[k] = chain[k]
      BY <1>3, <3>1, Shrunk
    <3> QED  BY <3>2, <3>3
  <2>2. DOMAIN chain = 1..n /\ DOMAIN chain' = 1..(n - 1)
    BY <2>1, LenProperties DEF Chained, Linked
  <2>3. n \in Nat /\ n > 1 /\ \A k \in 1..(n - 1) : f(k) \in 1..n /\ f(k + 1) = f(k) + 1
    BY <1>3
  <2>4. \A k \in 1..n : chain[k] \in Buffers /\ Published(chain[k])
    BY <2>2 DEF Chained, Linked, Published
  <2>5. \A k, l \in 1..n : chain[k] = chain[l] => k = l
    BY <2>2 DEF Chained, Linked
  <2>6. \A c : InChain(c)' <=> \E k \in 1..(n - 1) : chain[f(k)] = c
    BY <2>1, <2>2 DEF InChain
  <2>7. \A k, l \in 1..(n - 1) : f(k) = f(l) => k = l
    BY <2>3
  <2> HIDE DEF n
  <2>8. \A k \in DOMAIN chain' : Published(chain[k])'
    BY <2>1, <2>2, <2>3, <2>4, SamePublished
  <2>9. \A k, l \in DOMAIN chain' : chain'[k] = chain'[l] => k = l
    BY <2>1, <2>2, <2>3, <2>5, <2>7
  <2>10. ASSUME NEW k \in 1..(n - 2), NEW c \in Buffers, NEW d \in Buffers,
                c = chain'[k + 1], d = chain'[k]
         PROVE  Mutual("L", c, d)'
    <3>1. k \in 1..(n - 1) /\ k + 1 \in 1..(n - 1)  BY <2>3
    <3>2. d = chain[f(k)] /\ c = chain[f(k) + 1]
      BY <2>1, <2>3, <2>10, <3>1
    <3>3. f(k) \in 1..(n - 1) /\ f(k) \in 1..n /\ f(k) + 1 \in 1..n
      BY <2>3, <3>1
    <3>4. Mutual("L", c, d)
      BY <3>2, <3>3 DEF Chained, Linked, n
    <3>5. IF s = "L" THEN c # b ELSE d # b
      <4>1. CASE s = "L"
        <5>1. f(k) + 1 # 2 /\ 2 \in 1..n  BY <2>3, <4>1
        <5> QED  BY <1>3, <2>5, <3>2, <3>3, <4>1, <5>1
      <4>2. CASE s # "L"
        <5>1. f(k) # n - 1 /\ n - 1 \in 1..n  BY <2>3, <4>2
        <5> QED  BY <1>3, <2>5, <3>2, <3>3, <4>2, <5>1 DEF n, Sides
      <4> QED  BY <4>1, <4>2
    <3> QED  BY <1>10, <3>4, <3>5
  <2>11. ASSUME NEW c \in Buffers, NEW d \in Buffers, Published(c), Published(d), Mutual("L", c, d)'
         PROVE  /\ \E k \in 1..(n - 2) : chain'[k] = d /\ chain'[k + 1] = c
                /\ ~(TypeAt(c, 1)' = "SEALED" /\ TypeAt(d, LastIndex - 1)' = "SEALED")
    <3>1. Mutual("L", c, d) /\ IF s = "L" THEN c # b ELSE d # b
      BY <1>10, <2>11
    <3>2. PICK k \in 1..(n - 1) : chain[k] = d /\ chain[k + 1] = c
      BY <2>11, <3>1 DEF Chained, Linked, n
    <3>3. ~(TypeAt(c, 1) = "SEALED" /\ TypeAt(d, LastIndex - 1) = "SEALED")
      BY <2>11, <3>1 DEF Chained, Linked
    <3>4. CASE s = "L"
      <4>1. k # 1  BY <1>3, <3>1, <3>2, <3>4
      <4>2. k - 1 \in 1..(n - 2) /\ k - 1 \in 1..(n - 1) /\ k \in 1..(n - 1)
            /\ (k - 1) + 1 = k
        BY <2>3, <3>2, <4>1
      <4>3. chain'[k - 1] = d /\ chain'[(k - 1) + 1] = c
        BY <2>1, <3>2, <3>4, <4>2
      <4> QED  BY <1>11, <3>3, <4>2, <4>3, Borders
    <3>5. CASE s = "R"
      <4>1. k # n - 1  BY <1>3, <3>1, <3>2, <3>5 DEF n
      <4>2. k \in 1..(n - 2) /\ k \in 1..(n - 1) /\ k + 1 \in 1..(n - 1)
        BY <2>3, <3>2, <4>1
      <4>3. chain'[k] = d /\ chain'[k + 1] = c
        BY <2>1, <3>2, <3>5, <4>2
      <4> QED  BY <1>11, <3>3, <4>2, <4>3, Borders
    <3> QED  BY <3>4, <3>5 DEF Sides
  <2>12. TypeAt(chain[1], 0)' = "L" /\ TypeAt(chain[Len(chain)], LastIndex)' = "R"
    <3>1. TypeAt(chain[1], 0) = "L" /\ TypeAt(chain[n], LastIndex) = "R"
      BY DEF Chained, Linked, n
    <3>2. 1 \in 1..n /\ n \in 1..n /\ 2 \in 1..n /\ n - 1 \in 1..n /\ 1 \in 1..(n - 1)
          /\ n - 1 \in 1..(n - 1) /\ (n - 1) + 1 = n
      BY <2>3
    <3>3. 0 # LastIndex  BY Places4 DEF Sides, FarLinkIndex, NearLinkIndex
    <3>4. CASE s = "L"
      <4>0. f(1) = 2 /\ f(n - 1) = n  BY <2>3, <3>4
      <4>1. chain'[1] = b /\ chain'[n - 1] = chain[n]
        BY <1>3, <2>1, <3>2, <3>4, <4>0
      <4>2. TypeAt(b, 0)' = "L"  BY <1>2, <3>4 DEF i, FarLinkIndex, FarType
      <4>3. slots'[chain[n]][LastIndex].type = "R"
        BY <1>1, <2>4, <3>1, <3>2, <3>3, <3>4, Borders DEF i, FarLinkIndex, TypeAt
      <4> QED  BY <2>1, <4>1, <4>2, <4>3 DEF TypeAt
    <3>5. CASE s = "R"
      <4>1. chain'[1] = chain[1] /\ chain'[n - 1] = b
        BY <1>3, <2>1, <3>2, <3>5 DEF n
      <4>2. TypeAt(b, LastIndex)' = "R"  BY <1>2, <3>5 DEF i, FarLinkIndex, FarType
      <4>3. slots'[chain[1]][0].type = "L"
        BY <1>1, <2>4, <3>1, <3>2, <3>3, <3>5, Borders DEF i, FarLinkIndex, TypeAt
      <4> QED  BY <2>1, <4>1, <4>2, <4>3 DEF TypeAt
    <3> QED  BY <3>4, <3>5 DEF Sides
  <2>13. ASSUME NEW c \in Buffers, Published(c), ~InChain(c)'
         PROVE  IsSealed(c)'
    <3>1. IsSealed(c)
      <4>1. CASE ~InChain(c)  BY <2>13, <4>1 DEF Chained, Linked
      <4>2. CASE InChain(c)
        <5>1. PICK k \in 1..n : chain[k] = c  BY <2>2, <4>2 DEF InChain
        <5>2. c = x
          <6>1. CASE s = "L"
            <7>1. k # 1 => k - 1 \in 1..(n - 1) /\ f(k - 1) = k  BY <2>3, <6>1
            <7> QED  BY <1>3, <2>6, <2>13, <5>1, <6>1, <7>1
          <6>2. CASE s = "R"
            <7>1. k # n => k \in 1..(n - 1) /\ f(k) = k  BY <2>3, <6>2
            <7> QED  BY <1>3, <2>6, <2>13, <5>1, <6>2, <7>1 DEF n
          <6> QED  BY <6>1, <6>2 DEF Sides
        <5> QED  BY <5>2 DEF SealedOff, IsSealed, TypeAt, NearValueIndex
      <4> QED  BY <4>1, <4>2
    <3> QED  BY <1>11, <2>13, <3>1, Borders DEF IsSealed, TypeAt
  <2>14. \A k \in 1..(Len(chain') - 1) : Mutual("L", chain[k + 1], chain[k])'
    <3> SUFFICES ASSUME NEW k \in 1..(n - 2) PROVE Mutual("L", chain[k + 1], chain[k])'
      BY <2>1, <2>3
    <3>1. chain'[k] \in Buffers /\ chain'[k + 1] \in Buffers
      <4>1. k \in 1..(n - 1) /\ k + 1 \in 1..(n - 1)  BY <2>3
      <4> QED  BY <2>1, <2>3, <2>4, <4>1
    <3> QED  BY <2>10, <3>1
  <2>15. \A c, d \in Buffers : Published(c)' /\ Published(d)' /\ Mutual("L", c, d)' =>
           /\ \E k \in 1..(Len(chain') - 1) : chain'[k] = d /\ chain'[k + 1] = c
           /\ ~(TypeAt(c, 1)' = "SEALED" /\ TypeAt(d, LastIndex - 1)' = "SEALED")
    <3>1. Len(chain') - 1 = n - 2  BY <2>1, <2>3
    <3> QED  BY <2>11, <3>1, SamePublished
  <2> QED
    BY <2>1, <2>8, <2>9, <2>12, <2>13, <2>14, <2>15, SamePublished DEF Linked
<1>13. Later
  <2>1. \A z \in Buffers, k \in Indices :
          /\ slots'[z][k] = slots[z][k] \/ slots[z][k].cnt < slots'[z][k].cnt
          /\ TypeAt(z, k) = "SEALED" => TypeAt(z, k)' = "SEALED"
    BY <1>0, <1>11, SlotFields DEF Written, TypeOK, VarTypes, i
  <2>2. ASSUME NEW c \in Buffers, NEW d \in Buffers, NEW q \in Sides
        PROVE  /\ WereLinked(q, c, d) => WereLinked(q, c, d)'
               /\ SealedOff(q, c, d) => SealedOff(q, c, d)'
    <3>1. FarValueIndex(q) \in Indices /\ NearValueIndex(q) \in Indices
          /\ FarLinkIndex(q) \in Indices /\ NearLinkIndex(q) \in Indices
      BY Geometry
    <3>2. slots[b][i].val = x /\ TypeAt(x, NearValueIndex(s)) = "SEALED"
      BY DEF LinksTo, SealedOff, i
    <3>3. CASE q = s
      <4>1. NearLinkIndex(q) # i  BY <3>3, Places4 DEF i
      <4>2. LinksTo(d, NearLinkIndex(q), c) => LinksTo(d, NearLinkIndex(q), c)'
        BY <1>1, <3>1, <4>1 DEF LinksTo
      <4>3. WereLinked(q, c, d) => WereLinked(q, c, d)'
        <5>1. CASE c # b
          <6>1. LinksTo(c, FarLinkIndex(q), d) => LinksTo(c, FarLinkIndex(q), d)'
            BY <1>1, <3>1, <5>1 DEF LinksTo
          <6> QED  BY <2>1, <3>1, <4>2, <6>1 DEF WereLinked, Mutual
        <5>2. CASE c = b
          <6>1. Mutual(q, c, d) => d = x  BY <3>2, <3>3, <5>2 DEF Mutual, LinksTo, i
          <6>2. Mutual(q, c, d) => TypeAt(d, NearValueIndex(q)) = "SEALED"
            BY <3>2, <3>3, <6>1
          <6> QED  BY <2>1, <3>1, <6>2 DEF WereLinked
        <5> QED  BY <5>1, <5>2
      <4> QED  BY <2>1, <3>1, <4>2, <4>3 DEF SealedOff
    <3>4. CASE q # s
      <4>1. q = r  BY <3>4, Mirror DEF r
      <4>2. FarLinkIndex(q) # i  BY <1>4, <4>1, Places4 DEF i
      <4>3. LinksTo(c, FarLinkIndex(q), d) => LinksTo(c, FarLinkIndex(q), d)'
        BY <1>1, <3>1, <4>2 DEF LinksTo
      <4>4. CASE d # b
        <5>1. LinksTo(d, NearLinkIndex(q), c) => LinksTo(d, NearLinkIndex(q), c)'
          BY <1>1, <3>1, <4>4 DEF LinksTo
        <5> QED  BY <2>1, <3>1, <4>3, <5>1 DEF WereLinked, SealedOff, Mutual
      <4>5. CASE d = b
        <5>1. ~SealedOff(q, c, d)  BY <1>3, <1>4, <4>1, <4>5 DEF SealedOff
        <5>2. Mutual(q, c, d) => c = x
          BY <1>4, <3>2, <4>1, <4>5 DEF Mutual, LinksTo
        <5>3. Mutual(q, c, d) => TypeAt(c, FarValueIndex(q)) = "SEALED"
          BY <1>4, <3>2, <4>1, <5>2
        <5> QED  BY <2>1, <3>1, <5>1, <5>3 DEF WereLinked
      <4> QED  BY <4>4, <4>5
    <3> QED  BY <3>3, <3>4
  <2> QED  BY <2>1, <2>2, SamePublished DEF Later
<1> QED  BY <1>8, <1>9, <1>12, <1>13 DEF Chained

\* The cache of t for side s is empty after the step, nothing else changes hands.
Uncaches(t, s) == cache' = [cache EXCEPT ![t][s] = Null] /\ pool' = pool

\* An append publishes the buffer n from the cache, and it becomes the end of the chain.
LEMMA AppendSetting ==
  ASSUME TypeOK, Chained, NEW t \in Threads, NEW s \in Sides, NEW n \in Buffers,
         cache[t][s] = n, Uncaches(t, s),
         NEW b, Published(b), TypeAt(b, FarLinkIndex(s)) = FarType(s),
         TypeAt(b, FarValueIndex(s)) \notin {FarType(s), "SEALED"}
  PROVE  /\ ~Published(n) /\ n # b
         /\ \A x : Published(x)' <=> Published(x) \/ x = n
         /\ TypeAt(b, NearValueIndex(s)) # "SEALED"
         /\ Len(chain) \in Nat \ {0} /\ chain[IF s = "L" THEN 1 ELSE Len(chain)] = b
<1>1. n # Null /\ ~Published(n) /\ n \notin pool
  BY OFDequeAssumption DEF Published, Private, Chained, Caches
<1>2. \A u \in Threads, q \in Sides :
        cache'[u][q] = IF u = t /\ q = s THEN Null ELSE cache[u][q]
  BY DEF TypeOK, VarTypes, Uncaches
<1>3. \A u \in Threads, q \in Sides : cache[u][q] = n => u = t /\ q = s
  BY <1>1 DEF Chained, Caches
<1>4. \A x \in Buffers : Private(x)' <=> Private(x) /\ x # n
  <2> SUFFICES ASSUME NEW x \in Buffers PROVE Private(x)' <=> Private(x) /\ x # n
    OBVIOUS
  <2>1. x # Null  BY OFDequeAssumption
  <2> QED  BY <1>1, <1>2, <1>3, <2>1 DEF Private, Uncaches
<1>5. \A x : Published(x)' <=> Published(x) \/ x = n
  BY <1>1, <1>4 DEF Published
<1>6. TypeAt(b, NearValueIndex(s)) # "SEALED"
  BY Looks, Geometry, Places4 DEF Chained
<1>7. InChain(b)
  <2>1. ~IsSealed(b)
    BY <1>6 DEF IsSealed, TypeAt, FarValueIndex, NearValueIndex, Sides
  <2> QED  BY <2>1 DEF Chained, Linked, Published
<1>8. TypeAt(b, FarLinkIndex(s)) # "VALUE"  BY Mirror
<1> QED  BY <1>1, <1>5, <1>6, <1>7, <1>8, AtTheEnd

\* Then the buffer becomes the new end of the chain: it is published, filled towards side s,
\* and linked both ways with the old end.
LEMMA AppendChained ==
  ASSUME TypeOK, Chained, NEW t \in Threads, NEW s \in Sides, NEW n \in Buffers,
         cache[t][s] = n, Uncaches(t, s),
         NEW b, Published(b), TypeAt(b, FarLinkIndex(s)) = FarType(s),
         TypeAt(b, FarValueIndex(s)) \notin {FarType(s), "SEALED"},
         slots[n][NearLinkIndex(s)].val = b,
         Written(b, FarLinkIndex(s), "VALUE", n), chain' = AtEnd(s, n, chain)
  PROVE  Chained'
<1> DEFINE i == FarLinkIndex(s)
           r == Opposite(s)
<1>0. n \in Buffers /\ b \in Buffers /\ i \in Indices  BY Geometry DEF Published
<1>1. \A z \in Buffers, k \in Indices : z # b \/ k # i =>
        slots'[z][k] = slots[z][k] /\ TypeAt(z, k)' = TypeAt(z, k)
  BY <1>0 DEF Written, TypeAt
<1>2. TypeAt(b, i)' = "VALUE" /\ slots'[b][i].val = n /\ TypeAt(b, i) = FarType(s)
  BY DEF Written, TypeAt
<1>3. /\ ~Published(n) /\ n # b
      /\ \A x : Published(x)' <=> Published(x) \/ x = n
      /\ TypeAt(b, NearValueIndex(s)) # "SEALED"
      /\ Len(chain) \in Nat \ {0} /\ chain[IF s = "L" THEN 1 ELSE Len(chain)] = b
  BY AppendSetting
<1>4. r \in Sides /\ FarType(r) = NearType(s) /\ FarLinkIndex(r) = NearLinkIndex(s)
      /\ FarValueIndex(r) = NearValueIndex(s) /\ NearType(r) = FarType(s)
      /\ NearValueIndex(r) = FarValueIndex(s) /\ NearLinkIndex(r) = i
  BY Mirror
<1>5. Profile(b, s) /\ Profile(b, r)
  BY <1>0, Mirror DEF Chained, Profiles
<1>6. \A k \in Indices : TypeAt(n, k) =
        IF k \in {NearLinkIndex(s), NearValueIndex(s)} THEN "VALUE" ELSE FarType(s)
  BY OFDequeAssumption DEF Chained, Caches
<1> HIDE DEF i, r
<1>7. Profile(b, s)'
  <2>1. ASSUME NEW k \in Indices, NEW l \in Indices, Outer(s, l, k), TypeAt(b, k)' = FarType(s)
        PROVE  TypeAt(b, l)' = FarType(s)
    <3>1. k # i /\ TypeAt(b, k) = FarType(s)  BY <1>0, <1>1, <1>2, <2>1, Mirror
    <3>2. k # FarValueIndex(s) /\ ~Outer(s, FarValueIndex(s), k)
      BY <1>5, <3>1, Geometry DEF Profile
    <3>3. Outer(s, k, FarValueIndex(s))  BY <3>2, Places4, Geometry
    <3>4. k = FarValueIndex(s) + FarDirection(s) \/ Outer(s, k, FarValueIndex(s) + FarDirection(s))
      BY <3>3, Places4, Geometry
    <3> QED  BY <3>1, <3>4, <1>0, Places4 DEF i
  <2>2. FarValueIndex(s) # i /\ FarValueIndex(s) \in Indices  BY Geometry DEF i
  <2>3. TypeAt(b, FarValueIndex(s))' # "SEALED"  BY <1>0, <1>1, <2>2
  <2>4. \A k \in Indices : TypeAt(b, k)' = "SEALED" => k \in {FarValueIndex(s), NearValueIndex(s)}
    BY <1>0, <1>1, <1>2, <1>5 DEF Profile
  <2> QED  BY <1>2, <1>3, <2>1, <2>3, <2>4 DEF Profile, i
<1>8. Profile(b, r)'
  <2>1. ASSUME NEW k \in Indices, NEW l \in Indices, Outer(r, l, k), TypeAt(b, k)' = FarType(r)
        PROVE  TypeAt(b, l)' = FarType(r)
    <3>1. k # i  BY <1>2, <1>4, <2>1, Mirror
    <3>2. TypeAt(b, l) = FarType(r)  BY <1>0, <1>1, <1>5, <2>1, <3>1 DEF Profile
    <3>3. l # i  BY <1>2, <1>4, <3>2, Mirror
    <3> QED  BY <1>0, <1>1, <3>2, <3>3
  <2>2. FarLinkIndex(r) # i /\ FarLinkIndex(r) \in Indices /\ FarValueIndex(r) # i
        /\ FarValueIndex(r) \in Indices
    BY <1>4, Geometry, Places4 DEF i
  <2>3. TypeAt(b, FarValueIndex(r))' # "SEALED"  BY <1>0, <1>1, <1>3, <1>4, <2>2
  <2>4. \A k \in Indices : TypeAt(b, k)' = "SEALED" => k \in {FarValueIndex(r), NearValueIndex(r)}
    BY <1>0, <1>1, <1>2, <1>5 DEF Profile
  <2>5. /\ TypeAt(b, FarLinkIndex(r))' \in {FarType(r), "VALUE"}
        /\ TypeAt(b, FarLinkIndex(r))' = "VALUE" => Published(slots[b][FarLinkIndex(r)].val)'
    BY <1>0, <1>1, <1>3, <1>5, <2>2 DEF Profile
  <2> QED  BY <2>1, <2>3, <2>4, <2>5 DEF Profile
<1>9. \A k \in Indices : slots'[n][k] = slots[n][k] /\ TypeAt(n, k)' = TypeAt(n, k)
  BY <1>1, <1>3
<1>10. Profile(n, s)'
  <2>1. ASSUME NEW k \in Indices, NEW l \in Indices, Outer(s, l, k), TypeAt(n, k)' = FarType(s)
        PROVE  TypeAt(n, l)' = FarType(s)
    <3>1. k \notin {NearLinkIndex(s), NearValueIndex(s)}  BY <1>6, <1>9, <2>1, Mirror
    <3>2. NearValueIndex(s) = NearLinkIndex(s) + FarDirection(s)
      BY OFDequeAssumption DEF NearLinkIndex, NearValueIndex, FarDirection, Sides, LastIndex
    <3>3. Outer(s, k, NearValueIndex(s))  BY <3>1, <3>2, Places4, Geometry
    <3>4. l \notin {NearLinkIndex(s), NearValueIndex(s)}
      BY <2>1, <3>1, <3>3, Places4, Geometry
    <3> QED  BY <1>6, <1>9, <3>4
  <2>2. \A k \in Indices : TypeAt(n, k)' # "SEALED"  BY <1>6, <1>9, Mirror
  <2>3. TypeAt(n, FarLinkIndex(s))' = FarType(s)
    BY <1>6, <1>9, Geometry, Places4
  <2> QED  BY <2>1, <2>2, <2>3, Geometry, Mirror DEF Profile
<1>11. Profile(n, r)'
  <2>1. \A k \in Indices : TypeAt(n, k)' # FarType(r)
    BY <1>4, <1>6, <1>9, Mirror
  <2>2. \A k \in Indices : TypeAt(n, k)' # "SEALED"  BY <1>6, <1>9, Mirror
  <2>3. /\ TypeAt(n, FarLinkIndex(r))' = "VALUE"
        /\ Published(slots[n][FarLinkIndex(r)].val)'
    BY <1>3, <1>4, <1>6, <1>9, Geometry
  <2> QED  BY <1>4, <2>1, <2>2, <2>3, Geometry DEF Profile
<1>12. Profiles'
  <2> SUFFICES ASSUME NEW z \in Buffers, Published(z) \/ z = n, NEW q \in Sides
               PROVE  Profile(z, q)'
    BY <1>3 DEF Profiles
  <2>1. CASE z = b  BY <1>7, <1>8, <2>1, Mirror DEF r
  <2>2. CASE z = n  BY <1>10, <1>11, <2>2, Mirror DEF r
  <2>3. CASE z # b /\ z # n  BY <1>0, <1>3, <2>3, ProfilesKept DEF Chained, i
  <2> QED  BY <2>1, <2>2, <2>3
<1>13. Caches'
  <2>1. \A u \in Threads, q \in Sides :
          cache'[u][q] = IF u = t /\ q = s THEN Null ELSE cache[u][q]
    BY DEF TypeOK, VarTypes, Uncaches
  <2>2. \A x \in Buffers, j \in Indices : Private(x) => TypeAt(x, j)' = TypeAt(x, j)
    BY <1>1 DEF Published
  <2>3. \A x \in pool : Private(x) /\ x \in Buffers
    BY DEF Private, TypeOK, VarTypes
  <2>4. \A u \in Threads, q \in Sides : cache[u][q] # Null =>
          Private(cache[u][q]) /\ cache[u][q] \in Buffers
    BY DEF Private, TypeOK, VarTypes
  <2>5. Published(FirstBuffer)'  BY <1>3 DEF Chained, Caches
  <2>6. \A x \in pool', j \in Indices : TypeAt(x, j)' # "SEALED"
    BY <2>2, <2>3 DEF Chained, Caches, Uncaches
  <2>7. ASSUME NEW u \in Threads, NEW q \in Sides, cache'[u][q] # Null
        PROVE  /\ cache'[u][q] \notin pool'
               /\ \A w \in Threads, p \in Sides : cache'[w][p] = cache'[u][q] => w = u /\ p = q
               /\ \A j \in Indices : TypeAt(cache[u][q], j)' =
                    IF j \in {NearLinkIndex(q), NearValueIndex(q)} THEN "VALUE" ELSE FarType(q)
    <3>1. cache'[u][q] = cache[u][q] /\ cache[u][q] # Null  BY <2>1, <2>7
    <3>2. \A w \in Threads, p \in Sides : cache'[w][p] = cache'[u][q] => cache[w][p] = cache[u][q]
      BY <2>1, <2>7, <3>1
    <3> QED  BY <2>2, <2>4, <3>1, <3>2 DEF Chained, Caches, TypeAt, Uncaches
  <2> QED  BY <2>5, <2>6, <2>7 DEF Caches
<1>14. \A c, d \in Buffers : Mutual("L", c, d)' <=>
         \/ Mutual("L", c, d) /\ c # n /\ d # n
         \/ IF s = "L" THEN c = b /\ d = n ELSE c = n /\ d = b
  <2>1. "VALUE" # FarType(s)  BY Mirror
  <2>2. CASE s = "L"
    <3>1. i = 0 /\ 0 # LastIndex  BY <2>2, Places4 DEF i, FarLinkIndex, NearLinkIndex
    <3>2. TypeAt(n, 0) # "VALUE" /\ TypeAt(n, LastIndex) = "VALUE" /\ slots[n][LastIndex].val = b
      BY <1>6, <2>1, <2>2, <3>1, Borders, Places4 DEF NearLinkIndex, NearValueIndex, FarLinkIndex
    <3> QED
      BY <1>0, <1>1, <1>2, <1>3, <2>1, <2>2, <3>1, <3>2, Borders
         DEF Mutual, LinksTo, TypeAt, FarLinkIndex, NearLinkIndex
  <2>3. CASE s = "R"
    <3>1. i = LastIndex /\ 0 # LastIndex  BY <2>3, Places4 DEF i, FarLinkIndex, NearLinkIndex
    <3>2. TypeAt(n, LastIndex) # "VALUE" /\ TypeAt(n, 0) = "VALUE" /\ slots[n][0].val = b
      BY <1>6, <2>1, <2>3, <3>1, Borders, Places4 DEF NearLinkIndex, NearValueIndex, FarLinkIndex
    <3> QED
      BY <1>0, <1>1, <1>2, <1>3, <2>1, <2>3, <3>1, <3>2, Borders
         DEF Mutual, LinksTo, TypeAt, FarLinkIndex, NearLinkIndex
  <2> QED  BY <2>2, <2>3 DEF Sides
<1>15. \A z \in Buffers, k \in Indices : TypeAt(z, k)' = "SEALED" <=> TypeAt(z, k) = "SEALED"
  BY <1>0, <1>1, <1>2, Mirror
<1>16. /\ chain' \in Seq(Buffers) /\ Len(chain') = Len(chain) + 1 /\ chain' # <<>>
       /\ s = "L" => /\ chain'[1] = n
                     /\ \A k \in 1..Len(chain) : chain'[k + 1] = chain[k]
       /\ s = "R" => /\ chain'[Len(chain) + 1] = n
                     /\ \A k \in 1..Len(chain) : chain'[k] = chain[k]
  <2>1. chain \in Seq(Buffers)  BY DEF Chained, Linked
  <2>2. CASE s = "L"  BY <1>3, <2>1, <2>2, GrownLeft, EmptySeq
  <2>3. CASE s = "R"  BY <1>3, <2>1, <2>3, GrownRight, EmptySeq
  <2> QED  BY <2>2, <2>3 DEF Sides
<1>17. Linked'
  <2> DEFINE m == Len(chain)
             g(k) == IF s = "L" THEN k + 1 ELSE k
             e == IF s = "L" THEN 1 ELSE m + 1
  <2>1. /\ chain' \in Seq(Buffers) /\ Len(chain') = m + 1 /\ chain' # <<>>
        /\ chain'[e] = n /\ \A k \in 1..m : chain'[g(k)] = chain[k]
    <3>1. s = "L" \/ s = "R"  BY DEF Sides
    <3> QED  BY <1>16, <3>1
  <2>2. DOMAIN chain = 1..m /\ DOMAIN chain' = 1..(m + 1)
    BY <2>1, LenProperties DEF Chained, Linked
  <2>3. /\ m \in Nat /\ m > 0 /\ e \in 1..(m + 1)
        /\ \A k \in 1..m : g(k) \in 1..(m + 1) /\ g(k) # e
        /\ \A j \in 1..(m + 1) : j = e \/ \E k \in 1..m : j = g(k)
    <3>1. m \in Nat /\ m > 0  BY <1>3
    <3> HIDE DEF m
    <3>2. CASE s = "L"
      <4>1. \A j \in 1..(m + 1) : j # 1 => j - 1 \in 1..m /\ j = (j - 1) + 1  BY <3>1
      <4> QED  BY <3>1, <3>2, <4>1
    <3>3. CASE s # "L"
      <4>1. \A j \in 1..(m + 1) : j # m + 1 => j \in 1..m  BY <3>1
      <4> QED  BY <3>1, <3>3, <4>1
    <3> QED  BY <3>2, <3>3
  <2>4. \A k \in 1..m : chain[k] \in Buffers /\ Published(chain[k]) /\ chain[k] # n
    BY <1>3, <2>2 DEF Chained, Linked, Published
  <2>5. \A k, l \in 1..m : chain[k] = chain[l] => k = l
    BY <2>2 DEF Chained, Linked
  <2>6. b = chain[IF s = "L" THEN 1 ELSE m]  BY <1>3
  <2> HIDE DEF m, e, g
  <2>7. \A j \in DOMAIN chain' : Published(chain[j])'
    BY <1>3, <2>1, <2>2, <2>3, <2>4
  <2>8. \A j, l \in DOMAIN chain' : chain'[j] = chain'[l] => j = l
    BY <2>1, <2>2, <2>3, <2>4, <2>5
  <2>9. ASSUME NEW j \in 1..m, NEW c \in Buffers, NEW d \in Buffers,
               c = chain'[j + 1], d = chain'[j]
        PROVE  Mutual("L", c, d)'
    <3>1. CASE s = "L"
      <4>1. CASE j = 1
        <5>1. g(1) = 2 /\ e = 1 /\ 1 \in 1..m /\ j + 1 = 2  BY <2>3, <3>1, <4>1 DEF e, g
        <5>2. d = n /\ c = b  BY <2>1, <2>6, <2>9, <3>1, <4>1, <5>1
        <5> QED  BY <1>14, <3>1, <5>2
      <4>2. CASE j # 1
        <5>1. /\ j - 1 \in 1..(m - 1) /\ j - 1 \in 1..m /\ (j - 1) + 1 = j /\ j \in 1..m
              /\ g(j - 1) = j /\ g(j) = j + 1
          BY <2>3, <3>1, <4>2 DEF g
        <5>2. d = chain[j - 1] /\ c = chain[j]  BY <2>1, <2>9, <5>1
        <5>3. Mutual("L", chain[(j - 1) + 1], chain[j - 1])
          BY <5>1 DEF Chained, Linked, m
        <5> QED  BY <1>14, <2>4, <5>1, <5>2, <5>3
      <4> QED  BY <4>1, <4>2
    <3>2. CASE s = "R"
      <4>1. g(j) = j  BY <3>2 DEF g
      <4>2. CASE j = m
        <5>1. e = j + 1  BY <3>2, <4>2 DEF e
        <5>2. d = b /\ c = n  BY <2>1, <2>6, <2>9, <3>2, <4>1, <4>2, <5>1
        <5> QED  BY <1>14, <3>2, <5>2
      <4>3. CASE j # m
        <5>1. j \in 1..(m - 1) /\ j + 1 \in 1..m /\ g(j + 1) = j + 1
          BY <2>3, <3>2, <4>3 DEF g
        <5>2. d = chain[j] /\ c = chain[j + 1]  BY <2>1, <2>9, <4>1, <5>1
        <5>3. Mutual("L", chain[j + 1], chain[j])
          BY <5>1 DEF Chained, Linked, m
        <5> QED  BY <1>14, <2>4, <5>1, <5>2, <5>3
      <4> QED  BY <4>2, <4>3
    <3> QED  BY <3>1, <3>2 DEF Sides
  <2>10. \A j \in 1..(Len(chain') - 1) : Mutual("L", chain[j + 1], chain[j])'
    <3> SUFFICES ASSUME NEW j \in 1..m PROVE Mutual("L", chain[j + 1], chain[j])'
      BY <2>1, <2>3
    <3>1. chain'[j] \in Buffers /\ chain'[j + 1] \in Buffers
      <4>1. j \in 1..(m + 1) /\ j + 1 \in 1..(m + 1)  BY <2>3
      <4> QED  BY <1>0, <2>1, <2>3, <2>4, <4>1
    <3> QED  BY <2>9, <3>1
  <2>11. ASSUME NEW c \in Buffers, NEW d \in Buffers, Published(c)', Published(d)',
                Mutual("L", c, d)'
         PROVE  /\ \E j \in 1..m : chain'[j] = d /\ chain'[j + 1] = c
                /\ ~(TypeAt(c, 1)' = "SEALED" /\ TypeAt(d, LastIndex - 1)' = "SEALED")
    <3>1. CASE Mutual("L", c, d) /\ c # n /\ d # n
      <4>1. Published(c) /\ Published(d)  BY <1>3, <2>11, <3>1
      <4>2. PICK k \in 1..(m - 1) : chain[k] = d /\ chain[k + 1] = c
        BY <3>1, <4>1 DEF Chained, Linked, m
      <4>3. ~(TypeAt(c, 1)' = "SEALED" /\ TypeAt(d, LastIndex - 1)' = "SEALED")
        BY <1>15, <3>1, <4>1, Borders DEF Chained, Linked
      <4>4. k \in 1..m /\ k + 1 \in 1..m /\ g(k) \in 1..m /\ g(k + 1) = g(k) + 1
        BY <2>3, <4>2 DEF g
      <4>5. chain'[g(k)] = d /\ chain'[g(k) + 1] = c  BY <2>1, <4>2, <4>4
      <4> QED  BY <4>3, <4>4, <4>5
    <3>2. CASE s = "L" /\ c = b /\ d = n
      <4>1. 1 \in 1..m /\ g(1) = 2 /\ e = 1 /\ 1 + 1 = 2  BY <2>3, <3>2 DEF g, e
      <4>2. chain'[1] = d /\ chain'[1 + 1] = c  BY <2>1, <2>6, <3>2, <4>1
      <4>3. TypeAt(d, LastIndex - 1)' # "SEALED"
        BY <1>6, <1>9, <3>2, Borders, Mirror
      <4> QED  BY <4>1, <4>2, <4>3
    <3>3. CASE s = "R" /\ c = n /\ d = b
      <4>1. m \in 1..m /\ g(m) = m /\ e = m + 1  BY <2>3, <3>3 DEF g, e
      <4>2. chain'[m] = d /\ chain'[m + 1] = c  BY <2>1, <2>6, <3>3, <4>1
      <4>3. TypeAt(c, 1)' # "SEALED"
        BY <1>6, <1>9, <3>3, Borders, Mirror
      <4> QED  BY <4>1, <4>2, <4>3
    <3> QED  BY <1>14, <2>11, <3>1, <3>2, <3>3 DEF Sides
  <2>12. TypeAt(chain[1], 0)' = "L" /\ TypeAt(chain[Len(chain)], LastIndex)' = "R"
    <3>1. TypeAt(chain[1], 0) = "L" /\ TypeAt(chain[m], LastIndex) = "R"
      BY DEF Chained, Linked, m
    <3>2. 1 \in 1..m /\ m \in 1..m  BY <2>3
    <3>3. 0 # LastIndex  BY Places4 DEF Sides, FarLinkIndex, NearLinkIndex
    <3>4. TypeAt(n, FarLinkIndex(s))' = FarType(s)
      BY <1>6, <1>9, Geometry, Places4
    <3>5. CASE s = "L"
      <4>1. g(m) = m + 1 /\ e = 1  BY <3>5 DEF g, e
      <4>2. chain'[1] = n /\ chain'[m + 1] = chain[m]
        BY <2>1, <3>2, <4>1
      <4>3. slots'[chain[m]][LastIndex].type = "R"
        BY <1>1, <2>4, <3>1, <3>2, <3>3, <3>5, Borders DEF i, FarLinkIndex, TypeAt
      <4> QED  BY <2>1, <3>4, <3>5, <4>2, <4>3 DEF TypeAt, FarLinkIndex, FarType
    <3>6. CASE s = "R"
      <4>1. g(1) = 1 /\ e = m + 1  BY <3>6 DEF g, e
      <4>2. chain'[1] = chain[1] /\ chain'[m + 1] = n
        BY <2>1, <3>2, <4>1
      <4>3. slots'[chain[1]][0].type = "L"
        BY <1>1, <2>4, <3>1, <3>2, <3>3, <3>6, Borders DEF i, FarLinkIndex, TypeAt
      <4> QED  BY <2>1, <3>4, <3>6, <4>2, <4>3 DEF TypeAt, FarLinkIndex, FarType
    <3> QED  BY <3>5, <3>6 DEF Sides
  <2>13. ASSUME NEW c \in Buffers, Published(c)', ~InChain(c)'
         PROVE  IsSealed(c)'
    <3>1. c # n  BY <2>1, <2>2, <2>3, <2>13 DEF InChain
    <3>2. ~InChain(c)
      BY <2>1, <2>2, <2>3, <2>13 DEF InChain
    <3>3. IsSealed(c)  BY <1>3, <2>13, <3>1, <3>2 DEF Chained, Linked
    <3> QED  BY <1>15, <3>3, Borders DEF IsSealed, TypeAt
  <2>14. Len(chain') - 1 = m  BY <2>1, <2>3
  <2> QED
    BY <2>1, <2>7, <2>8, <2>10, <2>11, <2>12, <2>13, <2>14 DEF Linked
<1> QED  BY <1>12, <1>13, <1>17 DEF Chained

-----------------------------------------------------------------------------
(* CASes that are still to come. *)

\* The targets of a pair are slots of published buffers, and the snapshots are not
\* younger than them.
LEMMA Targets ==
  ASSUME TypeOK, NEW u \in Threads, Knows(u), pc[u] \in {"casSafe", "casEffect"},
         NEW c \in {SafeTarget(u), EffectTarget(u)}
  PROVE  /\ Published(c.buf) /\ c.buf \in Buffers /\ c.idx \in Indices /\ c.exp \in Slots
         /\ c.exp.cnt \in Nat /\ c.exp.cnt <= slots[c.buf][c.idx].cnt
<1>1. Published(NearTarget(u).buf) /\ NearTarget(u).exp.cnt <=
        slots[NearTarget(u).buf][NearTarget(u).idx].cnt
  BY DEF Knows, Pointers, Snapshots, HasNear, HasFar, Choosing, NearTarget, Target, NearSlot
<1>2. Published(FarTarget(u).buf) /\ FarTarget(u).exp.cnt <=
        slots[FarTarget(u).buf][FarTarget(u).idx].cnt
  BY DEF Knows, Pointers, Snapshots, HasFar, Choosing, FarTarget, Target, FarSlot
<1>3. stage[u] \in {"straddle", "seal"} =>
        /\ Published(ReachTarget(u).buf)
        /\ ReachTarget(u).exp.cnt <= slots[ReachTarget(u).buf][ReachTarget(u).idx].cnt
  BY DEF Knows, StageChosen, Crossing, Snapshots, HasReach, Straddles, Choosing, ReachTarget,
         Target, ReachSlot
<1>4. c \in {NearTarget(u), FarTarget(u)} \/
        (c = ReachTarget(u) /\ stage[u] \in {"straddle", "seal"})
  BY DEF SafeTarget, EffectTarget
<1>5. c.idx \in Indices /\ c.exp \in Slots
  BY CasTypes
<1> QED  BY <1>1, <1>2, <1>3, <1>4, <1>5, SlotFields DEF Published

\* The targets of a thread do not change with the steps of others.
LEMMA SameTargets ==
  ASSUME NEW t \in Threads, OthersStay(t), NEW u \in Threads, u # t
  PROVE  /\ pc'[u] = pc[u] /\ stage'[u] = stage[u] /\ Takes(u)' = Takes(u)
         /\ S(u)' = S(u) /\ FarIdx(u)' = FarIdx(u) /\ buf'[u] = buf[u] /\ idx'[u] = idx[u]
         /\ SafeTarget(u)' = SafeTarget(u) /\ EffectTarget(u)' = EffectTarget(u)
<1>1. /\ pc'[u] = pc[u] /\ op'[u] = op[u] /\ buf'[u] = buf[u]
      /\ idx'[u] = idx[u] /\ nbr'[u] = nbr[u] /\ near'[u] = near[u] /\ far'[u] = far[u]
      /\ reach'[u] = reach[u] /\ stage'[u] = stage[u]
  BY DEF OthersStay
<1>2. S(u)' = S(u) /\ Pushing(u)' = Pushing(u) /\ FarIdx(u)' = FarIdx(u) /\ Takes(u)' = Takes(u)
  BY <1>1 DEF S, Pushing, FarIdx, Takes
<1> QED
  BY <1>1, <1>2 DEF SafeTarget, EffectTarget, NearTarget, FarTarget, ReachTarget, Target

\* A slot that is still the snapshot has not been touched.
LEMMA HoldsBack ==
  ASSUME TypeOK, TypeOK', Later, NEW c, Published(c.buf), c.buf \in Buffers, c.idx \in Indices,
         c.exp.cnt \in Nat, c.exp.cnt <= slots[c.buf][c.idx].cnt,
         slots'[c.buf][c.idx] = c.exp
  PROVE  Holds(c) /\ slots'[c.buf][c.idx] = slots[c.buf][c.idx]
<1>1. slots[c.buf][c.idx].cnt = slots'[c.buf][c.idx].cnt
  BY Ages
<1> QED  BY <1>1, Ages DEF Holds

\* The same for the second CAS of another thread.
LEMMA EffectBack ==
  ASSUME TypeOK, TypeOK', Later, NEW t \in Threads, OthersStay(t), NEW u \in Threads, u # t,
         Knows(u), pc[u] = "casEffect", Holds(EffectTarget(u))'
  PROVE  /\ Holds(EffectTarget(u))
         /\ slots'[EffectTarget(u).buf][EffectTarget(u).idx] =
              slots[EffectTarget(u).buf][EffectTarget(u).idx]
<1> DEFINE c == EffectTarget(u)
<1>1. slots'[c.buf][c.idx] = c.exp
  BY SameTargets DEF Holds
<1>2. Published(c.buf) /\ c.buf \in Buffers /\ c.idx \in Indices
      /\ c.exp.cnt \in Nat /\ c.exp.cnt <= slots[c.buf][c.idx].cnt
  BY Targets
<1> HIDE DEF c
<1>3. Holds(c) /\ slots'[c.buf][c.idx] = slots[c.buf][c.idx]
  BY <1>1, <1>2, HoldsBack
<1> QED  BY <1>3 DEF c

\* A step that does not end before a second CAS lets no new pair cross.
LEMMA NoCrossKept ==
  ASSUME ShapeInv, TypeOK', Later, NEW t \in Threads, OthersStay(t), pc'[t] # "casEffect"
  PROVE  NoCross'
<1> SUFFICES ASSUME NEW u \in Threads, NEW w \in Threads, u # w, Cross(u, w)'
             PROVE  ~Holds(EffectTarget(u))' \/ ~Holds(EffectTarget(w))'
  BY DEF NoCross
<1>1. u # t /\ w # t  BY DEF Cross
<1>2. Cross(u, w)  BY <1>1, SameTargets DEF Cross, SameSlot
<1>3. ~Holds(EffectTarget(u)) \/ ~Holds(EffectTarget(w))  BY <1>2 DEF ShapeInv, NoCross
<1> QED  BY <1>1, <1>2, <1>3, EffectBack DEF ShapeInv, Cross

\* What is left to show of a step.
LEMMA AfterStep ==
  ASSUME ShapeInv, TypeOK', Later, NEW t \in Threads, OthersStay(t), pc'[t] # "casEffect",
         Chained', HintsLead', Knows(t)', \A u \in Threads \ {t} : Busy(u)'
  PROVE  ShapeInv'
<1>1. \A u \in Threads : Knows(u)'
  BY Others DEF ShapeInv
<1>2. Busy(t)'  BY DEF Busy
<1> QED  BY <1>1, <1>2, NoCrossKept DEF ShapeInv

\* What is left to show of a step that writes neither slots nor the chain.
LEMMA AfterQuiet ==
  ASSUME ShapeInv, TypeOK', NEW t \in Threads, OthersStay(t), pc'[t] # "casEffect",
         slots' = slots, SameOwners, chain' = chain, HintsLead', Knows(t)'
  PROVE  ShapeInv'
<1>1. Later /\ Chained'  BY LaterQuiet, ChainedQuiet DEF ShapeInv
<1>2. ASSUME NEW u \in Threads \ {t} PROVE Busy(u)'
  <2>1. Busy(u)  BY DEF ShapeInv
  <2>2. NearSlot(u)' = NearSlot(u) /\ FarSlot(u)' = FarSlot(u)
    BY SameTargets DEF NearSlot, FarSlot
  <2> QED  BY <2>1, <2>2, SameTargets DEF Busy, Holds
<1> QED  BY <1>1, <1>2, AfterStep
=============================================================================
