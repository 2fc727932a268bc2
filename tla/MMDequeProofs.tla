--------------------------- MODULE MMDequeProofs ---------------------------
(***************************************************************************)
(* MMDeque for any number of threads and of nodes: its links agree and no  *)
(* freed node is read (ListShape), and it implements DequeSpec (Refines).  *)
(*                                                                         *)
(* The inductive invariant Inv says that there is a list h[1], ..., h[n]   *)
(* of nodes, seen from one of the sides, which the anchor and the links    *)
(* describe (Chain), that no node is in two places (Apart), and what every *)
(* thread knows of the list (Knows): above all, that a node it has         *)
(* reserved is not given out again (Safe), and that the inner neighbour it *)
(* has read is still the neighbour whenever the anchor is the one it has   *)
(* loaded, although the nodes may have been removed and pushed again in    *)
(* between (Between, Facing).                                              *)
(*                                                                         *)
(* The list can be seen from either side (Flip), so that every step is     *)
(* treated once, from the side it works at.                                *)
(***************************************************************************)
EXTENDS MMDeque, TLAPS, FiniteSetTheorems, SequenceTheorems

-----------------------------------------------------------------------------
(* The inductive invariant. *)

\* Where a pop that has loaded the anchor is.
PopPlaces == {"popLast", "pop0", "pop1", "popCheck", "popPrev", "pop"}
\* stabilize before and after its reservations of the ends have been found to hold.
Reserving == {"stabilize0", "stabilize1", "stabCheck1"}
Checked == {"stabPrev", "stabilize2", "stabCheck2", "stabNext", "stabCheck3", "stabLink", "stable"}
Places == {"idle", "anchor", "push", "retire", "return"} \cup PopPlaces \cup Reserving \cup Checked

\* The locals of a thread.
Frames == [a : Anchors, node : NodeOrNull, prev : NodeOrNull, prevNext : Links,
           side : Sides, back : {"anchor", "return"}]

\* The types of all variables.
Types ==
  /\ m_anchor \in Anchors
  /\ link \in [Nodes -> [Sides -> Links]]
  /\ data \in [Nodes -> Values \cup {Garbage}]
  /\ haz \in [Threads -> [0 .. 2 -> NodeOrNull]]
  /\ free \subseteq Nodes /\ retired \subseteq Nodes
  /\ kept \in [Nodes -> SUBSET (Threads \X (0 .. 2))]
  /\ pc \in [Threads -> Places]
  /\ loc \in [Threads -> Frames]
  /\ op \in [Threads -> Operations]
  /\ result \in [Threads -> Values \cup {Empty}]

\* The operation of t has not taken effect yet.
Pending(t) ==
  pc[t] \notin {"idle", "return", "retire"} /\ (pc[t] = "anchor" \/ loc[t].back # "return")

\* A push has its node for itself, a pop the one it is about to retire.
Owns(t) == Pending(t) /\ op[t].kind = "push"
Held(t) == IF Owns(t) THEN {loc[t].node}
           ELSE IF pc[t] = "retire" THEN {loc[t].a.ends[op[t].side]} ELSE {}

\* The deque is h[1], ..., h[n], from side s.  Of its links only the one to an end that
\* was pushed last may be missing.
Chain(h, n, s) ==
  /\ \A x, y \in 1 .. n : h[x] = h[y] => x = y
  /\ n = 0 => m_anchor = Both(Null, "STABLE")
  /\ n > 0 => m_anchor.ends[s] = h[1] /\ m_anchor.ends[Other(s)] = h[n]
  /\ n = 1 => m_anchor.status = "STABLE"
  /\ \A k \in 2 .. n :
       (k = 2 /\ m_anchor.status = PushStatus(s)) \/ link[h[k]][s].ptr = h[k - 1]
  /\ \A k \in 1 .. (n - 1) :
       (k = n - 1 /\ m_anchor.status = PushStatus(Other(s))) \/ link[h[k]][Other(s)].ptr = h[k + 1]

\* No node is in two of: the deque, the pool, the retired nodes, the hands of a thread.
Apart(h, n) ==
  /\ free \cap retired = {}
  /\ \A k \in 1 .. n : h[k] \notin free \cup retired /\ data[h[k]] \in Values
  /\ \A t \in Threads : \A x \in Held(t) :
       x \in Nodes \ (free \cup retired) /\ \A k \in 1 .. n : h[k] # x
  /\ \A t, u \in Threads : t # u => Held(t) \cap Held(u) = {}

\* The reservation i of t holds: its node is not given out again.
Safe(t, i, x) ==
  /\ haz[t][i] = x /\ x \in Nodes \ free
  /\ x \in retired => <<t, i>> \in kept[x]
  /\ \A u \in Threads : Owns(u) => loc[u].node # x

SafeEnds(t) == Safe(t, 0, loc[t].a.ends["L"]) /\ Safe(t, 1, loc[t].a.ends["R"])

\* As long as both ends of the anchor a are in the deque, they are in this order.
Facing(h, n, s, a) ==
  \A x, y \in 1 .. n : h[x] = a.ends[s] /\ h[y] = a.ends[Other(s)] => x < y

\* As long as the nodes e and o are in the deque, p is the one next to e, towards o.
Between(h, n, e, o, p) ==
  \A x, y \in 1 .. n : h[x] = e /\ h[y] = o =>
    (x < y => p = h[x + 1]) /\ (y < x => p = h[x - 1])

\* A pop: the ends it has reserved, and the node inside the one it removes.
PopKnows(t, h, n, s) ==
  LET a == loc[t].a
      e == loc[t].a.ends[op[t].side]
      o == loc[t].a.ends[Other(op[t].side)]
  IN
  /\ loc[t].back = "anchor" /\ op[t].kind = "pop" /\ e # Null
  /\ pc[t] = "popLast" => a.ends["L"] = a.ends["R"]
  /\ pc[t] # "popLast" => a.ends["L"] # a.ends["R"] /\ a.status = "STABLE"
  /\ pc[t] \in {"pop1", "popCheck"} => haz[t][0] = a.ends["L"]
  /\ pc[t] = "popCheck" => haz[t][1] = a.ends["R"]
  /\ pc[t] \in {"popPrev", "pop"} => SafeEnds(t) /\ Facing(h, n, s, a)
  /\ pc[t] = "popPrev" => Between(h, n, e, o, link[e][Other(op[t].side)].ptr)
  /\ pc[t] = "pop" => Between(h, n, e, o, loc[t].prev)

\* The link to the new end was missing, and is, unless somebody has set it since.
LinkTried(t) ==
  LET f == loc[t] IN
  /\ f.prevNext.ptr # f.a.ends[f.side]
  /\ \/ link[f.prev][f.side] = f.prevNext /\ (pc[t] = "stabLink" => m_anchor = f.a)
     \/ link[f.prev][f.side].sn > f.prevNext.sn

\* The link to the new end is there.
LinkSet(t) == m_anchor = loc[t].a => link[loc[t].prev][loc[t].side].ptr = loc[t].a.ends[loc[t].side]

\* stabilize: the ends, the node inside the new one, and its link outward.
StabKnows(t, h, n) ==
  LET a == loc[t].a
      e == loc[t].a.ends[loc[t].side]
      o == loc[t].a.ends[Other(loc[t].side)]
  IN
  /\ a.status = PushStatus(loc[t].side)
  /\ loc[t].back = "return" => op[t].kind = "push"
  /\ pc[t] \in {"stabilize1", "stabCheck1"} => haz[t][0] = a.ends["L"]
  /\ pc[t] = "stabCheck1" => haz[t][1] = a.ends["R"]
  /\ pc[t] \in Checked => SafeEnds(t)
  /\ pc[t] \in Checked \ {"stabPrev"} /\ m_anchor = a => Between(h, n, e, o, loc[t].prev)
  /\ pc[t] = "stabCheck2" => haz[t][2] = loc[t].prev
  /\ pc[t] \in {"stabNext", "stabCheck3", "stabLink"} => Safe(t, 2, loc[t].prev)
  /\ pc[t] \in {"stabCheck3", "stabLink"} => LinkTried(t)
  /\ pc[t] = "stable" => LinkSet(t)

\* A push: its node leads to the end it has loaded.
PushKnows(t) ==
  LET a == loc[t].a
      s == op[t].side
  IN
  /\ loc[t].back = "anchor" /\ op[t].kind = "push"
  /\ a.ends[s] # Null => a.status = "STABLE" /\ link[loc[t].node][Other(s)].ptr = a.ends[s]

\* What a thread knows, by where it is.
Knows(t, h, n, s) ==
  /\ Owns(t) => data[loc[t].node] = op[t].val
  /\ pc[t] = "idle" \/ Pending(t) => result[t] = Empty
  /\ pc[t] = "push" => PushKnows(t)
  /\ pc[t] \in PopPlaces => PopKnows(t, h, n, s)
  /\ pc[t] \in Reserving \cup Checked => StabKnows(t, h, n)
  /\ pc[t] = "retire" => op[t].kind = "pop"

\* All of it, of the list h.
Good(h, n, s) == Chain(h, n, s) /\ Apart(h, n) /\ \A t \in Threads : Knows(t, h, n, s)

\* The pool is finite: the walks of Path are as long as it.
ProofAssumption == MMDequeAssumption /\ IsFiniteSet(Nodes)

\* The inductive invariant.
Inv ==
  /\ ProofAssumption
  /\ Types
  /\ \E s \in Sides : \E n \in Nat : \E h \in [1 .. n -> Nodes] : Good(h, n, s)

-----------------------------------------------------------------------------
(* Either side. *)

\* The sides are two.
LEMMA TwoSides ==
  /\ \A s \in Sides : Other(s) \in Sides /\ Other(Other(s)) = s /\ Other(s) # s
                      /\ PushStatus(s) \in {"LPUSH", "RPUSH"} /\ PushStatus(s) # PushStatus(Other(s))
                      /\ PushStatus(s) # "STABLE"
  /\ \A s, u \in Sides : u = s \/ u = Other(s)
BY DEF Sides, Other, PushStatus

\* The list seen from the other side.
Rev(h, n) == [k \in 1 .. n |-> h[n + 1 - k]]

\* Positions of a list and of its reverse.
LEMMA RevAt ==
  ASSUME NEW n \in Nat, NEW h \in [1 .. n -> Nodes]
  PROVE  /\ Rev(h, n) \in [1 .. n -> Nodes]
         /\ \A k \in 1 .. n : n + 1 - k \in 1 .. n /\ Rev(h, n)[k] = h[n + 1 - k]
         /\ \A k \in 1 .. n : h[k] = Rev(h, n)[n + 1 - k]
<1>1. \A k \in 1 .. n : n + 1 - k \in 1 .. n /\ n + 1 - (n + 1 - k) = k  OBVIOUS
<1>2. Rev(h, n) \in [1 .. n -> Nodes]  BY <1>1 DEF Rev
<1>3. \A k \in 1 .. n : Rev(h, n)[k] = h[n + 1 - k]  BY DEF Rev
<1> QED  BY <1>1, <1>2, <1>3

\* The order of two ends, seen from the other side.
LEMMA FlipFacing ==
  ASSUME NEW n \in Nat, NEW h \in [1 .. n -> Nodes], NEW s \in Sides, NEW a, Facing(h, n, s, a)
  PROVE  Facing(Rev(h, n), n, Other(s), a)
<1> DEFINE g == Rev(h, n)
<1>1. \A k \in 1 .. n : n + 1 - k \in 1 .. n /\ g[k] = h[n + 1 - k]  BY RevAt
<1>2. Other(Other(s)) = s  BY TwoSides
<1> SUFFICES ASSUME NEW x \in 1 .. n, NEW y \in 1 .. n, g[x] = a.ends[Other(s)], g[y] = a.ends[s]
             PROVE  x < y
  BY <1>2 DEF Facing
<1>3. n + 1 - y < n + 1 - x  BY <1>1 DEF Facing
<1> QED  BY <1>3

\* Neighbours, seen from the other side.
LEMMA FlipBetween ==
  ASSUME NEW n \in Nat, NEW h \in [1 .. n -> Nodes], NEW e, NEW o, NEW p, Between(h, n, e, o, p)
  PROVE  Between(Rev(h, n), n, e, o, p)
<1> DEFINE g == Rev(h, n)
<1>1. \A k \in 1 .. n : n + 1 - k \in 1 .. n /\ g[k] = h[n + 1 - k]  BY RevAt
<1> SUFFICES ASSUME NEW x \in 1 .. n, NEW y \in 1 .. n, g[x] = e, g[y] = o
             PROVE  (x < y => p = g[x + 1]) /\ (y < x => p = g[x - 1])
  BY DEF Between
<1> DEFINE i == n + 1 - x
           j == n + 1 - y
<1>2. i \in 1 .. n /\ j \in 1 .. n /\ h[i] = e /\ h[j] = o  BY <1>1
<1>3. (i < j => p = h[i + 1]) /\ (j < i => p = h[i - 1])  BY <1>2 DEF Between
<1>4. ASSUME x < y PROVE p = g[x + 1]
  <2>1. j < i /\ x + 1 \in 1 .. n /\ n + 1 - (x + 1) = i - 1  BY <1>4
  <2>2. g[x + 1] = h[i - 1]  BY <1>1, <2>1
  <2> QED  BY <1>3, <2>1, <2>2
<1>5. ASSUME y < x PROVE p = g[x - 1]
  <2>1. i < j /\ x - 1 \in 1 .. n /\ n + 1 - (x - 1) = i + 1  BY <1>5
  <2>2. g[x - 1] = h[i + 1]  BY <1>1, <2>1
  <2> QED  BY <1>3, <2>1, <2>2
<1> QED  BY <1>4, <1>5

\* The chain, seen from the other side.
LEMMA FlipChain ==
  ASSUME NEW n \in Nat, NEW h \in [1 .. n -> Nodes], NEW s \in Sides, Chain(h, n, s)
  PROVE  Chain(Rev(h, n), n, Other(s))
<1> DEFINE g == Rev(h, n)
<1>1. \A k \in 1 .. n : n + 1 - k \in 1 .. n /\ g[k] = h[n + 1 - k]  BY RevAt
<1>2. Other(Other(s)) = s  BY TwoSides
<1>3. ASSUME NEW x \in 1 .. n, NEW y \in 1 .. n, g[x] = g[y] PROVE x = y
  <2>1. n + 1 - x = n + 1 - y  BY <1>1, <1>3 DEF Chain
  <2> QED  BY <2>1
<1>4. n > 0 => g[1] = h[n] /\ g[n] = h[1]
  <2> SUFFICES ASSUME n > 0 PROVE g[1] = h[n] /\ g[n] = h[1]  OBVIOUS
  <2>1. 1 \in 1 .. n /\ n \in 1 .. n /\ n + 1 - 1 = n /\ n + 1 - n = 1  OBVIOUS
  <2> QED  BY <1>1, <2>1
<1>5. ASSUME NEW k \in 2 .. n
      PROVE  \/ k = 2 /\ m_anchor.status = PushStatus(Other(s))
             \/ link[g[k]][Other(s)].ptr = g[k - 1]
  <2>1. PICK j \in 1 .. (n - 1) : j = n + 1 - k  OBVIOUS
  <2>2. k \in 1 .. n /\ k - 1 \in 1 .. n /\ n + 1 - (k - 1) = j + 1 /\ (j = n - 1 => k = 2)
    BY <2>1
  <2>3. g[k] = h[j] /\ g[k - 1] = h[j + 1]  BY <1>1, <2>1, <2>2
  <2>4. (j = n - 1 /\ m_anchor.status = PushStatus(Other(s))) \/ link[h[j]][Other(s)].ptr = h[j + 1]
    BY DEF Chain
  <2> QED  BY <2>2, <2>3, <2>4
<1>6. ASSUME NEW k \in 1 .. (n - 1)
      PROVE  (k = n - 1 /\ m_anchor.status = PushStatus(s)) \/ link[g[k]][s].ptr = g[k + 1]
  <2>1. PICK j \in 2 .. n : j = n + 1 - k  OBVIOUS
  <2>2. k \in 1 .. n /\ k + 1 \in 1 .. n /\ n + 1 - (k + 1) = j - 1 /\ (j = 2 => k = n - 1)
    BY <2>1
  <2>3. g[k] = h[j] /\ g[k + 1] = h[j - 1]  BY <1>1, <2>1, <2>2
  <2>4. (j = 2 /\ m_anchor.status = PushStatus(s)) \/ link[h[j]][s].ptr = h[j - 1]
    BY DEF Chain
  <2> QED  BY <2>2, <2>3, <2>4
<1> HIDE DEF g
<1>7. /\ n = 0 => m_anchor = Both(Null, "STABLE")
      /\ n > 0 => m_anchor.ends[Other(s)] = g[1] /\ m_anchor.ends[s] = g[n]
      /\ n = 1 => m_anchor.status = "STABLE"
  BY <1>4 DEF Chain
<1>8. Chain(g, n, Other(s))  BY <1>2, <1>3, <1>5, <1>6, <1>7 DEF Chain
<1> QED  BY <1>8 DEF g

\* What the invariant says, seen from the other side.
LEMMA Flip ==
  ASSUME NEW n \in Nat, NEW h \in [1 .. n -> Nodes], NEW s \in Sides, Good(h, n, s)
  PROVE  Rev(h, n) \in [1 .. n -> Nodes] /\ Good(Rev(h, n), n, Other(s))
<1> DEFINE g == Rev(h, n)
<1>1. g \in [1 .. n -> Nodes] /\ \A k \in 1 .. n : n + 1 - k \in 1 .. n /\ g[k] = h[n + 1 - k]
  BY RevAt
<1>2. Chain(g, n, Other(s))  BY FlipChain DEF Good
<1>3. \A k \in 1 .. n : \E j \in 1 .. n : g[k] = h[j]  BY <1>1
<1> HIDE DEF g
<1>4. Apart(g, n)  BY <1>3 DEF Good, Apart
<1>5. ASSUME NEW t \in Threads PROVE Knows(t, g, n, Other(s))
  <2>1. Knows(t, h, n, s)  BY DEF Good
  <2>2. PopKnows(t, h, n, s) => PopKnows(t, g, n, Other(s))
    BY FlipFacing, FlipBetween DEF PopKnows, g
  <2>3. StabKnows(t, h, n) => StabKnows(t, g, n)
    BY FlipBetween DEF StabKnows, g
  <2> QED  BY <2>1, <2>2, <2>3 DEF Knows
<1> QED  BY <1>1, <1>2, <1>4, <1>5 DEF Good, g

\* The list can be seen from any side.
LEMMA FromSide ==
  ASSUME NEW s \in Sides, \E u \in Sides : \E n \in Nat : \E h \in [1 .. n -> Nodes] : Good(h, n, u)
  PROVE  \E n \in Nat : \E h \in [1 .. n -> Nodes] : Good(h, n, s)
<1>1. PICK u \in Sides, n \in Nat : \E h \in [1 .. n -> Nodes] : Good(h, n, u)  OBVIOUS
<1>2. PICK h \in [1 .. n -> Nodes] : Good(h, n, u)  BY <1>1
<1>3. CASE u = s  BY <1>2, <1>3
<1>4. CASE u = Other(s)
  <2>1. Other(u) = s  BY <1>4, TwoSides
  <2>2. Rev(h, n) \in [1 .. n -> Nodes] /\ Good(Rev(h, n), n, s)  BY <1>2, <2>1, Flip
  <2> QED  BY <2>2
<1> QED  BY <1>3, <1>4, TwoSides

-----------------------------------------------------------------------------
(* What a step of one thread leaves to the others. *)

\* g[1 .. m] is h[1 .. n] with a node w added at its front, or without some at its ends.
Shifted(g, m, h, n, c, w) ==
  /\ \A k \in 1 .. m : g[k] # w => k + c \in 1 .. n /\ g[k] = h[k + c]
  /\ \A k \in 2 .. m : g[k] # w

\* The order of two ends survives a push and a pop.
LEMMA ShiftFacing ==
  ASSUME NEW n \in Nat, NEW m \in Nat, NEW h, NEW g, NEW c \in Int, NEW w, NEW s \in Sides, NEW a,
         Shifted(g, m, h, n, c, w), Facing(h, n, s, a), a.ends["L"] # w, a.ends["R"] # w
  PROVE  Facing(g, m, s, a)
<1> SUFFICES ASSUME NEW x \in 1 .. m, NEW y \in 1 .. m, g[x] = a.ends[s], g[y] = a.ends[Other(s)]
             PROVE  x < y
  BY DEF Facing
<1>1. g[x] # w /\ g[y] # w  BY DEF Sides, Other
<1>2. x + c \in 1 .. n /\ g[x] = h[x + c] /\ y + c \in 1 .. n /\ g[y] = h[y + c]
  BY <1>1 DEF Shifted
<1>3. x + c < y + c  BY <1>2 DEF Facing
<1> QED  BY <1>3

\* So does the neighbour between two nodes.
LEMMA ShiftBetween ==
  ASSUME NEW n \in Nat, NEW m \in Nat, NEW h, NEW g, NEW c \in Int, NEW w, NEW e, NEW o, NEW p,
         Shifted(g, m, h, n, c, w), Between(h, n, e, o, p), e # w, o # w
  PROVE  Between(g, m, e, o, p)
<1> SUFFICES ASSUME NEW x \in 1 .. m, NEW y \in 1 .. m, g[x] = e, g[y] = o
             PROVE  (x < y => p = g[x + 1]) /\ (y < x => p = g[x - 1])
  BY DEF Between
<1> DEFINE i == x + c
           j == y + c
<1>1. i \in 1 .. n /\ h[i] = e /\ j \in 1 .. n /\ h[j] = o  BY DEF Shifted
<1>2. (i < j => p = h[i + 1]) /\ (j < i => p = h[i - 1])  BY <1>1 DEF Between
<1>3. ASSUME x < y PROVE p = g[x + 1]
  <2>1. x + 1 \in 2 .. m /\ x + 1 \in 1 .. m /\ (x + 1) + c = i + 1 /\ i < j  BY <1>3
  <2>2. g[x + 1] # w  BY <2>1 DEF Shifted
  <2>3. g[x + 1] = h[(x + 1) + c]  BY <2>1, <2>2 DEF Shifted
  <2> QED  BY <1>2, <2>1, <2>3
<1>4. ASSUME y < x PROVE p = g[x - 1]
  <2>1. x - 1 \in 1 .. m /\ (x - 1) + c = i - 1 /\ j < i  BY <1>4
  <2>2. g[x - 1] # w
    <3>1. CASE x - 1 = y  BY <3>1
    <3>2. CASE x - 1 \in 2 .. m  BY <3>2 DEF Shifted
    <3>3. x - 1 = y \/ x - 1 \in 2 .. m  BY <1>4
    <3> QED  BY <3>1, <3>2, <3>3
  <2>3. g[x - 1] = h[(x - 1) + c]  BY <2>1, <2>2 DEF Shifted
  <2> QED  BY <1>2, <2>1, <2>3
<1> QED  BY <1>3, <1>4

\* The step is not one of u.
Unmoved(u) ==
  pc'[u] = pc[u] /\ loc'[u] = loc[u] /\ op'[u] = op[u] /\ result'[u] = result[u] /\ haz'[u] = haz[u]

\* The reservations of u go on to hold, and none is of w.
SafeStays(u, w) == \A i \in 0 .. 2 : \A x \in Nodes : Safe(u, i, x) => Safe(u, i, x)' /\ x # w

\* Ends that are reserved go on to be, and none is w.
LEMMA EndsStay ==
  ASSUME NEW u, NEW w, Unmoved(u), SafeStays(u, w), SafeEnds(u)
  PROVE  SafeEnds(u)' /\ \A s \in Sides : loc[u].a.ends[s] # w
<1>1. ASSUME NEW i \in 0 .. 2, NEW x, Safe(u, i, x) PROVE Safe(u, i, x)' /\ x # w
  BY <1>1 DEF SafeStays, Safe
<1>2. Safe(u, 0, loc[u].a.ends["L"]) /\ Safe(u, 1, loc[u].a.ends["R"])  BY DEF SafeEnds
<1>3. \A i \in 0 .. 2 : \A s \in Sides :
        Safe(u, i, loc[u].a.ends[s]) => Safe(u, i, loc[u].a.ends[s])' /\ loc[u].a.ends[s] # w
  <2> SUFFICES ASSUME NEW i \in 0 .. 2, NEW s \in Sides, Safe(u, i, loc[u].a.ends[s])
               PROVE  Safe(u, i, loc[u].a.ends[s])' /\ loc[u].a.ends[s] # w
    OBVIOUS
  <2>1. PICK x : x = loc[u].a.ends[s]  OBVIOUS
  <2>2. Safe(u, i, x)' /\ x # w  BY <1>1, <2>1
  <2>3. loc'[u].a.ends[s] = x  BY <2>1 DEF Unmoved
  <2> QED  BY <2>1, <2>2, <2>3
<1> QED  BY <1>2, <1>3 DEF SafeEnds, Sides

\* What u knows of the links at its node does not get wrong.
LinksStay(u, h, n) ==
  LET e == loc[u].a.ends[op[u].side]
      o == loc[u].a.ends[Other(op[u].side)]
  IN
  /\ Owns(u) => data'[loc[u].node] = data[loc[u].node] /\ link'[loc[u].node] = link[loc[u].node]
  /\ pc[u] = "popPrev" => Between(h, n, e, o, link'[e][Other(op[u].side)].ptr)
  /\ pc[u] \in {"stabCheck3", "stabLink"} => LinkTried(u)'
  /\ pc[u] = "stable" => LinkSet(u)'

\* The anchor does not become again what u has found it not to be any more.
AnchorStays(u) == pc[u] \in Checked /\ m_anchor' = loc[u].a => m_anchor = loc[u].a

\* What u knows outlives the steps of the others.
LEMMA OthersKnow ==
  ASSUME Types, NEW u \in Threads, NEW n \in Nat, NEW m \in Nat, NEW h, NEW g, NEW c \in Int, NEW w,
         NEW s \in Sides, Knows(u, h, n, s),
         Unmoved(u), SafeStays(u, w), Shifted(g, m, h, n, c, w), LinksStay(u, h, n), AnchorStays(u)
  PROVE  Knows(u, g, m, s)'
<1>1. SafeEnds(u) => SafeEnds(u)' /\ \A r \in Sides : loc[u].a.ends[r] # w  BY EndsStay
<1>2. op[u].side \in Sides /\ loc[u].side \in Sides /\ Other(op[u].side) \in Sides
      /\ Other(loc[u].side) \in Sides
  BY TwoSides DEF Types, Frames, Operations, Push, Pop
<1>3. (Owns(u)' <=> Owns(u)) /\ (Pending(u)' <=> Pending(u))  BY DEF Unmoved, Owns, Pending
<1>4. ASSUME PopKnows(u, h, n, s), pc[u] \in PopPlaces PROVE PopKnows(u, g, m, s)'
  <2> DEFINE e == loc[u].a.ends[op[u].side]
             o == loc[u].a.ends[Other(op[u].side)]
  <2>1. pc[u] \in {"popPrev", "pop"} => SafeEnds(u)' /\ e # w /\ o # w /\ Facing(g, m, s, loc[u].a)
    <3>1. SUFFICES ASSUME pc[u] \in {"popPrev", "pop"}
                   PROVE SafeEnds(u)' /\ e # w /\ o # w /\ Facing(g, m, s, loc[u].a)
      OBVIOUS
    <3>2. SafeEnds(u) /\ Facing(h, n, s, loc[u].a)  BY <1>4, <3>1 DEF PopKnows
    <3>3. SafeEnds(u)' /\ e # w /\ o # w /\ loc[u].a.ends["L"] # w /\ loc[u].a.ends["R"] # w
      BY <1>1, <1>2, <3>2 DEF Sides
    <3> QED  BY <3>2, <3>3, ShiftFacing
  <2>2. pc[u] = "popPrev" => Between(g, m, e, o, link'[e][Other(op[u].side)].ptr)
    BY <2>1, ShiftBetween DEF LinksStay
  <2>3. pc[u] = "pop" => Between(g, m, e, o, loc[u].prev)
    BY <1>4, <2>1, ShiftBetween DEF PopKnows
  <2> QED  BY <1>4, <2>1, <2>2, <2>3 DEF PopKnows, Unmoved
<1>5. ASSUME StabKnows(u, h, n), pc[u] \in Reserving \cup Checked PROVE StabKnows(u, g, m)'
  <2> DEFINE e == loc[u].a.ends[loc[u].side]
             o == loc[u].a.ends[Other(loc[u].side)]
  <2>1. pc[u] \in Checked => SafeEnds(u)' /\ e # w /\ o # w  BY <1>1, <1>2, <1>5 DEF StabKnows
  <2>2. pc[u] \in Checked \ {"stabPrev"} /\ m_anchor' = loc[u].a => Between(g, m, e, o, loc[u].prev)
    BY <1>5, <2>1, ShiftBetween DEF StabKnows, AnchorStays
  <2>3. pc[u] \in {"stabNext", "stabCheck3", "stabLink"} => Safe(u, 2, loc[u].prev)'
    <3>1. SUFFICES ASSUME pc[u] \in {"stabNext", "stabCheck3", "stabLink"}
                   PROVE  Safe(u, 2, loc[u].prev)'
      OBVIOUS
    <3>2. PICK x : x = loc[u].prev  OBVIOUS
    <3>3. Safe(u, 2, x) /\ x \in Nodes  BY <1>5, <3>1, <3>2 DEF StabKnows, Safe
    <3>4. Safe(u, 2, x)'  BY <3>3 DEF SafeStays
    <3>5. loc'[u].prev = x  BY <3>2 DEF Unmoved
    <3> QED  BY <3>4, <3>5
  <2> QED  BY <1>5, <2>1, <2>2, <2>3 DEF StabKnows, Unmoved, LinksStay
<1>6. pc[u] = "push" => PushKnows(u)'
  <2>1. SUFFICES ASSUME pc[u] = "push" PROVE PushKnows(u)'  OBVIOUS
  <2>2. PushKnows(u) /\ Owns(u)  BY <2>1 DEF Knows, PushKnows, Owns, Pending
  <2> QED  BY <2>2 DEF PushKnows, Unmoved, LinksStay
<1> QED  BY <1>3, <1>4, <1>5, <1>6 DEF Knows, Unmoved, LinksStay

\* What the anchor says of the deque.
LEMMA Ends ==
  ASSUME ProofAssumption, NEW n \in Nat, NEW h \in [1 .. n -> Nodes], NEW s \in Sides, Chain(h, n, s)
  PROVE  /\ \A k \in 1 .. n : h[k] \in Nodes /\ h[k] # Null
         /\ \A r \in Sides : m_anchor.ends[r] = Null <=> n = 0
         /\ n > 0 => (m_anchor.ends["L"] = m_anchor.ends["R"] <=> n = 1)
         /\ m_anchor.status # "STABLE" => n > 1
<1>1. Null \notin Nodes  BY DEF ProofAssumption, MMDequeAssumption
<1>2. \A k \in 1 .. n : h[k] \in Nodes /\ h[k] # Null  BY <1>1
<1>3. n > 0 => 1 \in 1 .. n /\ n \in 1 .. n  OBVIOUS
<1>4. n = 0 => m_anchor.ends["L"] = Null /\ m_anchor.ends["R"] = Null /\ m_anchor.status = "STABLE"
  BY DEF Chain, Both, Anchor, Sides
<1>5. n > 0 => m_anchor.ends[s] = h[1] /\ m_anchor.ends[Other(s)] = h[n]  BY DEF Chain
<1>6. n > 0 => (h[1] = h[n] <=> n = 1)  BY <1>3 DEF Chain
<1>7. n = 1 => m_anchor.status = "STABLE"  BY DEF Chain
<1> QED  BY <1>2, <1>3, <1>4, <1>5, <1>6, <1>7 DEF Sides, Other

\* The node that is between both ends, next to one of them.
LEMMA NextToEnd ==
  ASSUME ProofAssumption, NEW n \in Nat, NEW h \in [1 .. n -> Nodes], NEW s \in Sides, Chain(h, n, s),
         n > 1, NEW p
  PROVE  /\ Between(h, n, m_anchor.ends[s], m_anchor.ends[Other(s)], p) <=> p = h[2]
         /\ Between(h, n, m_anchor.ends[Other(s)], m_anchor.ends[s], p) <=> p = h[n - 1]
<1>1. 1 \in 1 .. n /\ n \in 1 .. n /\ 1 < n /\ 1 + 1 = 2  OBVIOUS
<1>2. \A x, y \in 1 .. n : h[x] = h[y] => x = y  BY DEF Chain
<1>3. m_anchor.ends[s] = h[1] /\ m_anchor.ends[Other(s)] = h[n]  BY DEF Chain
<1>4. Between(h, n, h[1], h[n], p) <=> p = h[2]
  <2>1. Between(h, n, h[1], h[n], p) => p = h[2]  BY <1>1 DEF Between
  <2>2. ASSUME p = h[2], NEW x \in 1 .. n, NEW y \in 1 .. n, h[x] = h[1], h[y] = h[n]
        PROVE  x = 1 /\ y = n
    BY <1>1, <1>2, <2>2
  <2>3. p = h[2] => Between(h, n, h[1], h[n], p)  BY <1>1, <2>2 DEF Between
  <2> QED  BY <2>1, <2>3
<1>5. Between(h, n, h[n], h[1], p) <=> p = h[n - 1]
  <2>1. Between(h, n, h[n], h[1], p) => p = h[n - 1]  BY <1>1 DEF Between
  <2>2. ASSUME p = h[n - 1], NEW x \in 1 .. n, NEW y \in 1 .. n, h[x] = h[n], h[y] = h[1]
        PROVE  x = n /\ y = 1
    BY <1>1, <1>2, <2>2
  <2>3. p = h[n - 1] => Between(h, n, h[n], h[1], p)  BY <1>1, <2>2 DEF Between
  <2> QED  BY <2>1, <2>3
<1> QED  BY <1>3, <1>4, <1>5

\* While a thread stabilises the deque as it is, the node it has found is in the deque.
LEMMA PrevInDeque ==
  ASSUME ProofAssumption, Types, NEW n \in Nat, NEW h \in [1 .. n -> Nodes], NEW s \in Sides, Chain(h, n, s),
         NEW u \in Threads, StabKnows(u, h, n), pc[u] \in Checked \ {"stabPrev"}, m_anchor = loc[u].a
  PROVE  \E k \in 1 .. n : loc[u].prev = h[k]
<1>1. m_anchor.status # "STABLE" /\ loc[u].side \in Sides
  BY TwoSides DEF StabKnows, Types, Frames
<1>2. n > 1  BY <1>1, Ends
<1>3. Between(h, n, m_anchor.ends[loc[u].side], m_anchor.ends[Other(loc[u].side)], loc[u].prev)
  BY DEF StabKnows
<1>4. loc[u].side = s \/ (loc[u].side = Other(s) /\ Other(loc[u].side) = s)  BY <1>1, TwoSides
<1>5. PICK p : p = loc[u].prev  OBVIOUS
<1>6. /\ Between(h, n, m_anchor.ends[s], m_anchor.ends[Other(s)], p) => p = h[2]
      /\ Between(h, n, m_anchor.ends[Other(s)], m_anchor.ends[s], p) => p = h[n - 1]
  BY <1>2, NextToEnd
<1>7. p = h[2] \/ p = h[n - 1]  BY <1>3, <1>4, <1>5, <1>6
<1> QED  BY <1>2, <1>5, <1>7

\* Reservations go on to hold when no node is given back to the pool.
LEMMA SafeStep ==
  ASSUME NEW u \in Threads, NEW w,
         haz'[u] = haz[u], free' \subseteq free,
         \A i \in 0 .. 2 : \A x \in Nodes : haz[u][i] = x /\ x \in retired' =>
            <<u, i>> \in kept'[x] \/ (x \in retired /\ (<<u, i>> \in kept[x] => <<u, i>> \in kept'[x])),
         \A v \in Threads : Owns(v)' =>
            (Owns(v) /\ loc'[v].node = loc[v].node) \/ loc'[v].node \in free,
         w \in Nodes => w \in free \/ \E v \in Threads : Owns(v) /\ loc[v].node = w
  PROVE  SafeStays(u, w)
<1> SUFFICES ASSUME NEW i \in 0 .. 2, NEW x \in Nodes, Safe(u, i, x)
             PROVE  Safe(u, i, x)' /\ x # w
  BY DEF SafeStays
<1>1. haz'[u][i] = x /\ x \in Nodes \ free'  BY DEF Safe
<1>2. x \in retired' => <<u, i>> \in kept'[x]  BY DEF Safe
<1>3. \A v \in Threads : Owns(v)' => loc'[v].node # x  BY DEF Safe
<1>4. x # w  BY DEF Safe
<1> QED  BY <1>1, <1>2, <1>3, <1>4 DEF Safe

\* The anchor and what is in the deque stay as they are: so does what u knows.
LEMMA CalmKnow ==
  ASSUME ProofAssumption, Types, NEW n \in Nat, NEW h \in [1 .. n -> Nodes], NEW s \in Sides,
         Chain(h, n, s), Apart(h, n), NEW u \in Threads, Knows(u, h, n, s), NEW w,
         Unmoved(u), SafeStays(u, w), m_anchor' = m_anchor,
         \A k \in 1 .. n : h[k] # w, Owns(u) => loc[u].node # w,
         \A x \in Nodes : x # w => link'[x] = link[x] /\ data'[x] = data[x]
  PROVE  Knows(u, h, n, s)'
<1>1. Shifted(h, n, h, n, 0, w)
  <2>1. \A k \in 1 .. n : k + 0 = k  OBVIOUS
  <2>2. \A k \in 2 .. n : k \in 1 .. n  OBVIOUS
  <2> QED  BY <2>1, <2>2 DEF Shifted
<1>2. AnchorStays(u)  BY DEF AnchorStays
<1>3. SafeEnds(u) => \A r \in Sides : loc[u].a.ends[r] \in Nodes \ {w}
  BY EndsStay DEF SafeEnds, Safe, Sides
<1>4. LinksStay(u, h, n)
  <2>1. Owns(u) => data'[loc[u].node] = data[loc[u].node] /\ link'[loc[u].node] = link[loc[u].node]
    BY DEF Apart, Held
  <2>2. ASSUME pc[u] = "popPrev"
        PROVE  Between(h, n, loc[u].a.ends[op[u].side], loc[u].a.ends[Other(op[u].side)],
                       link'[loc[u].a.ends[op[u].side]][Other(op[u].side)].ptr)
    <3>1. PopKnows(u, h, n, s) /\ op[u].side \in Sides
      BY <2>2 DEF Knows, PopPlaces, Types, Operations, Push, Pop
    <3>2. SafeEnds(u)  BY <2>2, <3>1 DEF PopKnows
    <3>3. link'[loc[u].a.ends[op[u].side]] = link[loc[u].a.ends[op[u].side]]  BY <1>3, <3>1, <3>2
    <3> QED  BY <2>2, <3>1, <3>3 DEF PopKnows
  <2>3. ASSUME pc[u] \in {"stabCheck3", "stabLink"} PROVE LinkTried(u)'
    <3>1. StabKnows(u, h, n)  BY <2>3 DEF Knows, Checked
    <3>2. Safe(u, 2, loc[u].prev) /\ LinkTried(u)  BY <2>3, <3>1 DEF StabKnows
    <3>3. loc[u].prev \in Nodes /\ loc[u].prev # w  BY <3>2 DEF SafeStays, Safe
    <3> QED  BY <3>2, <3>3 DEF LinkTried, Unmoved
  <2>4. ASSUME pc[u] = "stable" PROVE LinkSet(u)'
    <3>1. StabKnows(u, h, n)  BY <2>4 DEF Knows, Checked
    <3>2. SUFFICES ASSUME m_anchor = loc[u].a
                   PROVE  link'[loc[u].prev][loc[u].side].ptr = loc[u].a.ends[loc[u].side]
      BY DEF LinkSet, Unmoved
    <3>3. PICK k \in 1 .. n : loc[u].prev = h[k]
      BY <2>4, <3>1, <3>2, PrevInDeque DEF Checked
    <3>4. link'[loc[u].prev] = link[loc[u].prev]  BY <3>3
    <3> QED  BY <2>4, <3>1, <3>2, <3>4 DEF StabKnows, LinkSet
  <2> QED  BY <2>1, <2>2, <2>3, <2>4 DEF LinksStay
<1> QED  BY <1>1, <1>2, <1>4, OthersKnow

\* A step of t that concerns no node but its own.
Quiet(t) ==
  /\ UNCHANGED <<m_anchor, data, free, retired, op>>
  /\ \A u \in Threads \ {t} : Unmoved(u)
  /\ \A u \in Threads \ {t} : \A i \in 0 .. 2 : \A x \in Nodes :
       <<u, i>> \in kept[x] => <<u, i>> \in kept'[x]
  /\ Held(t)' \subseteq Held(t)
  /\ Owns(t)' => Owns(t) /\ loc'[t].node = loc[t].node
  /\ \A x \in Nodes : link'[x] = link[x] \/ (Owns(t) /\ x = loc[t].node)

\* It keeps the invariant if t knows what it should.
LEMMA QuietKeeps ==
  ASSUME ProofAssumption, Types, NEW n \in Nat, NEW h \in [1 .. n -> Nodes], NEW s \in Sides,
         Good(h, n, s), NEW t \in Threads, Quiet(t), Knows(t, h, n, s)'
  PROVE  Good(h, n, s)'
<1> DEFINE w == IF Owns(t) THEN loc[t].node ELSE Null
<1>1. Chain(h, n, s) /\ Apart(h, n) /\ \A u \in Threads : Knows(u, h, n, s)  BY DEF Good
<1>2. \A k \in 1 .. n : h[k] # w  BY <1>1, Ends DEF Apart, Held
<1>3. \A x \in Nodes : x # w => link'[x] = link[x] /\ data'[x] = data[x]  BY DEF Quiet
<1>4. \A u \in Threads \ {t} : Owns(u) => loc[u].node # w
  <2>1. Owns(t) => \A u \in Threads \ {t} : Owns(u) => loc[u].node # loc[t].node
    BY <1>1 DEF Apart, Held
  <2>2. \A u \in Threads : Owns(u) => loc[u].node \in Nodes  BY <1>1 DEF Apart, Held
  <2> QED  BY <2>1, <2>2 DEF ProofAssumption, MMDequeAssumption
<1>5. w \in Nodes => \E v \in Threads : Owns(v) /\ loc[v].node = w
  BY DEF ProofAssumption, MMDequeAssumption
<1> HIDE DEF w
<1>6. \A u \in Threads \ {t} : (Owns(u)' <=> Owns(u)) /\ Held(u)' = Held(u)
  BY DEF Quiet, Unmoved, Owns, Pending, Held
<1>7. ASSUME NEW u \in Threads \ {t} PROVE Knows(u, h, n, s)'
  <2>1. Unmoved(u) /\ m_anchor' = m_anchor  BY DEF Quiet
  <2>2. \A v \in Threads : Owns(v)' => Owns(v) /\ loc'[v].node = loc[v].node
    BY <1>6 DEF Quiet, Unmoved
  <2>3. SafeStays(u, w)  BY <1>5, <2>1, <2>2, SafeStep DEF Quiet, Unmoved
  <2> QED  BY <1>1, <1>2, <1>3, <1>4, <2>1, <2>3, CalmKnow
<1>8. \A k \in 1 .. n : link'[h[k]] = link[h[k]]  BY <1>2, <1>3
<1>9. Chain(h, n, s)'
  <2>1. m_anchor' = m_anchor  BY DEF Quiet
  <2>2. \A k \in 2 .. n : link'[h[k]] = link[h[k]]  BY <1>8
  <2>3. \A k \in 1 .. (n - 1) : link'[h[k]] = link[h[k]]  BY <1>8
  <2> QED  BY <1>1, <2>1, <2>2, <2>3 DEF Chain
<1>10. Apart(h, n)'
  <2>1. data' = data /\ free' = free /\ retired' = retired /\ Held(t)' \subseteq Held(t)  BY DEF Quiet
  <2>2. \A u \in Threads : Held(u)' \subseteq Held(u)  BY <1>6, <2>1
  <2> QED  BY <1>1, <2>1, <2>2 DEF Apart
<1> QED  BY <1>7, <1>9, <1>10 DEF Good

-----------------------------------------------------------------------------
(* The steps that concern nobody else. *)

StabPlaces == Reserving \cup Checked

\* Where a thread has the types it should.
LEMMA AtThread ==
  ASSUME Types, NEW t \in Threads
  PROVE  /\ loc[t] \in Frames /\ op[t] \in Operations /\ pc[t] \in Places
         /\ op[t].side \in Sides /\ loc[t].side \in Sides /\ loc[t].back \in {"anchor", "return"}
         /\ op[t].kind \in {"push", "pop"}
         /\ \A r \in Sides : loc[t].a.ends[r] \in NodeOrNull
         /\ loc[t].a \in Anchors /\ loc[t].node \in NodeOrNull /\ loc[t].prev \in NodeOrNull
BY DEF Types, Frames, Anchors, Operations, Push, Pop

\* A thread that goes on in its procedure, or leaves it for the place to go back to.
LEMMA InsideKnows ==
  ASSUME Types, NEW t \in Threads, NEW h, NEW n, NEW s, Knows(t, h, n, s),
         pc[t] \in {"push"} \cup PopPlaces \cup StabPlaces, NEW l,
         pc' = [pc EXCEPT ![t] = l], l \in PopPlaces \cup StabPlaces \/ l = loc[t].back,
         loc'[t].back = loc[t].back, loc'[t].node = loc[t].node, UNCHANGED <<op, result, data>>,
         l \in PopPlaces => PopKnows(t, h, n, s)',
         l \in StabPlaces => StabKnows(t, h, n)'
  PROVE  Knows(t, h, n, s)' /\ (Pending(t)' <=> Pending(t)) /\ (Owns(t)' <=> Owns(t)) /\ Held(t)' = Held(t)
<1>1. pc'[t] = l  BY DEF Types
<1>2. loc[t].back \in {"anchor", "return"}  BY AtThread
<1>3. Pending(t)' <=> Pending(t)
  BY <1>1, <1>2 DEF Pending, PopPlaces, StabPlaces, Reserving, Checked
<1>4. Owns(t)' <=> Owns(t)  BY <1>3 DEF Owns
<1>5. pc[t] # "retire" /\ pc'[t] # "retire"
  BY <1>1, <1>2 DEF PopPlaces, StabPlaces, Reserving, Checked
<1>6. Held(t)' = Held(t)  BY <1>4, <1>5 DEF Held
<1>7. pc[t] # "idle" /\ l \notin {"idle", "push"}
  BY <1>2 DEF PopPlaces, StabPlaces, Reserving, Checked
<1> QED  BY <1>1, <1>3, <1>4, <1>5, <1>6, <1>7 DEF Knows, StabPlaces

\* A reservation of t.
LEMMA ReserveFrame ==
  ASSUME Types, NEW t \in Threads, NEW i \in 0 .. 2, NEW x \in NodeOrNull, Reserve(t, i, x),
         \A v \in Threads : Owns(v)' => Owns(v) /\ loc'[v].node = loc[v].node
  PROVE  /\ haz'[t][i] = x /\ \A j \in (0 .. 2) \ {i} : haz'[t][j] = haz[t][j]
         /\ \A u \in Threads \ {t} : haz'[u] = haz[u]
         /\ \A u \in Threads \ {t} : \A j \in 0 .. 2 : \A y \in Nodes :
              <<u, j>> \in kept[y] => <<u, j>> \in kept'[y]
         /\ \A j \in (0 .. 2) \ {i} : \A y : Safe(t, j, y) => Safe(t, j, y)'
         /\ haz' \in [Threads -> [0 .. 2 -> NodeOrNull]]
         /\ kept' \in [Nodes -> SUBSET (Threads \X (0 .. 2))]
<1>1. haz'[t][i] = x /\ \A j \in (0 .. 2) \ {i} : haz'[t][j] = haz[t][j]  BY DEF Types, Reserve
<1>2. \A u \in Threads \ {t} : haz'[u] = haz[u]  BY DEF Types, Reserve
<1>3. \A u \in Threads : \A j \in 0 .. 2 : \A y \in Nodes :
        <<u, j>> # <<t, i>> /\ <<u, j>> \in kept[y] => <<u, j>> \in kept'[y]
  BY DEF Types, Reserve
<1>4. ASSUME NEW j \in (0 .. 2) \ {i}, NEW y, Safe(t, j, y) PROVE Safe(t, j, y)'
  <2>1. haz'[t][j] = y /\ y \in Nodes \ free' /\ (y \in retired' => <<t, j>> \in kept[y])
    BY <1>1, <1>4 DEF Safe, Reserve
  <2>2. <<t, j>> # <<t, i>>  BY <1>4
  <2>3. <<t, j>> \in kept[y] => <<t, j>> \in kept'[y]  BY <1>3, <2>1, <2>2
  <2> QED  BY <1>4, <2>1, <2>3 DEF Safe
<1>5. haz' \in [Threads -> [0 .. 2 -> NodeOrNull]]  BY DEF Types, Reserve
<1>6. kept' \in [Nodes -> SUBSET (Threads \X (0 .. 2))]  BY DEF Types, Reserve
<1> QED  BY <1>1, <1>2, <1>3, <1>4, <1>5, <1>6


\* A step of t that moves on in its procedure keeps the invariant if t knows what it should.
LEMMA InsideKeeps ==
  ASSUME ProofAssumption, Types, NEW n \in Nat, NEW h \in [1 .. n -> Nodes], NEW s \in Sides,
         Good(h, n, s), NEW t \in Threads,
         UNCHANGED <<m_anchor, link, data, free, retired, op, result>>,
         pc[t] \in {"push"} \cup PopPlaces \cup StabPlaces,
         NEW l, l \in PopPlaces \cup StabPlaces \/ l = loc[t].back, pc' = [pc EXCEPT ![t] = l],
         NEW f \in Frames, loc' = loc \/ loc' = [loc EXCEPT ![t] = f],
         f.back = loc[t].back, f.node = loc[t].node,
         haz' \in [Threads -> [0 .. 2 -> NodeOrNull]],
         kept' \in [Nodes -> SUBSET (Threads \X (0 .. 2))],
         \A u \in Threads \ {t} : haz'[u] = haz[u],
         \A u \in Threads \ {t} : \A i \in 0 .. 2 : \A x \in Nodes :
           <<u, i>> \in kept[x] => <<u, i>> \in kept'[x],
         l \in PopPlaces => PopKnows(t, h, n, s)',
         l \in StabPlaces => StabKnows(t, h, n)'
  PROVE  Types' /\ Good(h, n, s)' /\ (Pending(t)' <=> Pending(t))
<1>1. l \in Places  BY AtThread DEF Places, StabPlaces
<1>2. Types'  BY <1>1 DEF Types
<1>3. loc'[t].back = loc[t].back /\ loc'[t].node = loc[t].node  BY DEF Types
<1>4. Knows(t, h, n, s)  BY DEF Good
<1>5. /\ Knows(t, h, n, s)' /\ (Pending(t)' <=> Pending(t))
      /\ (Owns(t)' <=> Owns(t)) /\ Held(t)' = Held(t)
  BY <1>3, <1>4, InsideKnows
<1>6. \A u \in Threads \ {t} : pc'[u] = pc[u] /\ loc'[u] = loc[u]  BY DEF Types
<1>7. Quiet(t)  BY <1>3, <1>5, <1>6 DEF Quiet, Unmoved
<1> QED  BY <1>2, <1>5, <1>7, QuietKeeps

\* A node of the deque that a thread has reserved is safe.
LEMMA InDequeSafe ==
  ASSUME NEW n \in Nat, NEW h \in [1 .. n -> Nodes], Apart(h, n), NEW t \in Threads,
         NEW i \in 0 .. 2, NEW k \in 1 .. n, haz[t][i] = h[k]
  PROVE  Safe(t, i, h[k])
BY DEF Apart, Safe, Held

\* What is safe is so as long as reservations, pool and hands stay the same.
LEMMA SameSafe ==
  ASSUME UNCHANGED <<haz, free, retired, kept>>, NEW t, NEW i, NEW x, Safe(t, i, x),
         \A v \in Threads : Owns(v)' => Owns(v) /\ loc'[v].node = loc[v].node
  PROVE  Safe(t, i, x)'
BY DEF Safe

\* So are the ends.
LEMMA SameSafeEnds ==
  ASSUME UNCHANGED <<haz, free, retired, kept>>, NEW t, SafeEnds(t), loc'[t].a = loc[t].a,
         \A v \in Threads : Owns(v)' => Owns(v) /\ loc'[v].node = loc[v].node
  PROVE  SafeEnds(t)'
<1>1. \A i, x : Safe(t, i, x) => Safe(t, i, x)'  BY SameSafe
<1> HIDE DEF Safe
<1>2. \A i : \A r \in Sides : Safe(t, i, loc[t].a.ends[r]) => Safe(t, i, loc[t].a.ends[r])'
  <2> SUFFICES ASSUME NEW i, NEW r \in Sides, Safe(t, i, loc[t].a.ends[r])
               PROVE  Safe(t, i, loc[t].a.ends[r])'
    OBVIOUS
  <2>1. PICK x : x = loc[t].a.ends[r]  OBVIOUS
  <2>2. Safe(t, i, x)'  BY <1>1, <2>1
  <2>3. loc'[t].a.ends[r] = x  BY <2>1
  <2> QED  BY <2>2, <2>3
<1> QED  BY <1>2 DEF SafeEnds, Sides

\* In a procedure, a thread moves on with the same node in its hands.
LEMMA SameHands ==
  ASSUME Types, NEW t \in Threads, NEW l, l \in PopPlaces \cup StabPlaces,
         pc[t] \in PopPlaces \cup StabPlaces, pc' = [pc EXCEPT ![t] = l], UNCHANGED op,
         NEW f, loc' = loc \/ loc' = [loc EXCEPT ![t] = f],
         f.back = loc[t].back, f.node = loc[t].node
  PROVE  \A v \in Threads : Owns(v)' => Owns(v) /\ loc'[v].node = loc[v].node
<1> SUFFICES ASSUME NEW v \in Threads, Owns(v)' PROVE Owns(v) /\ loc'[v].node = loc[v].node
  OBVIOUS
<1>1. v # t => pc'[v] = pc[v] /\ loc'[v] = loc[v]  BY DEF Types
<1>2. pc'[t] = l /\ loc'[t].back = loc[t].back /\ loc'[t].node = loc[t].node  BY DEF Types
<1>3. Pending(v)' => Pending(v)
  BY <1>1, <1>2 DEF Pending, PopPlaces, StabPlaces, Reserving, Checked
<1> QED  BY <1>1, <1>2, <1>3 DEF Owns

\* Both ends, as the anchor has them and t has reserved them, are safe.
LEMMA FoundSafe ==
  ASSUME ProofAssumption, NEW n \in Nat, NEW h \in [1 .. n -> Nodes], NEW s \in Sides,
         Chain(h, n, s), Apart(h, n), n > 0, NEW t \in Threads, m_anchor = loc[t].a,
         haz[t][0] = loc[t].a.ends["L"], haz[t][1] = loc[t].a.ends["R"]
  PROVE  SafeEnds(t)
<1>1. 1 \in 1 .. n /\ n \in 1 .. n  OBVIOUS
<1>2. m_anchor.ends[s] = h[1] /\ m_anchor.ends[Other(s)] = h[n]  BY DEF Chain
<1>3. \A r \in Sides : \E k \in 1 .. n : m_anchor.ends[r] = h[k]  BY <1>1, <1>2, TwoSides
<1>4. \A i \in 0 .. 2 : \A k \in 1 .. n : haz[t][i] = h[k] => Safe(t, i, h[k])  BY InDequeSafe
<1>5. Safe(t, 0, loc[t].a.ends["L"])  BY <1>3, <1>4 DEF Sides
<1>6. Safe(t, 1, loc[t].a.ends["R"])  BY <1>3, <1>4 DEF Sides
<1> QED  BY <1>5, <1>6 DEF SafeEnds

\* The ends of the anchor face each other.
LEMMA FoundFacing ==
  ASSUME NEW n \in Nat, NEW h \in [1 .. n -> Nodes], NEW s \in Sides, Chain(h, n, s), n > 1
  PROVE  Facing(h, n, s, m_anchor)
<1>1. m_anchor.ends[s] = h[1] /\ m_anchor.ends[Other(s)] = h[n]  BY DEF Chain
<1>2. 1 \in 1 .. n /\ n \in 1 .. n  OBVIOUS
<1>3. \A x, y \in 1 .. n : h[x] = h[y] => x = y  BY DEF Chain
<1> QED  BY <1>1, <1>2, <1>3 DEF Facing

\* The link inward from an end leads to its neighbour, unless the other end is unstable.
LEMMA InnerLink ==
  ASSUME ProofAssumption, NEW n \in Nat, NEW h \in [1 .. n -> Nodes], NEW s \in Sides,
         Chain(h, n, s), n > 1, NEW r \in Sides, m_anchor.status \in {"STABLE", PushStatus(r)}
  PROVE  Between(h, n, m_anchor.ends[r], m_anchor.ends[Other(r)], link[m_anchor.ends[r]][Other(r)].ptr)
<1>1. m_anchor.ends[s] = h[1] /\ m_anchor.ends[Other(s)] = h[n]  BY DEF Chain
<1>2. m_anchor.status # PushStatus(Other(r))  BY TwoSides
<1>3. PICK p : p = link[m_anchor.ends[r]][Other(r)].ptr  OBVIOUS
<1>n. /\ p = h[2] => Between(h, n, m_anchor.ends[s], m_anchor.ends[Other(s)], p)
      /\ p = h[n - 1] => Between(h, n, m_anchor.ends[Other(s)], m_anchor.ends[s], p)
  BY NextToEnd
<1>4. CASE r = s
  <2>1. 1 \in 1 .. (n - 1) /\ 1 + 1 = 2  OBVIOUS
  <2>2. link[h[1]][Other(s)].ptr = h[2]  BY <1>2, <1>4, <2>1 DEF Chain
  <2>3. p = h[2]  BY <1>1, <1>3, <1>4, <2>2
  <2>4. Between(h, n, m_anchor.ends[s], m_anchor.ends[Other(s)], p)  BY <1>n, <2>3
  <2> QED  BY <1>3, <1>4, <2>4
<1>5. CASE r = Other(s)
  <2>1. n \in 2 .. n /\ Other(r) = s  BY <1>5, TwoSides
  <2>2. link[h[n]][s].ptr = h[n - 1]  BY <1>2, <2>1 DEF Chain
  <2>3. p = h[n - 1]  BY <1>1, <1>3, <1>5, <2>1, <2>2
  <2>4. Between(h, n, m_anchor.ends[Other(s)], m_anchor.ends[s], p)  BY <1>n, <2>3
  <2> QED  BY <1>3, <1>5, <2>1, <2>4
<1> QED  BY <1>4, <1>5, TwoSides

\* Before the anchor has been looked at again.
LEMMA ReserveEndsKeeps ==
  ASSUME ProofAssumption, Types, NEW n \in Nat, NEW h \in [1 .. n -> Nodes], NEW s \in Sides,
         Good(h, n, s), NEW t \in Threads, ReserveEnds(t)
  PROVE  Types' /\ Good(h, n, s)' /\ (Pending(t)' <=> Pending(t))
<1>1. UNCHANGED <<m_anchor, link, data, free, retired, op, result, loc>>
  BY DEF ReserveEnds, Reserve
<1>2. Knows(t, h, n, s)  BY DEF Good
<1> DEFINE Stage(l, i, r) ==
             /\ pc' = [pc EXCEPT ![t] = l] /\ Reserve(t, i, loc[t].a.ends[r])
             /\ \/ pc[t] = "pop0" /\ l = "pop1" /\ i = 0 /\ r = "L"
                \/ pc[t] = "pop1" /\ l = "popCheck" /\ i = 1 /\ r = "R"
                \/ pc[t] = "stabilize0" /\ l = "stabilize1" /\ i = 0 /\ r = "L"
                \/ pc[t] = "stabilize1" /\ l = "stabCheck1" /\ i = 1 /\ r = "R"
<1>a. PICK l \in Places, i \in 0 .. 1, r \in Sides : Stage(l, i, r)
  <2>1. /\ 0 \in 0 .. 1 /\ 1 \in 0 .. 1 /\ "L" \in Sides /\ "R" \in Sides
        /\ {"pop1", "popCheck", "stabilize1", "stabCheck1"} \subseteq Places
    BY DEF Sides, Places, PopPlaces, Reserving
  <2>2. \/ Stage("pop1", 0, "L") \/ Stage("popCheck", 1, "R")
        \/ Stage("stabilize1", 0, "L") \/ Stage("stabCheck1", 1, "R")
    BY DEF ReserveEnds, Goto
  <2> HIDE DEF Stage
  <2> QED  BY <2>1, <2>2
<1>3. Stage(l, i, r)  BY <1>a
<1>4. loc[t].a.ends[r] \in NodeOrNull /\ loc[t] \in Frames /\ pc'[t] = l  BY <1>3, AtThread DEF Types
<1>5. \A v \in Threads : Owns(v)' => Owns(v) /\ loc'[v].node = loc[v].node
  BY <1>1, <1>3, SameHands DEF PopPlaces, StabPlaces, Reserving
<1>6. i \in 0 .. 2  OBVIOUS
<1>7. /\ haz'[t][i] = loc[t].a.ends[r] /\ \A j \in (0 .. 2) \ {i} : haz'[t][j] = haz[t][j]
      /\ \A u \in Threads \ {t} : haz'[u] = haz[u]
      /\ \A u \in Threads \ {t} : \A j \in 0 .. 2 : \A y \in Nodes :
           <<u, j>> \in kept[y] => <<u, j>> \in kept'[y]
      /\ haz' \in [Threads -> [0 .. 2 -> NodeOrNull]]
      /\ kept' \in [Nodes -> SUBSET (Threads \X (0 .. 2))]
  BY <1>3, <1>4, <1>5, <1>6, ReserveFrame
<1>8. 0 \in 0 .. 2 /\ 1 \in 0 .. 2 /\ 0 # 1  OBVIOUS
<1>9. l \in PopPlaces => PopKnows(t, h, n, s)'
  <2>1. SUFFICES ASSUME l \in PopPlaces PROVE PopKnows(t, h, n, s)'  OBVIOUS
  <2>2. pc[t] \in {"pop0", "pop1"} /\ l \in {"pop1", "popCheck"}
    BY <1>3, <2>1 DEF PopPlaces
  <2>3. PopKnows(t, h, n, s)  BY <1>2, <2>2 DEF Knows, PopPlaces
  <2>4. l = "pop1" => haz'[t][0] = loc[t].a.ends["L"]  BY <1>3, <1>7
  <2>5. l = "popCheck" => haz'[t][0] = loc[t].a.ends["L"] /\ haz'[t][1] = loc[t].a.ends["R"]
    BY <1>3, <1>7, <1>8, <2>3 DEF PopKnows
  <2> QED  BY <1>1, <1>4, <2>2, <2>3, <2>4, <2>5 DEF PopKnows
<1>10. l \in StabPlaces => StabKnows(t, h, n)'
  <2>1. SUFFICES ASSUME l \in StabPlaces PROVE StabKnows(t, h, n)'  OBVIOUS
  <2>2. pc[t] \in {"stabilize0", "stabilize1"} /\ l \in {"stabilize1", "stabCheck1"}
    BY <1>3, <2>1 DEF StabPlaces, Reserving, Checked
  <2>3. StabKnows(t, h, n)  BY <1>2, <2>2 DEF Knows, Reserving
  <2>4. l = "stabilize1" => haz'[t][0] = loc[t].a.ends["L"]  BY <1>3, <1>7
  <2>5. l = "stabCheck1" => haz'[t][0] = loc[t].a.ends["L"] /\ haz'[t][1] = loc[t].a.ends["R"]
    BY <1>3, <1>7, <1>8, <2>3 DEF StabKnows
  <2> QED  BY <1>1, <1>4, <2>2, <2>3, <2>4, <2>5 DEF StabKnows, Checked
<1>11. pc[t] \in PopPlaces \cup StabPlaces /\ l \in PopPlaces \cup StabPlaces
  BY <1>3 DEF PopPlaces, StabPlaces, Reserving
<1> QED  BY <1>1, <1>3, <1>4, <1>7, <1>9, <1>10, <1>11, InsideKeeps

\* In a check, the reservations are found to hold if the anchor is the same.
LEMMA RecheckKeeps ==
  ASSUME ProofAssumption, Types, NEW n \in Nat, NEW h \in [1 .. n -> Nodes], NEW s \in Sides,
         Good(h, n, s), NEW t \in Threads, Recheck(t)
  PROVE  Types' /\ Good(h, n, s)' /\ (Pending(t)' <=> Pending(t))
<1>1. UNCHANGED <<m_anchor, link, data, haz, free, kept, retired, loc, op, result>>
  BY DEF Recheck, Reclaim
<1>2. Knows(t, h, n, s) /\ Chain(h, n, s) /\ Apart(h, n)  BY DEF Good
<1>3. loc[t] \in Frames  BY AtThread
<1>4. /\ haz' \in [Threads -> [0 .. 2 -> NodeOrNull]]
      /\ kept' \in [Nodes -> SUBSET (Threads \X (0 .. 2))]
  BY <1>1 DEF Types
<1>5. ASSUME NEW l \in PopPlaces \cup StabPlaces, pc' = [pc EXCEPT ![t] = l],
             pc[t] \in PopPlaces \cup StabPlaces
      PROVE  \A v \in Threads : Owns(v)' => Owns(v) /\ loc'[v].node = loc[v].node
  BY <1>1, <1>5, SameHands
<1>6. CASE pc[t] = "popCheck" /\ Goto(t, IF Same(t) THEN "popPrev" ELSE "anchor")
  <2>1. PopKnows(t, h, n, s)  BY <1>2, <1>6 DEF Knows, PopPlaces
  <2>2. CASE Same(t)
    <3>1. pc' = [pc EXCEPT ![t] = "popPrev"] /\ pc'[t] = "popPrev"  BY <1>6, <2>2 DEF Goto, Types
    <3>2. \A v \in Threads : Owns(v)' => Owns(v) /\ loc'[v].node = loc[v].node
      BY <1>5, <1>6, <3>1 DEF PopPlaces
    <3>3. /\ m_anchor = loc[t].a /\ m_anchor.ends["L"] # m_anchor.ends["R"]
          /\ m_anchor.status = "STABLE" /\ m_anchor.ends[op[t].side] # Null
      BY <1>6, <2>1, <2>2 DEF PopKnows, Same
    <3>4. n > 1
      <4>1. n # 0 /\ n # 1  BY <1>2, <3>3, AtThread, Ends
      <4> QED  BY <4>1
    <3>5. SafeEnds(t)
      <4>1. haz[t][0] = loc[t].a.ends["L"] /\ haz[t][1] = loc[t].a.ends["R"]
        BY <1>6, <2>1 DEF PopKnows
      <4> QED  BY <1>2, <3>3, <3>4, <4>1, FoundSafe
    <3>6. SafeEnds(t)'  BY <1>1, <3>2, <3>5, SameSafeEnds
    <3>7. Facing(h, n, s, m_anchor)  BY <1>2, <3>4, FoundFacing
    <3>8. Between(h, n, m_anchor.ends[op[t].side], m_anchor.ends[Other(op[t].side)],
                  link[m_anchor.ends[op[t].side]][Other(op[t].side)].ptr)
      BY <1>2, <3>3, <3>4, AtThread, InnerLink
    <3>9. PopKnows(t, h, n, s)'  BY <1>1, <2>1, <3>1, <3>3, <3>6, <3>7, <3>8 DEF PopKnows
    <3>10. "popPrev" \in PopPlaces \cup StabPlaces /\ "popPrev" \notin StabPlaces
           /\ pc[t] \in {"push"} \cup PopPlaces \cup StabPlaces
      BY <1>6 DEF PopPlaces, StabPlaces, Reserving, Checked
    <3> QED  BY <1>1, <1>3, <1>4, <3>1, <3>9, <3>10, InsideKeeps
  <2>3. CASE ~Same(t)
    <3>1. pc' = [pc EXCEPT ![t] = loc[t].back]  BY <1>6, <2>1, <2>3 DEF Goto, PopKnows
    <3>2. loc[t].back \notin PopPlaces \cup StabPlaces
          /\ pc[t] \in {"push"} \cup PopPlaces \cup StabPlaces
      BY <1>6, AtThread DEF PopPlaces, StabPlaces, Reserving, Checked
    <3> QED  BY <1>1, <1>3, <1>4, <3>1, <3>2, InsideKeeps
  <2> QED  BY <2>2, <2>3
<1>7. CASE /\ pc[t] \in {"stabCheck1", "stabCheck2", "stabCheck3"}
           /\ ~Same(t) /\ Goto(t, loc[t].back)
  <2>1. pc' = [pc EXCEPT ![t] = loc[t].back]  BY <1>7 DEF Goto
  <2>2. loc[t].back \notin PopPlaces \cup StabPlaces
        /\ pc[t] \in {"push"} \cup PopPlaces \cup StabPlaces
    BY <1>7, AtThread DEF PopPlaces, StabPlaces, Reserving, Checked
  <2> QED  BY <1>1, <1>3, <1>4, <2>1, <2>2, InsideKeeps
<1>8. ASSUME pc[t] \in {"stabCheck1", "stabCheck2", "stabCheck3"}, Same(t),
             NEW l, Goto(t, l), <<pc[t], l>> \in {<<"stabCheck1", "stabPrev">>,
                                <<"stabCheck2", "stabNext">>, <<"stabCheck3", "stabLink">>}
      PROVE  Types' /\ Good(h, n, s)' /\ (Pending(t)' <=> Pending(t))
  <2>1. StabKnows(t, h, n)  BY <1>2, <1>8 DEF Knows, Reserving, Checked
  <2>2. pc' = [pc EXCEPT ![t] = l] /\ pc'[t] = l  BY <1>8 DEF Goto, Types
  <2>3. l \in StabPlaces /\ l \in Checked /\ l \notin PopPlaces /\ pc[t] \in StabPlaces
    BY <1>8 DEF StabPlaces, Reserving, Checked, PopPlaces
  <2>4. \A v \in Threads : Owns(v)' => Owns(v) /\ loc'[v].node = loc[v].node
    BY <1>5, <2>2, <2>3
  <2>5. m_anchor = loc[t].a /\ m_anchor.status # "STABLE"
    BY <1>8, <2>1, TwoSides, AtThread DEF StabKnows, Same
  <2>6. n > 1  BY <1>2, <2>5, Ends
  <2>7. SafeEnds(t)
    <3>1. CASE pc[t] = "stabCheck1"
      <4>1. haz[t][0] = loc[t].a.ends["L"] /\ haz[t][1] = loc[t].a.ends["R"]
        BY <2>1, <3>1 DEF StabKnows
      <4> QED  BY <1>2, <2>5, <2>6, <4>1, FoundSafe
    <3>2. CASE pc[t] \in Checked  BY <2>1, <3>2 DEF StabKnows
    <3> QED  BY <1>8, <3>1, <3>2 DEF Checked
  <2>8. SafeEnds(t)'  BY <1>1, <2>4, <2>7, SameSafeEnds
  <2>9. l \in {"stabNext", "stabLink"} => Safe(t, 2, loc[t].prev)'
    <3>1. SUFFICES ASSUME l \in {"stabNext", "stabLink"} PROVE Safe(t, 2, loc[t].prev)'  OBVIOUS
    <3>2. Safe(t, 2, loc[t].prev)
      <4>1. CASE pc[t] = "stabCheck3"  BY <2>1, <4>1 DEF StabKnows
      <4>2. CASE pc[t] = "stabCheck2"
        <5>1. PICK k \in 1 .. n : loc[t].prev = h[k]
          BY <1>2, <2>1, <2>5, <4>2, PrevInDeque DEF Checked
        <5>2. haz[t][2] = h[k] /\ 2 \in 0 .. 2  BY <2>1, <4>2, <5>1 DEF StabKnows
        <5> QED  BY <1>2, <5>1, <5>2, InDequeSafe
      <4> QED  BY <1>8, <3>1, <4>1, <4>2
    <3>3. PICK x : x = loc[t].prev  OBVIOUS
    <3>4. Safe(t, 2, x)'  BY <1>1, <2>4, <3>2, <3>3, SameSafe
    <3> QED  BY <1>1, <3>3, <3>4
  <2>10. l = "stabLink" => LinkTried(t)'
    <3>1. SUFFICES ASSUME l = "stabLink" PROVE LinkTried(t)'  OBVIOUS
    <3>2. LinkTried(t)  BY <1>8, <2>1, <3>1 DEF StabKnows
    <3> QED  BY <1>1, <2>5, <3>2 DEF LinkTried
  <2>11. l # "stabPrev" => Between(h, n, loc[t].a.ends[loc[t].side],
                                   loc[t].a.ends[Other(loc[t].side)], loc[t].prev)
    BY <1>8, <2>1, <2>5 DEF StabKnows, Checked
  <2>12. StabKnows(t, h, n)'
    BY <1>1, <1>8, <2>1, <2>2, <2>3, <2>8, <2>9, <2>10, <2>11 DEF StabKnows
  <2>13. pc[t] \in {"push"} \cup PopPlaces \cup StabPlaces  BY <2>3
  <2> QED  BY <1>1, <1>3, <1>4, <2>2, <2>3, <2>12, <2>13, InsideKeeps
<1> QED  BY <1>6, <1>7, <1>8 DEF Recheck

\* A pop reads the node next to its end.
LEMMA PopPrevKeeps ==
  ASSUME ProofAssumption, Types, NEW n \in Nat, NEW h \in [1 .. n -> Nodes], NEW s \in Sides,
         Good(h, n, s), NEW t \in Threads, PopPrev(t)
  PROVE  Types' /\ Good(h, n, s)' /\ (Pending(t)' <=> Pending(t))
<1>1. UNCHANGED <<m_anchor, link, data, haz, free, kept, retired, op, result>>
  BY DEF PopPrev, Reclaim
<1>2. Knows(t, h, n, s)  BY DEF Good
<1>3. pc[t] = "popPrev" /\ pc' = [pc EXCEPT ![t] = "pop"] /\ pc'[t] = "pop"
  BY DEF PopPrev, Goto, Types
<1>4. PopKnows(t, h, n, s)  BY <1>2, <1>3 DEF Knows, PopPlaces
<1>5. SafeEnds(t)  BY <1>3, <1>4 DEF PopKnows
<1> DEFINE e == loc[t].a.ends[op[t].side]
           p == link[e][Other(op[t].side)].ptr
           f == [loc[t] EXCEPT !.prev = p]
<1>6. e \in Nodes /\ Other(op[t].side) \in Sides
  BY <1>5, AtThread, TwoSides DEF SafeEnds, Safe, Sides
<1>7. p \in NodeOrNull  BY <1>6 DEF Types, Links
<1>8. loc' = [loc EXCEPT ![t] = f]  BY DEF PopPrev, PrevOf, Side
<1>9. Between(h, n, e, loc[t].a.ends[Other(op[t].side)], p)  BY <1>3, <1>4 DEF PopKnows
<1> HIDE DEF p
<1>10. f \in Frames /\ f.back = loc[t].back /\ f.node = loc[t].node /\ f.a = loc[t].a /\ f.prev = p
  BY <1>7, AtThread DEF Frames
<1> HIDE DEF f
<1>11. loc'[t] = f  BY <1>8 DEF Types
<1>12. \A v \in Threads : Owns(v)' => Owns(v) /\ loc'[v].node = loc[v].node
  BY <1>1, <1>3, <1>8, <1>10, SameHands DEF PopPlaces
<1>13. SafeEnds(t)'  BY <1>1, <1>5, <1>10, <1>11, <1>12, SameSafeEnds
<1>14. PopKnows(t, h, n, s)'
  BY <1>1, <1>3, <1>4, <1>9, <1>10, <1>11, <1>13 DEF PopKnows
<1>15. /\ "pop" \in PopPlaces \cup StabPlaces /\ "pop" \notin StabPlaces
       /\ pc[t] \in {"push"} \cup PopPlaces \cup StabPlaces
  BY <1>3 DEF PopPlaces, StabPlaces, Reserving, Checked
<1>16. /\ haz' \in [Threads -> [0 .. 2 -> NodeOrNull]]
       /\ kept' \in [Nodes -> SUBSET (Threads \X (0 .. 2))]
  BY <1>1 DEF Types
<1> QED  BY <1>1, <1>3, <1>8, <1>10, <1>14, <1>15, <1>16, InsideKeeps

\* stabilize reads the node next to the new end: it is that one if the anchor is the same.
LEMMA StabPrevKeeps ==
  ASSUME ProofAssumption, Types, NEW n \in Nat, NEW h \in [1 .. n -> Nodes], NEW s \in Sides,
         Good(h, n, s), NEW t \in Threads, StabPrev(t)
  PROVE  Types' /\ Good(h, n, s)' /\ (Pending(t)' <=> Pending(t))
<1>1. UNCHANGED <<m_anchor, link, data, haz, free, kept, retired, op, result>>
  BY DEF StabPrev, Reclaim
<1>2. Knows(t, h, n, s) /\ Chain(h, n, s)  BY DEF Good
<1>3. pc[t] = "stabPrev" /\ pc' = [pc EXCEPT ![t] = "stabilize2"] /\ pc'[t] = "stabilize2"
  BY DEF StabPrev, Goto, Types
<1>4. StabKnows(t, h, n)  BY <1>2, <1>3 DEF Knows, Checked
<1>5. SafeEnds(t)  BY <1>3, <1>4 DEF StabKnows, Checked
<1> DEFINE r == loc[t].side
           e == loc[t].a.ends[r]
           p == link[e][Other(r)].ptr
           f == [loc[t] EXCEPT !.prev = p]
<1>6. r \in Sides /\ e \in Nodes /\ Other(r) \in Sides
  BY <1>5, AtThread, TwoSides DEF SafeEnds, Safe, Sides
<1>7. p \in NodeOrNull  BY <1>6 DEF Types, Links
<1>8. loc' = [loc EXCEPT ![t] = f]  BY DEF StabPrev, PrevOf
<1>9. m_anchor = loc[t].a => Between(h, n, e, loc[t].a.ends[Other(r)], p)
  <2>1. SUFFICES ASSUME m_anchor = loc[t].a
                 PROVE  Between(h, n, e, loc[t].a.ends[Other(r)], p)
    OBVIOUS
  <2>2. m_anchor.status = PushStatus(r) /\ m_anchor.status # "STABLE"
    BY <1>4, <1>6, <2>1, TwoSides DEF StabKnows
  <2>3. n > 1  BY <1>2, <2>2, Ends
  <2> QED  BY <1>2, <1>6, <2>1, <2>2, <2>3, InnerLink
<1> HIDE DEF p
<1>10. /\ f \in Frames /\ f.back = loc[t].back /\ f.node = loc[t].node /\ f.a = loc[t].a
       /\ f.prev = p /\ f.side = loc[t].side
  BY <1>7, AtThread DEF Frames
<1> HIDE DEF f
<1>11. loc'[t] = f  BY <1>8 DEF Types
<1>12. \A v \in Threads : Owns(v)' => Owns(v) /\ loc'[v].node = loc[v].node
  BY <1>1, <1>3, <1>8, <1>10, SameHands DEF StabPlaces, Checked
<1>13. SafeEnds(t)'  BY <1>1, <1>5, <1>10, <1>11, <1>12, SameSafeEnds
<1>14. StabKnows(t, h, n)'
  BY <1>1, <1>3, <1>4, <1>9, <1>10, <1>11, <1>13 DEF StabKnows
<1>15. /\ "stabilize2" \in StabPlaces /\ "stabilize2" \notin PopPlaces
       /\ pc[t] \in {"push"} \cup PopPlaces \cup StabPlaces
  BY <1>3 DEF PopPlaces, StabPlaces, Reserving, Checked
<1>16. /\ haz' \in [Threads -> [0 .. 2 -> NodeOrNull]]
       /\ kept' \in [Nodes -> SUBSET (Threads \X (0 .. 2))]
  BY <1>1 DEF Types
<1> QED  BY <1>1, <1>3, <1>8, <1>10, <1>14, <1>15, <1>16, InsideKeeps

\* It reserves that node.
LEMMA ReservePrevKeeps ==
  ASSUME ProofAssumption, Types, NEW n \in Nat, NEW h \in [1 .. n -> Nodes], NEW s \in Sides,
         Good(h, n, s), NEW t \in Threads, ReservePrev(t)
  PROVE  Types' /\ Good(h, n, s)' /\ (Pending(t)' <=> Pending(t))
<1>1. UNCHANGED <<m_anchor, link, data, free, retired, op, result, loc>>
  BY DEF ReservePrev, Reserve
<1>2. Knows(t, h, n, s)  BY DEF Good
<1>3. pc[t] = "stabilize2" /\ pc' = [pc EXCEPT ![t] = "stabCheck2"] /\ pc'[t] = "stabCheck2"
  BY DEF ReservePrev, Goto, Types
<1>4. StabKnows(t, h, n)  BY <1>2, <1>3 DEF Knows, Checked
<1>5. SafeEnds(t)  BY <1>3, <1>4 DEF StabKnows, Checked
<1>6. loc[t] \in Frames /\ loc[t].prev \in NodeOrNull  BY AtThread
<1>7. \A v \in Threads : Owns(v)' => Owns(v) /\ loc'[v].node = loc[v].node
  BY <1>1, <1>3, SameHands DEF StabPlaces, Checked
<1>8. 2 \in 0 .. 2 /\ 0 \in (0 .. 2) \ {2} /\ 1 \in (0 .. 2) \ {2}  OBVIOUS
<1>9. /\ haz'[t][2] = loc[t].prev
      /\ \A u \in Threads \ {t} : haz'[u] = haz[u]
      /\ \A u \in Threads \ {t} : \A j \in 0 .. 2 : \A y \in Nodes :
           <<u, j>> \in kept[y] => <<u, j>> \in kept'[y]
      /\ \A j \in (0 .. 2) \ {2} : \A y : Safe(t, j, y) => Safe(t, j, y)'
      /\ haz' \in [Threads -> [0 .. 2 -> NodeOrNull]]
      /\ kept' \in [Nodes -> SUBSET (Threads \X (0 .. 2))]
  BY <1>6, <1>7, <1>8, ReserveFrame DEF ReservePrev
<1>10. SafeEnds(t)'
  <2>1. PICK x, y : x = loc[t].a.ends["L"] /\ y = loc[t].a.ends["R"]  OBVIOUS
  <2>2. Safe(t, 0, x) /\ Safe(t, 1, y)  BY <1>5, <2>1 DEF SafeEnds
  <2>3. Safe(t, 0, x)' /\ Safe(t, 1, y)'  BY <1>8, <1>9, <2>2
  <2> QED  BY <1>1, <2>1, <2>3 DEF SafeEnds
<1>11. StabKnows(t, h, n)'
  BY <1>1, <1>3, <1>4, <1>9, <1>10 DEF StabKnows, Checked
<1>12. /\ "stabCheck2" \in StabPlaces /\ "stabCheck2" \notin PopPlaces
       /\ pc[t] \in {"push"} \cup PopPlaces \cup StabPlaces
  BY <1>3 DEF PopPlaces, StabPlaces, Reserving, Checked
<1> QED  BY <1>1, <1>3, <1>6, <1>9, <1>11, <1>12, InsideKeeps

\* It reads that node's link.
LEMMA StabNextKeeps ==
  ASSUME ProofAssumption, Types, NEW n \in Nat, NEW h \in [1 .. n -> Nodes], NEW s \in Sides,
         Good(h, n, s), NEW t \in Threads, StabNext(t)
  PROVE  Types' /\ Good(h, n, s)' /\ (Pending(t)' <=> Pending(t))
<1>1. UNCHANGED <<m_anchor, link, data, haz, free, kept, retired, op, result>>
  BY DEF StabNext, Reclaim
<1>2. Knows(t, h, n, s)  BY DEF Good
<1> DEFINE r == loc[t].side
           e == loc[t].a.ends[r]
           q == link[loc[t].prev][r]
           f == [loc[t] EXCEPT !.prevNext = q]
           l == IF q.ptr # e THEN "stabCheck3" ELSE "stable"
<1>3. pc[t] = "stabNext" /\ pc' = [pc EXCEPT ![t] = l] /\ pc'[t] = l
  BY DEF StabNext, Goto, Types
<1>4. StabKnows(t, h, n)  BY <1>2, <1>3 DEF Knows, Checked
<1>5. SafeEnds(t) /\ Safe(t, 2, loc[t].prev)  BY <1>3, <1>4 DEF StabKnows, Checked
<1>6. r \in Sides /\ loc[t].prev \in Nodes  BY <1>5, AtThread DEF Safe
<1>7. q \in Links  BY <1>6 DEF Types
<1>8. loc' = [loc EXCEPT ![t] = f]  BY DEF StabNext
<1>9. /\ f \in Frames /\ f.back = loc[t].back /\ f.node = loc[t].node /\ f.a = loc[t].a
      /\ f.prev = loc[t].prev /\ f.side = loc[t].side /\ f.prevNext = q
  <2> HIDE DEF q
  <2> QED  BY <1>7, AtThread DEF Frames
<1> HIDE DEF f
<1>10. loc'[t] = f  BY <1>8 DEF Types
<1>11. l \in {"stabCheck3", "stable"} /\ (l = "stabCheck3" <=> q.ptr # e)  OBVIOUS
<1> HIDE DEF l
<1>12. /\ l \in StabPlaces /\ l \in Checked /\ l \notin PopPlaces
       /\ pc[t] \in PopPlaces \cup StabPlaces /\ pc[t] \in {"push"} \cup PopPlaces \cup StabPlaces
  BY <1>3, <1>11 DEF PopPlaces, StabPlaces, Reserving, Checked
<1>13. \A v \in Threads : Owns(v)' => Owns(v) /\ loc'[v].node = loc[v].node
  BY <1>1, <1>3, <1>8, <1>9, <1>12, SameHands
<1>14. SafeEnds(t)'  BY <1>1, <1>5, <1>9, <1>10, <1>13, SameSafeEnds
<1>15. Safe(t, 2, loc[t].prev)'
  <2>1. PICK x : x = loc[t].prev  OBVIOUS
  <2>2. Safe(t, 2, x)'  BY <1>1, <1>5, <1>13, <2>1, SameSafe
  <2> QED  BY <1>9, <1>10, <2>1, <2>2
<1>16. l = "stabCheck3" => LinkTried(t)'
  BY <1>1, <1>3, <1>9, <1>10, <1>11 DEF LinkTried
<1>17. l = "stable" => LinkSet(t)'
  BY <1>1, <1>9, <1>10, <1>11 DEF LinkSet
<1>18. StabKnows(t, h, n)'
  BY <1>1, <1>3, <1>4, <1>9, <1>10, <1>11, <1>12, <1>14, <1>15, <1>16, <1>17 DEF StabKnows, Checked
<1>19. /\ haz' \in [Threads -> [0 .. 2 -> NodeOrNull]]
       /\ kept' \in [Nodes -> SUBSET (Threads \X (0 .. 2))]
  BY <1>1 DEF Types
<1> QED  BY <1>1, <1>3, <1>8, <1>9, <1>12, <1>18, <1>19, InsideKeeps

\* A compare-and-swap that fails, or comes too late.
LEMMA FailKeeps ==
  ASSUME ProofAssumption, Types, NEW n \in Nat, NEW h \in [1 .. n -> Nodes], NEW s \in Sides,
         Good(h, n, s), NEW t \in Threads,
         \/ PushCas(t) /\ m_anchor # loc[t].a
         \/ PopCas(t) /\ m_anchor # loc[t].a
         \/ StabLink(t) /\ link[loc[t].prev][loc[t].side] # loc[t].prevNext
         \/ Stable(t) /\ ~Same(t)
  PROVE  Types' /\ Good(h, n, s)' /\ (Pending(t)' <=> Pending(t))
<1>1. UNCHANGED <<m_anchor, link, data, free, retired, op, result, loc>>
  BY DEF PushCas, PopCas, StabLink, Stable, Reclaim
<1>2. Knows(t, h, n, s)  BY DEF Good
<1>3. pc[t] \in {"push", "popLast", "pop", "stabLink", "stable"}
  BY DEF PushCas, PopCas, StabLink, Stable
<1>4. pc[t] \in {"push", "popLast", "pop"} => loc[t].back = "anchor"
  BY <1>2 DEF Knows, PopPlaces, PushKnows, PopKnows
<1>5. pc' = [pc EXCEPT ![t] = loc[t].back]
  <2>1. CASE (PushCas(t) \/ PopCas(t)) /\ m_anchor # loc[t].a
    <3>1. pc' = [pc EXCEPT ![t] = "anchor"]  BY <2>1 DEF PushCas, PopCas, Goto
    <3>2. pc[t] \in {"push", "popLast", "pop"}  BY <2>1 DEF PushCas, PopCas
    <3> QED  BY <1>4, <3>1, <3>2
  <2>2. CASE StabLink(t) /\ link[loc[t].prev][loc[t].side] # loc[t].prevNext
    BY <2>2 DEF StabLink, Goto
  <2>3. CASE Stable(t) /\ ~Same(t)
    BY <2>3 DEF Stable, Goto
  <2> QED  BY <2>1, <2>2, <2>3
<1>6. /\ haz' \in [Threads -> [0 .. 2 -> NodeOrNull]]
      /\ kept' \in [Nodes -> SUBSET (Threads \X (0 .. 2))]
      /\ \A u \in Threads \ {t} : haz'[u] = haz[u]
      /\ \A u \in Threads \ {t} : \A j \in 0 .. 2 : \A y \in Nodes :
           <<u, j>> \in kept[y] => <<u, j>> \in kept'[y]
  <2>1. CASE haz' = haz /\ kept' = kept  BY <2>1 DEF Types
  <2>2. CASE Stable(t)
    <3>1. haz' = [haz EXCEPT ![t] = [i \in 0 .. 2 |-> Null]]
          /\ kept' = [x \in Nodes |-> kept[x] \ ({t} \X (0 .. 2))]
      BY <2>2 DEF Stable
    <3>2. [i \in 0 .. 2 |-> Null] \in [0 .. 2 -> NodeOrNull]  BY DEF NodeOrNull
    <3>3. haz' \in [Threads -> [0 .. 2 -> NodeOrNull]] /\ \A u \in Threads \ {t} : haz'[u] = haz[u]
      BY <3>1, <3>2 DEF Types
    <3>4. kept' \in [Nodes -> SUBSET (Threads \X (0 .. 2))]  BY <3>1 DEF Types
    <3> QED  BY <3>1, <3>3, <3>4
  <2> QED  BY <2>1, <2>2 DEF PushCas, PopCas, StabLink, Reclaim
<1>7. /\ pc[t] \in {"push"} \cup PopPlaces \cup StabPlaces
      /\ loc[t].back \notin PopPlaces /\ loc[t].back \notin StabPlaces
  BY <1>3, AtThread DEF PopPlaces, StabPlaces, Reserving, Checked
<1>8. loc[t] \in Frames  BY AtThread
<1> QED  BY <1>1, <1>5, <1>6, <1>7, <1>8, InsideKeeps

\* The anchor is loaded; a push writes the link of its own node.
LEMMA GetAnchorKeeps ==
  ASSUME ProofAssumption, Types, NEW n \in Nat, NEW h \in [1 .. n -> Nodes], NEW s \in Sides,
         Good(h, n, s), NEW t \in Threads, GetAnchor(t)
  PROVE  /\ Types' /\ Good(h, n, s)'
         /\ IF pc'[t] = "return" THEN op[t].kind = "pop" /\ n = 0 ELSE Pending(t)'
<1> DEFINE a == m_anchor
           r == op[t].side
           unstable == a.ends[r] # Null /\ a.status # "STABLE"
                       /\ (op[t].kind = "push" \/ a.ends["L"] # a.ends["R"])
           q == IF a.status = "LPUSH" THEN "L" ELSE "R"
           f == IF unstable
                  THEN [NoLocals EXCEPT !.node = loc[t].node, !.a = a, !.back = "anchor", !.side = q]
                  ELSE [NoLocals EXCEPT !.node = loc[t].node, !.a = a]
           l == IF unstable THEN "stabilize0"
                ELSE IF op[t].kind = "push" THEN "push"
                ELSE IF a.ends[r] = Null THEN "return"
                ELSE IF a.ends["L"] = a.ends["R"] THEN "popLast" ELSE "pop0"
<1>1. UNCHANGED <<m_anchor, data, haz, free, kept, retired, op, result>>
  BY DEF GetAnchor, Reclaim
<1>2. Knows(t, h, n, s) /\ Chain(h, n, s) /\ Apart(h, n)  BY DEF Good
<1>3. pc[t] = "anchor" /\ pc' = [pc EXCEPT ![t] = l] /\ loc' = [loc EXCEPT ![t] = f]
  BY DEF GetAnchor, Goto, Stabilizing, Pushing, Side
<1>4. link' = IF op[t].kind = "push" /\ a.ends[r] # Null /\ a.status = "STABLE"
                THEN [link EXCEPT ![loc[t].node][Other(r)] = Ptr(a.ends[r], 0)] ELSE link
  BY DEF GetAnchor, Pushing, Side
<1>5. a \in Anchors /\ a.ends[r] \in NodeOrNull /\ r \in Sides /\ Other(r) \in Sides
      /\ op[t].kind \in {"push", "pop"} /\ loc[t].node \in NodeOrNull
  BY AtThread, TwoSides DEF Types, Anchors
<1>6. Pending(t) /\ (Owns(t) <=> op[t].kind = "push")  BY <1>3 DEF Pending, Owns
<1>7. op[t].kind = "push" => loc[t].node \in Nodes  BY <1>2, <1>6 DEF Apart, Held
<1>8. /\ NoLocals \in Frames /\ NoLocals.back = "anchor"
  BY DEF NoLocals, Frames, Both, Anchor, Anchors, NodeOrNull, Ptr, Links, Sides
<1>9. f \in Frames /\ f.node = loc[t].node /\ f.a = a /\ f.back = "anchor"
      /\ (unstable => f.side = q)
  <2>1. q \in Sides  BY DEF Sides
  <2> HIDE DEF q, unstable
  <2> QED  BY <1>5, <1>8, <2>1 DEF Frames
<1>10. unstable => a.status = PushStatus(q) /\ q \in Sides
  BY <1>5 DEF Anchors, PushStatus, Sides
<1>11. l \in Places /\ l \in {"stabilize0", "push", "return", "popLast", "pop0"}
  BY DEF Places, PopPlaces, Reserving
<1>12. /\ l = "stabilize0" => unstable
       /\ l = "push" => op[t].kind = "push" /\ (a.ends[r] # Null => a.status = "STABLE")
       /\ l = "return" => op[t].kind = "pop" /\ a.ends[r] = Null
       /\ l = "popLast" => op[t].kind = "pop" /\ a.ends[r] # Null /\ a.ends["L"] = a.ends["R"]
       /\ l = "pop0" => op[t].kind = "pop" /\ a.ends[r] # Null /\ a.ends["L"] # a.ends["R"]
                        /\ a.status = "STABLE"
  BY <1>5
<1> HIDE DEF unstable, f, l
<1>13. pc'[t] = l /\ loc'[t] = f  BY <1>3 DEF Types
<1>14. link' \in [Nodes -> [Sides -> Links]]
  <2>1. Ptr(a.ends[r], 0) \in Links  BY <1>5 DEF Ptr, Links
  <2> QED  BY <1>4, <1>5, <2>1 DEF Types
<1>15. Types'  BY <1>1, <1>3, <1>9, <1>11, <1>14 DEF Types
<1>16. (op[t].kind = "push" => l \in {"stabilize0", "push"})
       /\ (Pending(t)' <=> l # "return") /\ (Owns(t)' <=> op[t].kind = "push")
  BY <1>1, <1>9, <1>11, <1>12, <1>13 DEF Pending, Owns
<1>17. Quiet(t)
  <2>1. Held(t)' = Held(t)  BY <1>3, <1>6, <1>9, <1>11, <1>13, <1>16 DEF Held
  <2>2. \A x \in Nodes : link'[x] = link[x] \/ (Owns(t) /\ x = loc[t].node)
    BY <1>4, <1>6 DEF Types
  <2>3. \A u \in Threads \ {t} : pc'[u] = pc[u] /\ loc'[u] = loc[u]  BY <1>3 DEF Types
  <2> QED  BY <1>1, <1>6, <1>9, <1>13, <1>16, <2>1, <2>2, <2>3 DEF Quiet, Unmoved
<1>18. Knows(t, h, n, s)'
  <2>1. Owns(t)' => data'[loc'[t].node] = op'[t].val
    BY <1>1, <1>2, <1>6, <1>9, <1>13, <1>16 DEF Knows
  <2>2. result'[t] = Empty  BY <1>1, <1>2, <1>6 DEF Knows
  <2>3. l = "push" => PushKnows(t)'
    <3>1. SUFFICES ASSUME l = "push" PROVE PushKnows(t)'  OBVIOUS
    <3>2. a.ends[r] # Null => a.status = "STABLE" /\ link'[loc[t].node][Other(r)].ptr = a.ends[r]
      BY <1>4, <1>5, <1>7, <1>12, <3>1 DEF Types, Ptr
    <3> QED  BY <1>1, <1>9, <1>12, <1>13, <3>1, <3>2 DEF PushKnows
  <2>4. l \in PopPlaces => PopKnows(t, h, n, s)'
    BY <1>1, <1>9, <1>11, <1>12, <1>13 DEF PopKnows, PopPlaces
  <2>5. l \in Reserving \cup Checked => StabKnows(t, h, n)'
    BY <1>1, <1>9, <1>10, <1>11, <1>12, <1>13 DEF StabKnows, Reserving, Checked
  <2> QED  BY <1>11, <1>13, <2>1, <2>2, <2>3, <2>4, <2>5 DEF Knows
<1>19. pc'[t] = "return" => n = 0  BY <1>2, <1>5, <1>12, <1>13, Ends
<1> QED  BY <1>2, <1>12, <1>13, <1>15, <1>16, <1>17, <1>18, <1>19, QuietKeeps

\* An operation returns.
LEMMA ReturnKeeps ==
  ASSUME ProofAssumption, Types, NEW n \in Nat, NEW h \in [1 .. n -> Nodes], NEW s \in Sides,
         Good(h, n, s), NEW t \in Threads, Return(t)
  PROVE  Types' /\ Good(h, n, s)'
<1>1. UNCHANGED <<m_anchor, link, data, haz, free, kept, retired, op>>
  BY DEF Return, Reclaim
<1>2. /\ pc[t] = "return" /\ pc' = [pc EXCEPT ![t] = "idle"]
      /\ loc' = [loc EXCEPT ![t] = NoLocals] /\ result' = [result EXCEPT ![t] = Empty]
  BY DEF Return, Goto
<1>3. NoLocals \in Frames
  BY DEF NoLocals, Frames, Both, Anchor, Anchors, NodeOrNull, Ptr, Links, Sides
<1>4. Types'  BY <1>1, <1>2, <1>3 DEF Types, Places
<1>5. pc'[t] = "idle" /\ result'[t] = Empty
      /\ \A u \in Threads \ {t} : pc'[u] = pc[u] /\ loc'[u] = loc[u] /\ result'[u] = result[u]
  BY <1>2 DEF Types
<1>6. ~Owns(t)' /\ Held(t)' = {}  BY <1>5 DEF Owns, Pending, Held
<1>7. Quiet(t)  BY <1>1, <1>5, <1>6 DEF Quiet, Unmoved
<1>8. Knows(t, h, n, s)'  BY <1>5, <1>6 DEF Knows, PopPlaces, Reserving, Checked
<1> QED  BY <1>4, <1>7, <1>8, QuietKeeps

-----------------------------------------------------------------------------
(* The steps that concern the others: nodes come, go, and are given back. *)

\* A call; a push takes a node of the pool.
LEMMA CallKeeps ==
  ASSUME ProofAssumption, Types, NEW n \in Nat, NEW h \in [1 .. n -> Nodes], NEW s \in Sides,
         Good(h, n, s), NEW t \in Threads, NEW o \in Operations, Call(t, o)
  PROVE  /\ Types' /\ Good(h, n, s)' /\ Pending(t)'
         /\ \A k \in 1 .. n : data'[h[k]] = data[h[k]]
<1>1. UNCHANGED <<m_anchor, link, haz, kept, retired, result>>  BY DEF Call
<1>2. /\ pc[t] = "idle" /\ pc' = [pc EXCEPT ![t] = "anchor"] /\ op' = [op EXCEPT ![t] = o]
  BY DEF Call, Goto
<1>3. Chain(h, n, s) /\ Apart(h, n) /\ \A u \in Threads : Knows(u, h, n, s)  BY DEF Good
<1>4. Null \notin Nodes  BY DEF ProofAssumption, MMDequeAssumption
<1> DEFINE New(w) == /\ o.kind = "push" => w \in free
                     /\ o.kind # "push" => w = Null
                     /\ free' = free \ {w}
                     /\ data' = [x \in Nodes |-> IF x = w THEN o.val ELSE data[x]]
                     /\ loc' = [loc EXCEPT ![t] = [NoLocals EXCEPT !.node = w]]
<1>5. PICK w \in NodeOrNull : New(w)
  <2>1. CASE o.kind = "push"
    <3>1. PICK w \in free : /\ free' = free \ {w} /\ data' = [data EXCEPT ![w] = o.val]
                            /\ loc' = [loc EXCEPT ![t] = [NoLocals EXCEPT !.node = w]]
      BY <2>1 DEF Call
    <3>2. New(w) /\ w \in NodeOrNull  BY <2>1, <3>1 DEF Types, NodeOrNull
    <3> QED  BY <3>2
  <2>2. CASE o.kind # "push"
    <3>1. UNCHANGED <<free, data>> /\ loc' = [loc EXCEPT ![t] = NoLocals]  BY <2>2 DEF Call
    <3>2. [NoLocals EXCEPT !.node = Null] = NoLocals  BY DEF NoLocals
    <3>3. data' = [x \in Nodes |-> IF x = Null THEN o.val ELSE data[x]]
      BY <1>4, <3>1 DEF Types
    <3>4. New(Null)  BY <1>4, <2>2, <3>1, <3>2, <3>3 DEF Types
    <3> QED  BY <3>4 DEF NodeOrNull
  <2> QED  BY <2>1, <2>2
<1>6. o.kind = "push" => o.val \in Values  BY DEF Operations, Push, Pop
<1>7. NoLocals \in Frames /\ NoLocals.back = "anchor"
  BY DEF NoLocals, Frames, Both, Anchor, Anchors, NodeOrNull, Ptr, Links, Sides
<1> DEFINE f == [NoLocals EXCEPT !.node = w]
<1>8. f \in Frames /\ f.node = w /\ f.back = "anchor"  BY <1>7 DEF Frames
<1>9. loc' = [loc EXCEPT ![t] = f]  BY <1>5
<1> HIDE DEF f
<1>10. /\ pc'[t] = "anchor" /\ op'[t] = o /\ loc'[t] = f
       /\ \A u \in Threads \ {t} : pc'[u] = pc[u] /\ op'[u] = op[u] /\ loc'[u] = loc[u]
  BY <1>2, <1>9 DEF Types
<1>11. Types'
  <2>1. data' \in [Nodes -> Values \cup {Garbage}]
    <3>1. \A x \in Nodes : data'[x] \in Values \cup {Garbage}
      BY <1>4, <1>5, <1>6 DEF Types
    <3> QED  BY <1>5, <3>1
  <2> QED  BY <1>1, <1>2, <1>5, <1>8, <1>9, <2>1 DEF Types, Places
<1>12. Pending(t)' /\ (Owns(t)' <=> o.kind = "push")  BY <1>10 DEF Pending, Owns
<1>13. \A u \in Threads \ {t} : (Owns(u)' <=> Owns(u)) /\ Held(u)' = Held(u)
  BY <1>10 DEF Owns, Pending, Held
<1>14. Held(t)' = IF o.kind = "push" THEN {w} ELSE {}  BY <1>8, <1>10, <1>12 DEF Held
<1>15. \A k \in 1 .. n : h[k] # w  BY <1>3, <1>4, <1>5 DEF Apart
<1>16. \A x \in Nodes : x # w => link'[x] = link[x] /\ data'[x] = data[x]  BY <1>1, <1>5
<1>17. \A k \in 1 .. n : data'[h[k]] = data[h[k]]  BY <1>15, <1>16
<1>18. ASSUME NEW u \in Threads \ {t} PROVE Knows(u, h, n, s)'
  <2>1. Unmoved(u) /\ m_anchor' = m_anchor  BY <1>1, <1>10 DEF Unmoved
  <2>2. SafeStays(u, w)
    <3>1. free' \subseteq free /\ (w \in Nodes => w \in free)  BY <1>4, <1>5
    <3>2. \A v \in Threads : Owns(v)' => (Owns(v) /\ loc'[v].node = loc[v].node) \/ loc'[v].node \in free
      BY <1>5, <1>8, <1>10, <1>12, <1>13
    <3> QED  BY <1>1, <3>1, <3>2, SafeStep
  <2>3. Owns(u) => loc[u].node # w  BY <1>3, <1>4, <1>5 DEF Apart, Held
  <2> QED  BY <1>3, <1>15, <1>16, <2>1, <2>2, <2>3, CalmKnow
<1>19. Knows(t, h, n, s)'
  <2>1. Owns(t)' => data'[loc'[t].node] = op'[t].val
    BY <1>5, <1>8, <1>10, <1>12 DEF Types
  <2>2. result'[t] = Empty  BY <1>1, <1>2, <1>3 DEF Knows
  <2> QED  BY <1>10, <2>1, <2>2 DEF Knows, PopPlaces, Reserving, Checked
<1>20. Chain(h, n, s)'  BY <1>1, <1>3 DEF Chain
<1>21. Apart(h, n)'
  <2>1. free' \cap retired' = {}  BY <1>1, <1>3, <1>5 DEF Apart
  <2>2. \A k \in 1 .. n : h[k] \notin free' \cup retired' /\ data'[h[k]] \in Values
    BY <1>1, <1>3, <1>5, <1>17 DEF Apart
  <2>3. ASSUME NEW u \in Threads, NEW x \in Held(u)'
        PROVE  x \in Nodes \ (free' \cup retired') /\ \A k \in 1 .. n : h[k] # x
    <3>1. CASE u = t  BY <1>1, <1>3, <1>5, <1>14, <1>15, <2>3, <3>1 DEF Apart, Types
    <3>2. CASE u # t  BY <1>1, <1>3, <1>5, <1>13, <2>3, <3>2 DEF Apart
    <3> QED  BY <3>1, <3>2
  <2>4. \A u \in Threads \ {t} : Held(t)' \cap Held(u)' = {}
    BY <1>3, <1>5, <1>13, <1>14 DEF Apart
  <2>5. \A u, v \in Threads : u # v => Held(u)' \cap Held(v)' = {}
    BY <1>3, <1>13, <2>4 DEF Apart
  <2> QED  BY <2>1, <2>2, <2>3, <2>5 DEF Apart
<1> QED  BY <1>11, <1>12, <1>17, <1>18, <1>19, <1>20, <1>21 DEF Good

\* A node is retired: the reservations that stand keep it.
LEMMA RetireKeeps ==
  ASSUME ProofAssumption, Types, NEW n \in Nat, NEW h \in [1 .. n -> Nodes], NEW s \in Sides,
         Good(h, n, s), NEW t \in Threads, Retire(t)
  PROVE  Types' /\ Good(h, n, s)'
<1> DEFINE x == loc[t].a.ends[op[t].side]
<1>1. UNCHANGED <<m_anchor, link, data, free, loc, op, result>>  BY DEF Retire
<1>2. /\ pc[t] = "retire" /\ pc' = [pc EXCEPT ![t] = "return"] /\ retired' = retired \cup {x}
      /\ haz' = [haz EXCEPT ![t] = [i \in 0 .. 2 |-> Null]]
      /\ kept' = [m \in Nodes |->
           IF m = x THEN {r \in (Threads \ {t}) \X (0 .. 2) : haz[r[1]][r[2]] = x}
           ELSE kept[m] \ ({t} \X (0 .. 2))]
  BY DEF Retire, Goto, Side
<1>3. Chain(h, n, s) /\ Apart(h, n) /\ \A u \in Threads : Knows(u, h, n, s)  BY DEF Good
<1>4. ~Owns(t) /\ Held(t) = {x}  BY <1>2 DEF Owns, Pending, Held
<1>5. x \in Nodes \ free /\ \A k \in 1 .. n : h[k] # x  BY <1>3, <1>4 DEF Apart
<1> HIDE DEF x
<1>6. pc'[t] = "return" /\ \A u \in Threads \ {t} : pc'[u] = pc[u] /\ haz'[u] = haz[u]
  BY <1>2 DEF Types
<1>7. Types'
  <2>1. haz' \in [Threads -> [0 .. 2 -> NodeOrNull]]
    <3>1. [i \in 0 .. 2 |-> Null] \in [0 .. 2 -> NodeOrNull]  BY DEF NodeOrNull
    <3> QED  BY <1>2, <3>1 DEF Types
  <2>2. kept' \in [Nodes -> SUBSET (Threads \X (0 .. 2))]  BY <1>2 DEF Types
  <2> QED  BY <1>1, <1>2, <1>5, <2>1, <2>2 DEF Types, Places
<1>8. ~Owns(t)' /\ Held(t)' = {}  BY <1>6 DEF Owns, Pending, Held
<1>9. \A u \in Threads \ {t} : (Owns(u)' <=> Owns(u)) /\ Held(u)' = Held(u)
  BY <1>1, <1>6 DEF Owns, Pending, Held
<1>10. ASSUME NEW u \in Threads \ {t} PROVE Knows(u, h, n, s)'
  <2>1. Unmoved(u) /\ m_anchor' = m_anchor  BY <1>1, <1>6 DEF Unmoved
  <2>2. ASSUME NEW i \in 0 .. 2, NEW y \in Nodes, haz[u][i] = y, y \in retired'
        PROVE  <<u, i>> \in kept'[y] \/ (y \in retired /\ (<<u, i>> \in kept[y] => <<u, i>> \in kept'[y]))
    <3>1. <<u, i>> \in (Threads \ {t}) \X (0 .. 2) /\ <<u, i>>[1] = u /\ <<u, i>>[2] = i
          /\ <<u, i>> \notin {t} \X (0 .. 2)
      OBVIOUS
    <3>2. CASE y = x
      <4>1. <<u, i>> \in {r \in (Threads \ {t}) \X (0 .. 2) : haz[r[1]][r[2]] = x}
        BY <2>2, <3>1, <3>2
      <4> QED  BY <1>2, <3>2, <4>1
    <3>3. CASE y # x
      <4>1. y \in retired /\ kept'[y] = kept[y] \ ({t} \X (0 .. 2))  BY <1>2, <2>2, <3>3
      <4> QED  BY <3>1, <4>1
    <3> QED  BY <3>2, <3>3
  <2>3. SafeStays(u, Null)
    <3>1. \A v \in Threads : Owns(v)' => Owns(v) /\ loc'[v].node = loc[v].node
      BY <1>1, <1>8, <1>9
    <3>2. haz'[u] = haz[u] /\ free' \subseteq free /\ Null \notin Nodes
      BY <1>1, <1>6 DEF ProofAssumption, MMDequeAssumption
    <3> QED  BY <2>2, <3>1, <3>2, SafeStep
  <2>4. \A k \in 1 .. n : h[k] # Null  BY <1>3, Ends
  <2>5. Owns(u) => loc[u].node # Null
    BY <1>3 DEF Apart, Held, ProofAssumption, MMDequeAssumption
  <2>6. link' = link /\ data' = data  BY <1>1
  <2> QED  BY <1>3, <2>1, <2>3, <2>4, <2>5, <2>6, CalmKnow
<1>11. Knows(t, h, n, s)'
  BY <1>6, <1>8 DEF Knows, Pending, PopPlaces, Reserving, Checked
<1>12. Chain(h, n, s)'  BY <1>1, <1>3 DEF Chain
<1>13. Apart(h, n)'
  <2>1. free' \cap retired' = {}  BY <1>1, <1>2, <1>3, <1>5 DEF Apart
  <2>2. \A k \in 1 .. n : h[k] \notin free' \cup retired' /\ data'[h[k]] \in Values
    BY <1>1, <1>2, <1>3, <1>5 DEF Apart
  <2>3. \A u \in Threads \ {t} : x \notin Held(u)  BY <1>3, <1>4 DEF Apart
  <2>4. ASSUME NEW u \in Threads, NEW y \in Held(u)'
        PROVE  y \in Nodes \ (free' \cup retired') /\ \A k \in 1 .. n : h[k] # y
    <3>1. u # t /\ y \in Held(u)  BY <1>8, <1>9, <2>4
    <3> QED  BY <1>1, <1>2, <1>3, <2>3, <3>1 DEF Apart
  <2>5. \A u \in Threads : Held(u)' \subseteq Held(u)  BY <1>8, <1>9
  <2>6. \A u, v \in Threads : u # v => Held(u)' \cap Held(v)' = {}  BY <1>3, <2>5 DEF Apart
  <2> QED  BY <2>1, <2>2, <2>4, <2>6 DEF Apart
<1> QED  BY <1>7, <1>10, <1>11, <1>12, <1>13 DEF Good

\* A node that no reservation keeps is given back to the pool.
LEMMA ReuseKeeps ==
  ASSUME ProofAssumption, Types, NEW n \in Nat, NEW h \in [1 .. n -> Nodes], NEW s \in Sides,
         Good(h, n, s), NEW x \in Nodes, Reuse(x)
  PROVE  Types' /\ Good(h, n, s)'
<1>1. UNCHANGED <<m_anchor, link, data, haz, kept, pc, loc, op, result>>  BY DEF Reuse
<1>2. x \in retired /\ kept[x] = {} /\ retired' = retired \ {x} /\ free' = free \cup {x}
  BY DEF Reuse
<1>3. Chain(h, n, s) /\ Apart(h, n) /\ \A u \in Threads : Knows(u, h, n, s)  BY DEF Good
<1>4. Types'  BY <1>1, <1>2 DEF Types
<1>5. \A u \in Threads : (Owns(u)' <=> Owns(u)) /\ Held(u)' = Held(u)
  BY <1>1 DEF Owns, Pending, Held
<1>6. ASSUME NEW u \in Threads PROVE Knows(u, h, n, s)'
  <2>1. Unmoved(u) /\ m_anchor' = m_anchor  BY <1>1 DEF Unmoved
  <2>2. SafeStays(u, Null)
    <3>1. SUFFICES ASSUME NEW i \in 0 .. 2, NEW y \in Nodes, Safe(u, i, y)
                   PROVE  Safe(u, i, y)' /\ y # Null
      BY DEF SafeStays
    <3>2. y # x  BY <1>2, <3>1 DEF Safe
    <3>3. y # Null  BY DEF ProofAssumption, MMDequeAssumption
    <3> QED  BY <1>1, <1>2, <1>5, <3>1, <3>2, <3>3 DEF Safe
  <2>3. \A k \in 1 .. n : h[k] # Null  BY <1>3, Ends
  <2>4. Owns(u) => loc[u].node # Null
    BY <1>3 DEF Apart, Held, ProofAssumption, MMDequeAssumption
  <2>5. link' = link /\ data' = data  BY <1>1
  <2> QED  BY <1>3, <2>1, <2>2, <2>3, <2>4, <2>5, CalmKnow
<1>7. Chain(h, n, s)'  BY <1>1, <1>3 DEF Chain
<1>8. Apart(h, n)'  BY <1>1, <1>2, <1>3, <1>5 DEF Apart
<1> QED  BY <1>4, <1>6, <1>7, <1>8 DEF Good

-----------------------------------------------------------------------------
(* The anchor moves. *)

\* The anchor moves away from a stable state, to one that no thread has checked.
LEMMA MovedKnow ==
  ASSUME ProofAssumption, Types, NEW u \in Threads, NEW n \in Nat, NEW m \in Nat, NEW h, NEW g,
         NEW c \in Int, NEW w, NEW s \in Sides, Knows(u, h, n, s),
         Unmoved(u), SafeStays(u, w), Shifted(g, m, h, n, c, w), link' = link, data' = data,
         m_anchor.status = "STABLE",
         m_anchor'.status = "STABLE" \/ \E r \in Sides : m_anchor'.ends[r] = w
  PROVE  Knows(u, g, m, s)'
<1>1. ASSUME pc[u] \in Checked PROVE m_anchor # loc[u].a /\ m_anchor' # loc[u].a
  <2>1. StabKnows(u, h, n)  BY <1>1 DEF Knows
  <2>2. loc[u].a.status # "STABLE"  BY <2>1, TwoSides, AtThread DEF StabKnows
  <2>3. SafeEnds(u)  BY <1>1, <2>1 DEF StabKnows
  <2>4. \A r \in Sides : loc[u].a.ends[r] # w  BY <2>3, EndsStay
  <2> QED  BY <2>2, <2>4
<1>2. AnchorStays(u)  BY <1>1 DEF AnchorStays
<1>3. LinksStay(u, h, n)
  <2>1. ASSUME pc[u] = "popPrev"
        PROVE  Between(h, n, loc[u].a.ends[op[u].side], loc[u].a.ends[Other(op[u].side)],
                       link'[loc[u].a.ends[op[u].side]][Other(op[u].side)].ptr)
    BY <2>1 DEF Knows, PopPlaces, PopKnows
  <2>2. ASSUME pc[u] \in {"stabCheck3", "stabLink"} PROVE LinkTried(u)'
    <3>1. LinkTried(u) /\ pc[u] \in Checked  BY <2>2 DEF Knows, Checked, StabKnows
    <3> QED  BY <1>1, <3>1 DEF LinkTried, Unmoved
  <2>3. ASSUME pc[u] = "stable" PROVE LinkSet(u)'
    <3>1. m_anchor' # loc'[u].a  BY <1>1, <2>3 DEF Unmoved, Checked
    <3> QED  BY <3>1 DEF LinkSet
  <2> QED  BY <2>1, <2>2, <2>3 DEF LinksStay
<1> QED  BY <1>2, <1>3, OthersKnow

\* The node x in front of h.
Pushed(x, h, n) == [k \in 1 .. (n + 1) |-> IF k = 1 THEN x ELSE h[k - 1]]

\* Its nodes are those of h, one place further.
LEMMA PushedAt ==
  ASSUME NEW n \in Nat, NEW h \in [1 .. n -> Nodes], NEW x \in Nodes
  PROVE  /\ n + 1 \in Nat /\ Pushed(x, h, n) \in [1 .. (n + 1) -> Nodes]
         /\ Pushed(x, h, n)[1] = x
         /\ \A k \in 1 .. n : Pushed(x, h, n)[k + 1] = h[k]
         /\ \A k \in 1 .. (n + 1) : k = 1 \/ (k - 1 \in 1 .. n /\ Pushed(x, h, n)[k] = h[k - 1])
<1>1. \A k \in 1 .. (n + 1) : k = 1 \/ k - 1 \in 1 .. n  OBVIOUS
<1>2. \A k \in 1 .. n : k + 1 \in 1 .. (n + 1) /\ k + 1 # 1 /\ (k + 1) - 1 = k  OBVIOUS
<1>3. Pushed(x, h, n) \in [1 .. (n + 1) -> Nodes]  BY <1>1 DEF Pushed
<1>4. 1 \in 1 .. (n + 1)  OBVIOUS
<1> QED  BY <1>1, <1>2, <1>3, <1>4 DEF Pushed

\* The chain with a node in front that links to the old end.
LEMMA PushedChain ==
  ASSUME ProofAssumption, NEW n \in Nat, NEW h \in [1 .. n -> Nodes], NEW s \in Sides, Chain(h, n, s),
         NEW x \in Nodes, \A k \in 1 .. n : h[k] # x, link' = link, m_anchor \in Anchors,
         m_anchor.status = "STABLE", n > 0 => link[x][Other(s)].ptr = m_anchor.ends[s],
         m_anchor' = IF n = 0 THEN Both(x, "STABLE") ELSE WithEnd(m_anchor, s, x, PushStatus(s))
  PROVE  Chain(Pushed(x, h, n), n + 1, s)'
<1>0. /\ n + 1 \in Nat /\ Pushed(x, h, n) \in [1 .. (n + 1) -> Nodes]
      /\ Pushed(x, h, n)[1] = x
      /\ \A k \in 1 .. n : Pushed(x, h, n)[k + 1] = h[k]
      /\ \A k \in 1 .. (n + 1) : k = 1 \/ (k - 1 \in 1 .. n /\ Pushed(x, h, n)[k] = h[k - 1])
  BY PushedAt
<1>1. PICK g : g = Pushed(x, h, n)  OBVIOUS
<1>2. PICK m : m = n + 1  OBVIOUS
<1>3. /\ m \in Nat /\ g \in [1 .. m -> Nodes] /\ g[1] = x
      /\ \A k \in 1 .. n : g[k + 1] = h[k]
      /\ \A k \in 1 .. m : k = 1 \/ (k - 1 \in 1 .. n /\ g[k] = h[k - 1])
  BY <1>0, <1>1, <1>2
<1>4. \A i, j \in 1 .. m : g[i] = g[j] => i = j
  <2> SUFFICES ASSUME NEW i \in 1 .. m, NEW j \in 1 .. m, g[i] = g[j] PROVE i = j  OBVIOUS
  <2>1. CASE i = 1 \/ j = 1  BY <1>3, <2>1
  <2>2. CASE i # 1 /\ j # 1
    <3>1. i - 1 \in 1 .. n /\ j - 1 \in 1 .. n /\ h[i - 1] = h[j - 1]  BY <1>3, <2>2
    <3>2. i - 1 = j - 1  BY <3>1 DEF Chain
    <3> QED  BY <3>2
  <2> QED  BY <2>1, <2>2
<1>5. Other(s) \in Sides /\ Other(s) # s /\ PushStatus(s) # PushStatus(Other(s))
  BY TwoSides
<1>6. /\ n = 0 => m_anchor'.status = "STABLE" /\ m_anchor'.ends[s] = x /\ m_anchor'.ends[Other(s)] = x
      /\ n > 0 => m_anchor'.status = PushStatus(s) /\ m_anchor'.ends[s] = x
                  /\ m_anchor'.ends[Other(s)] = h[n]
  <2>1. n > 0 => m_anchor.ends[Other(s)] = h[n]  BY DEF Chain
  <2> QED  BY <1>5, <2>1 DEF Both, WithEnd, Anchor, Anchors
<1>7. n > 0 => g[m] = h[n]
  <2>1. n > 0 => n \in 1 .. n  OBVIOUS
  <2> QED  BY <1>2, <1>3, <2>1
<1>8. m > 0 => m_anchor'.ends[s] = g[1] /\ m_anchor'.ends[Other(s)] = g[m]
  BY <1>2, <1>3, <1>6, <1>7
<1>9. ASSUME NEW k \in 2 .. m
      PROVE  (k = 2 /\ m_anchor'.status = PushStatus(s)) \/ link[g[k]][s].ptr = g[k - 1]
  <2>1. CASE k = 2
    <3>1. n > 0  BY <1>2, <1>9
    <3> QED  BY <1>6, <2>1, <3>1
  <2>2. CASE k > 2
    <3>1. k - 1 \in 2 .. n /\ k - 1 \in 1 .. m /\ k \in 1 .. m /\ (k - 1) - 1 \in 1 .. n /\ k - 1 # 1 /\ k # 1
      BY <1>2, <1>9, <2>2
    <3>2. g[k] = h[k - 1] /\ g[k - 1] = h[(k - 1) - 1]  BY <1>3, <3>1
    <3>3. "STABLE" # PushStatus(s)  BY TwoSides
    <3>4. link[h[k - 1]][s].ptr = h[(k - 1) - 1]  BY <3>1, <3>3 DEF Chain
    <3> QED  BY <3>2, <3>4
  <2> QED  BY <1>9, <2>1, <2>2
<1>10. ASSUME NEW k \in 1 .. (m - 1)
       PROVE  link[g[k]][Other(s)].ptr = g[k + 1]
  <2>1. CASE k = 1
    <3>1. n > 0 /\ 1 \in 1 .. n /\ 1 + 1 = 2  BY <1>2, <1>10
    <3>2. g[2] = h[1]  BY <1>3, <3>1
    <3>3. link[x][Other(s)].ptr = h[1]  BY <3>1 DEF Chain
    <3> QED  BY <1>3, <2>1, <3>2, <3>3
  <2>2. CASE k > 1
    <3>1. k - 1 \in 1 .. (n - 1) /\ k \in 1 .. n /\ k \in 1 .. m /\ (k - 1) + 1 = k /\ k # 1
      BY <1>2, <1>10, <2>2
    <3>2. g[k] = h[k - 1] /\ g[k + 1] = h[k]  BY <1>3, <3>1
    <3>3. "STABLE" # PushStatus(Other(s))  BY <1>5, TwoSides
    <3>4. link[h[k - 1]][Other(s)].ptr = h[k]  BY <3>1, <3>3 DEF Chain
    <3> QED  BY <3>2, <3>4
  <2> QED  BY <1>10, <2>1, <2>2
<1>11. m # 0 /\ (m = 1 => m_anchor'.status = "STABLE")  BY <1>2, <1>6
<1>12. Chain(g, m, s)'  BY <1>4, <1>8, <1>9, <1>10, <1>11 DEF Chain
<1> QED  BY <1>1, <1>2, <1>12

\* A push: its node becomes the end.
LEMMA PushKeeps ==
  ASSUME ProofAssumption, Types, NEW n \in Nat, NEW h \in [1 .. n -> Nodes], NEW t \in Threads,
         NEW s, s = op[t].side, Good(h, n, s), NEW x, x = loc[t].node, PushCas(t), m_anchor = loc[t].a
  PROVE  /\ x \in Nodes /\ Types' /\ Good(Pushed(x, h, n), n + 1, s)'
         /\ op[t].kind = "push" /\ Pending(t) /\ ~Pending(t)' /\ pc'[t] \in {"return", "stabilize0"}
         /\ result' = [result EXCEPT ![t] = op[t].val]
         /\ data' = data /\ op' = op /\ data[x] = op[t].val
<1> DEFINE a == m_anchor
           new == IF a.ends[s] = Null THEN Both(x, a.status) ELSE WithEnd(a, s, x, PushStatus(s))
<1>1. UNCHANGED <<link, data, haz, free, kept, retired, op>>  BY DEF PushCas, Reclaim
<1>2. /\ pc[t] = "push" /\ m_anchor' = new /\ result' = [result EXCEPT ![t] = op[t].val]
      /\ IF a.ends[s] = Null THEN Goto(t, "return") /\ UNCHANGED loc
         ELSE Stabilizing(t, new, "return") /\ Goto(t, "stabilize0")
  BY DEF PushCas, Side
<1>3. Chain(h, n, s) /\ Apart(h, n) /\ \A u \in Threads : Knows(u, h, n, s)  BY DEF Good
<1>4. PushKnows(t)  BY <1>2, <1>3 DEF Knows
<1>5. Pending(t) /\ Owns(t) /\ op[t].kind = "push"  BY <1>2, <1>4 DEF PushKnows, Pending, Owns
<1>6. Held(t) = {x}  BY <1>5 DEF Held
<1>7. x \in Nodes \ (free \cup retired) /\ \A k \in 1 .. n : h[k] # x  BY <1>3, <1>6 DEF Apart
<1>8. data[x] = op[t].val /\ op[t].val \in Values
  <2>1. data[x] = op[t].val  BY <1>3, <1>5 DEF Knows
  <2>2. op[t] \in Operations  BY AtThread
  <2> QED  BY <1>5, <2>1, <2>2 DEF Operations, Push, Pop
<1>9. s \in Sides /\ (a.ends[s] = Null <=> n = 0)  BY <1>3, AtThread, Ends
<1>10. a.status = "STABLE" /\ (n > 0 => link[x][Other(s)].ptr = a.ends[s])
  <2>1. n = 0 => a.status = "STABLE"  BY <1>3 DEF Chain, Both, Anchor
  <2> QED  BY <1>4, <1>9, <2>1 DEF PushKnows
<1> DEFINE q == IF new.status = "LPUSH" THEN "L" ELSE "R"
           f == IF n = 0 THEN loc[t]
                ELSE [NoLocals EXCEPT !.node = x, !.a = new, !.back = "return", !.side = q]
           l == IF n = 0 THEN "return" ELSE "stabilize0"
<1>11. pc' = [pc EXCEPT ![t] = l] /\ loc' = [loc EXCEPT ![t] = f]
  <2>1. CASE n = 0
    <3>1. [loc EXCEPT ![t] = loc[t]] = loc  BY DEF Types
    <3> QED  BY <1>2, <1>9, <2>1, <3>1 DEF Goto
  <2>2. CASE n # 0
    <3>1. Stabilizing(t, new, "return") /\ Goto(t, "stabilize0")  BY <1>2, <1>9, <2>2
    <3> QED  BY <2>2, <3>1 DEF Goto, Stabilizing
  <2> QED  BY <2>1, <2>2
<1>12. new \in Anchors /\ (n > 0 => new.status = PushStatus(s) /\ q = s)
  <2>1. a \in Anchors /\ x \in NodeOrNull  BY <1>7 DEF Types, NodeOrNull
  <2>2. PushStatus(s) \in {"LPUSH", "RPUSH"}  BY <1>9, TwoSides
  <2>3. Both(x, a.status) \in Anchors /\ WithEnd(a, s, x, PushStatus(s)) \in Anchors
    BY <2>1, <2>2 DEF Both, WithEnd, Anchor, Anchors
  <2>4. n > 0 => new.status = PushStatus(s)  BY <1>9 DEF WithEnd, Anchor
  <2>5. PushStatus(s) = "LPUSH" <=> s = "L"  BY <1>9 DEF PushStatus
  <2> QED  BY <1>9, <2>3, <2>4, <2>5 DEF Sides
<1>13. m_anchor' = IF n = 0 THEN Both(x, "STABLE") ELSE WithEnd(m_anchor, s, x, PushStatus(s))
  BY <1>2, <1>9, <1>10
<1>14. m_anchor'.status = "STABLE" \/ \E r \in Sides : m_anchor'.ends[r] = x
  <2>1. n = 0 => m_anchor'.status = "STABLE"  BY <1>13 DEF Both, Anchor
  <2>2. n # 0 => m_anchor'.ends[s] = x  BY <1>9, <1>13 DEF WithEnd, Anchor, Types, Anchors
  <2> QED  BY <1>9, <2>1, <2>2
<1>15. Chain(Pushed(x, h, n), n + 1, s)'
  <2>1. m_anchor \in Anchors /\ link' = link  BY <1>1 DEF Types
  <2> QED  BY <1>3, <1>7, <1>9, <1>10, <1>13, <2>1, PushedChain
<1>16. f \in Frames /\ (n > 0 => f.a = new /\ f.back = "return" /\ f.side = s)
  <2>1. loc[t] \in Frames  BY AtThread
  <2>2. NoLocals \in Frames
    BY DEF NoLocals, Frames, Both, Anchor, Anchors, NodeOrNull, Ptr, Links, Sides
  <2>3. q \in Sides /\ x \in NodeOrNull  BY <1>7 DEF Sides, NodeOrNull
  <2>4. new \in Anchors /\ (n > 0 => q = s)  BY <1>12
  <2> HIDE DEF q, new
  <2> DEFINE e == [NoLocals EXCEPT !.node = x, !.a = new, !.back = "return", !.side = q]
  <2>5. e \in Frames /\ e.a = new /\ e.back = "return" /\ e.side = q
    BY <2>2, <2>3, <2>4 DEF Frames
  <2>6. IF n = 0 THEN f = loc[t] ELSE f = e  OBVIOUS
  <2> HIDE DEF e, f
  <2> QED  BY <2>1, <2>4, <2>5, <2>6
<1>17. l \in {"return", "stabilize0"} /\ (l = "stabilize0" <=> n # 0)  OBVIOUS
<1> HIDE DEF f, l, new, q
<1>18. pc'[t] = l /\ loc'[t] = f /\ \A u \in Threads \ {t} : pc'[u] = pc[u] /\ loc'[u] = loc[u]
                                                        /\ result'[u] = result[u]
  BY <1>2, <1>11 DEF Types
<1>19. Types'
  <2>1. l \in Places  BY <1>17 DEF Places, Reserving
  <2> QED  BY <1>1, <1>2, <1>8, <1>11, <1>12, <1>16, <2>1 DEF Types
<1>20. ~Pending(t)' /\ ~Owns(t)' /\ Held(t)' = {}
  <2>1. l # "return" => f.back = "return"  BY <1>16, <1>17
  <2>2. ~Pending(t)'  BY <1>17, <1>18, <2>1 DEF Pending
  <2> QED  BY <1>17, <1>18, <2>2 DEF Owns, Held
<1>21. \A u \in Threads \ {t} : (Owns(u)' <=> Owns(u)) /\ Held(u)' = Held(u)
  BY <1>1, <1>18 DEF Owns, Pending, Held
<1>b. x \in Nodes  BY <1>7
<1>c. /\ n + 1 \in Nat /\ Pushed(x, h, n) \in [1 .. (n + 1) -> Nodes]
      /\ Pushed(x, h, n)[1] = x
      /\ \A k \in 1 .. n : Pushed(x, h, n)[k + 1] = h[k]
      /\ \A k \in 1 .. (n + 1) : k = 1 \/ (k - 1 \in 1 .. n /\ Pushed(x, h, n)[k] = h[k - 1])
  BY <1>b, PushedAt
<1>22. PICK g : g = Pushed(x, h, n)  OBVIOUS
<1>23. PICK m \in Nat : m = n + 1  OBVIOUS
<1>24. /\ g \in [1 .. m -> Nodes] /\ g[1] = x
       /\ \A k \in 1 .. m : k = 1 \/ (k - 1 \in 1 .. n /\ g[k] = h[k - 1])
  BY <1>c, <1>22, <1>23
<1>25. ASSUME NEW u \in Threads \ {t} PROVE Knows(u, g, m, s)'
  <2>1. Unmoved(u)  BY <1>1, <1>18 DEF Unmoved
  <2>2. SafeStays(u, x)
    <3>1. \A v \in Threads : Owns(v)' => Owns(v) /\ loc'[v].node = loc[v].node
      BY <1>18, <1>20, <1>21
    <3> QED  BY <1>1, <1>5, <3>1, SafeStep
  <2>3. Shifted(g, m, h, n, -1, x)
    <3>1. \A k \in 1 .. m : k + (-1) = k - 1  OBVIOUS
    <3>2. \A k \in 2 .. m : k \in 1 .. m /\ k # 1  OBVIOUS
    <3> QED  BY <1>7, <1>24, <3>1, <3>2 DEF Shifted
  <2>4. link' = link /\ data' = data /\ -1 \in Int  BY <1>1
  <2> QED  BY <1>3, <1>9, <1>10, <1>14, <2>1, <2>2, <2>3, <2>4, MovedKnow
<1>26. Knows(t, g, m, s)'
  <2>1. l = "stabilize0" => StabKnows(t, g, m)'
    BY <1>1, <1>5, <1>12, <1>16, <1>17, <1>18 DEF StabKnows, Checked
  <2> QED  BY <1>17, <1>18, <1>20, <2>1 DEF Knows, PopPlaces, Reserving, Checked
<1>27. Apart(g, m)'
  <2>1. \A k \in 1 .. m : g[k] = x \/ \E j \in 1 .. n : g[k] = h[j]  BY <1>24
  <2>2. \A k \in 1 .. m : g[k] \notin free' \cup retired' /\ data'[g[k]] \in Values
    BY <1>1, <1>3, <1>7, <1>8, <2>1 DEF Apart
  <2>3. \A u \in Threads \ {t} : x \notin Held(u)  BY <1>3, <1>6 DEF Apart
  <2>4. ASSUME NEW u \in Threads, NEW y \in Held(u)'
        PROVE  y \in Nodes \ (free' \cup retired') /\ \A k \in 1 .. m : g[k] # y
    <3>1. u # t /\ y \in Held(u)  BY <1>20, <1>21, <2>4
    <3>2. y # x /\ y \in Nodes \ (free \cup retired) /\ \A k \in 1 .. n : h[k] # y
      BY <1>3, <2>3, <3>1 DEF Apart
    <3> QED  BY <1>1, <2>1, <3>2
  <2>5. \A u \in Threads : Held(u)' \subseteq Held(u)  BY <1>20, <1>21
  <2>6. \A u, v \in Threads : u # v => Held(u)' \cap Held(v)' = {}  BY <1>3, <2>5 DEF Apart
  <2> QED  BY <1>1, <1>3, <2>2, <2>4, <2>6 DEF Apart
<1>28. Good(g, m, s)'
  <2>1. Chain(g, m, s)'  BY <1>15, <1>22, <1>23
  <2> QED  BY <2>1, <1>25, <1>26, <1>27 DEF Good
<1>29. Good(Pushed(x, h, n), n + 1, s)'  BY <1>22, <1>23, <1>28
<1>30. pc'[t] \in {"return", "stabilize0"}  BY <1>17, <1>18
<1> QED  BY <1>1, <1>2, <1>5, <1>7, <1>8, <1>19, <1>20, <1>29, <1>30

\* h without its first node.
Popped(h, n) == [k \in 1 .. (n - 1) |-> h[k + 1]]

\* Its nodes are those of h, one place earlier.
LEMMA PoppedAt ==
  ASSUME NEW n \in Nat, NEW h \in [1 .. n -> Nodes], n > 0
  PROVE  /\ n - 1 \in Nat /\ Popped(h, n) \in [1 .. (n - 1) -> Nodes]
         /\ \A k \in 1 .. (n - 1) : k + 1 \in 2 .. n /\ k + 1 \in 1 .. n /\ Popped(h, n)[k] = h[k + 1]
<1>1. n - 1 \in Nat  OBVIOUS
<1>2. \A k \in 1 .. (n - 1) : k + 1 \in 2 .. n /\ k + 1 \in 1 .. n  OBVIOUS
<1>3. Popped(h, n) \in [1 .. (n - 1) -> Nodes]  BY <1>2 DEF Popped
<1> QED  BY <1>1, <1>2, <1>3 DEF Popped

\* The chain without its first node.
LEMMA PoppedChain ==
  ASSUME ProofAssumption, NEW n \in Nat, NEW h \in [1 .. n -> Nodes], NEW s \in Sides, Chain(h, n, s),
         n > 0, link' = link, m_anchor \in Anchors, m_anchor.status = "STABLE",
         m_anchor' = IF n = 1 THEN Both(Null, "STABLE") ELSE WithEnd(m_anchor, s, h[2], "STABLE")
  PROVE  Chain(Popped(h, n), n - 1, s)'
<1>0. /\ n - 1 \in Nat /\ Popped(h, n) \in [1 .. (n - 1) -> Nodes]
      /\ \A k \in 1 .. (n - 1) : k + 1 \in 2 .. n /\ k + 1 \in 1 .. n /\ Popped(h, n)[k] = h[k + 1]
  BY PoppedAt
<1>1. PICK g : g = Popped(h, n)  OBVIOUS
<1>2. PICK m \in Nat : m = n - 1  BY <1>0
<1>3. \A k \in 1 .. m : k + 1 \in 2 .. n /\ k + 1 \in 1 .. n /\ g[k] = h[k + 1]
  BY <1>0, <1>1, <1>2
<1>4. \A i, j \in 1 .. m : g[i] = g[j] => i = j
  <2> SUFFICES ASSUME NEW i \in 1 .. m, NEW j \in 1 .. m, g[i] = g[j] PROVE i = j  OBVIOUS
  <2>1. i + 1 = j + 1  BY <1>3 DEF Chain
  <2> QED  BY <2>1
<1>5. Other(s) \in Sides /\ Other(s) # s  BY TwoSides
<1>6. m > 0 => m_anchor'.ends[s] = g[1] /\ m_anchor'.ends[Other(s)] = g[m] /\ m_anchor'.status = "STABLE"
  <2>1. SUFFICES ASSUME m > 0
                 PROVE m_anchor'.ends[s] = g[1] /\ m_anchor'.ends[Other(s)] = g[m]
                       /\ m_anchor'.status = "STABLE"
    OBVIOUS
  <2>2. 1 \in 1 .. m /\ m \in 1 .. m /\ 1 + 1 = 2 /\ m + 1 = n /\ n # 1  BY <1>2, <2>1
  <2>3. g[1] = h[2] /\ g[m] = h[n]  BY <1>3, <2>2
  <2>4. m_anchor' = WithEnd(m_anchor, s, h[2], "STABLE") /\ m_anchor.ends[Other(s)] = h[n]
    BY <2>2 DEF Chain
  <2> QED  BY <1>5, <2>3, <2>4 DEF WithEnd, Anchor, Anchors
<1>7. m = 0 => m_anchor' = Both(Null, "STABLE")  BY <1>2
<1>8. ASSUME NEW k \in 2 .. m PROVE link[g[k]][s].ptr = g[k - 1]
  <2>1. k \in 1 .. m /\ k - 1 \in 1 .. m /\ k + 1 \in 2 .. n /\ (k - 1) + 1 = (k + 1) - 1
    BY <1>2, <1>8
  <2>2. g[k] = h[k + 1] /\ g[k - 1] = h[(k + 1) - 1]  BY <1>3, <2>1
  <2>3. "STABLE" # PushStatus(s)  BY TwoSides
  <2>4. link[h[k + 1]][s].ptr = h[(k + 1) - 1]  BY <2>1, <2>3 DEF Chain
  <2> QED  BY <2>2, <2>4
<1>9. ASSUME NEW k \in 1 .. (m - 1) PROVE link[g[k]][Other(s)].ptr = g[k + 1]
  <2>1. k \in 1 .. m /\ k + 1 \in 1 .. m /\ k + 1 \in 1 .. (n - 1)
    BY <1>2, <1>9
  <2>2. g[k] = h[k + 1] /\ g[k + 1] = h[(k + 1) + 1]  BY <1>3, <2>1
  <2>3. "STABLE" # PushStatus(Other(s))  BY <1>5, TwoSides
  <2>4. link[h[k + 1]][Other(s)].ptr = h[(k + 1) + 1]  BY <2>1, <2>3 DEF Chain
  <2> QED  BY <2>2, <2>4
<1>10. Chain(g, m, s)'  BY <1>4, <1>6, <1>7, <1>8, <1>9 DEF Chain
<1> QED  BY <1>1, <1>2, <1>10

\* A pop: its end leaves the deque.
LEMMA PopKeeps ==
  ASSUME ProofAssumption, Types, NEW n \in Nat, NEW h \in [1 .. n -> Nodes], NEW t \in Threads,
         NEW s, s = op[t].side, Good(h, n, s), PopCas(t), m_anchor = loc[t].a
  PROVE  /\ n > 0 /\ Types' /\ Good(Popped(h, n), n - 1, s)'
         /\ op[t].kind = "pop" /\ Pending(t) /\ ~Pending(t)' /\ pc'[t] = "retire"
         /\ result' = [result EXCEPT ![t] = data[h[1]]]
         /\ data' = data /\ op' = op
<1> DEFINE a == m_anchor
           e == a.ends[s]
           o == a.ends[Other(s)]
<1>1. UNCHANGED <<link, data, haz, free, kept, retired, op, loc>>  BY DEF PopCas, Reclaim
<1>2. /\ pc[t] \in {"popLast", "pop"} /\ result' = [result EXCEPT ![t] = data[e]]
      /\ pc' = [pc EXCEPT ![t] = "retire"]
      /\ m_anchor' = IF pc[t] = "popLast" THEN Both(Null, a.status)
                     ELSE WithEnd(a, s, loc[t].prev, a.status)
  BY DEF PopCas, Side, Goto
<1>3. Chain(h, n, s) /\ Apart(h, n) /\ \A u \in Threads : Knows(u, h, n, s)  BY DEF Good
<1>4. PopKnows(t, h, n, s)  BY <1>2, <1>3 DEF Knows, PopPlaces
<1>5. op[t].kind = "pop" /\ Pending(t) /\ ~Owns(t) /\ loc[t].back = "anchor"
  BY <1>2, <1>4 DEF PopKnows, Pending, Owns
<1>6. s \in Sides /\ n > 0 /\ e = h[1]
  <2>1. s \in Sides /\ e # Null  BY <1>4, AtThread DEF PopKnows
  <2>2. n # 0  BY <1>3, <2>1, Ends
  <2> QED  BY <1>3, <2>1, <2>2 DEF Chain
<1>7. a.status = "STABLE"
      /\ m_anchor' = IF n = 1 THEN Both(Null, "STABLE") ELSE WithEnd(a, s, h[2], "STABLE")
  <2>1. CASE pc[t] = "popLast"
    <3>1. a.ends["L"] = a.ends["R"]  BY <1>4, <2>1 DEF PopKnows
    <3>2. n = 1  BY <1>3, <1>6, <3>1, Ends
    <3>3. a.status = "STABLE"  BY <1>3, <3>2 DEF Chain
    <3> QED  BY <1>2, <2>1, <3>2, <3>3
  <2>2. CASE pc[t] = "pop"
    <3>1. a.ends["L"] # a.ends["R"] /\ a.status = "STABLE" /\ Between(h, n, e, o, loc[t].prev)
      BY <1>4, <2>2 DEF PopKnows
    <3>2. n # 1 /\ n > 1
      <4>1. n # 1  BY <1>3, <1>6, <3>1, Ends
      <4> QED  BY <1>6, <4>1
    <3>3. PICK p : p = loc[t].prev  OBVIOUS
    <3>4. Between(h, n, m_anchor.ends[s], m_anchor.ends[Other(s)], p) => p = h[2]
      BY <1>3, <1>6, <3>2, NextToEnd
    <3>5. loc[t].prev = h[2]  BY <3>1, <3>3, <3>4
    <3> QED  BY <1>2, <2>2, <3>1, <3>2, <3>5
  <2> QED  BY <1>2, <2>1, <2>2
<1>8. /\ pc'[t] = "retire"
      /\ \A u \in Threads \ {t} : pc'[u] = pc[u] /\ result'[u] = result[u]
  BY <1>2 DEF Types
<1>9. ~Pending(t)' /\ ~Owns(t)' /\ Held(t)' = {h[1]}
  <2>1. loc'[t].a.ends[op'[t].side] = h[1]  BY <1>1, <1>6
  <2> QED  BY <1>8, <2>1 DEF Pending, Owns, Held
<1>10. \A u \in Threads \ {t} : (Owns(u)' <=> Owns(u)) /\ Held(u)' = Held(u)
  BY <1>1, <1>8 DEF Owns, Pending, Held
<1>11. 1 \in 1 .. n /\ h[1] \in Nodes /\ data[h[1]] \in Values
  <2>1. 1 \in 1 .. n  BY <1>6
  <2> QED  BY <1>3, <2>1 DEF Apart
<1>12. Types'
  <2>1. a \in Anchors  BY DEF Types
  <2>2. n > 1 => h[2] \in NodeOrNull  BY DEF NodeOrNull
  <2>3. n = 1 \/ n > 1  BY <1>6
  <2>4. m_anchor' \in Anchors
    BY <1>6, <1>7, <2>1, <2>2, <2>3 DEF Both, WithEnd, Anchor, Anchors, NodeOrNull
  <2>5. result' \in [Threads -> Values \cup {Empty}]  BY <1>2, <1>6, <1>11 DEF Types
  <2> QED  BY <1>1, <1>2, <2>4, <2>5 DEF Types, Places
<1>13. /\ n - 1 \in Nat /\ Popped(h, n) \in [1 .. (n - 1) -> Nodes]
       /\ \A k \in 1 .. (n - 1) : k + 1 \in 2 .. n /\ k + 1 \in 1 .. n /\ Popped(h, n)[k] = h[k + 1]
  BY <1>6, PoppedAt
<1>14. PICK g : g = Popped(h, n)  OBVIOUS
<1>15. PICK m \in Nat : m = n - 1  BY <1>13
<1>16. g \in [1 .. m -> Nodes] /\ \A k \in 1 .. m : k + 1 \in 2 .. n /\ k + 1 \in 1 .. n /\ g[k] = h[k + 1]
  BY <1>13, <1>14, <1>15
<1>17. Chain(Popped(h, n), n - 1, s)'
  <2>1. m_anchor \in Anchors /\ link' = link  BY <1>1 DEF Types
  <2> QED  BY <1>3, <1>6, <1>7, <2>1, PoppedChain
<1>18. \A k \in 1 .. m : g[k] # h[1]
  <2>1. \A k \in 2 .. n : h[k] # h[1]
    <3>1. \A k \in 2 .. n : k \in 1 .. n /\ k # 1  OBVIOUS
    <3> QED  BY <1>3, <1>11, <3>1 DEF Chain
  <2> QED  BY <1>16, <2>1
<1>19. Null \notin Nodes  BY DEF ProofAssumption, MMDequeAssumption
<1>20. ASSUME NEW u \in Threads \ {t} PROVE Knows(u, g, m, s)'
  <2>1. Unmoved(u)  BY <1>1, <1>8 DEF Unmoved
  <2>2. SafeStays(u, Null)
    <3>1. \A v \in Threads : Owns(v)' => Owns(v) /\ loc'[v].node = loc[v].node
      BY <1>1, <1>9, <1>10
    <3> QED  BY <1>1, <1>19, <3>1, SafeStep
  <2>3. Shifted(g, m, h, n, 1, Null)
    <3>1. \A k \in 2 .. m : k \in 1 .. m  OBVIOUS
    <3> QED  BY <1>16, <1>19, <3>1 DEF Shifted
  <2>4. m_anchor'.status = "STABLE"  BY <1>7 DEF Both, WithEnd, Anchor
  <2>5. link' = link /\ data' = data /\ 1 \in Int  BY <1>1
  <2> QED  BY <1>3, <1>6, <1>7, <2>1, <2>2, <2>3, <2>4, <2>5, MovedKnow
<1>21. Knows(t, g, m, s)'
  BY <1>1, <1>5, <1>8, <1>9 DEF Knows, PopPlaces, Reserving, Checked
<1>22. Apart(g, m)'
  <2>1. \A k \in 1 .. m : \E j \in 1 .. n : g[k] = h[j]  BY <1>16
  <2>2. \A k \in 1 .. m : g[k] \notin free' \cup retired' /\ data'[g[k]] \in Values
    BY <1>1, <1>3, <2>1 DEF Apart
  <2>3. \A u \in Threads \ {t} : h[1] \notin Held(u)  BY <1>3, <1>11 DEF Apart
  <2>4. ASSUME NEW u \in Threads, NEW y \in Held(u)'
        PROVE  y \in Nodes \ (free' \cup retired') /\ \A k \in 1 .. m : g[k] # y
    <3>1. CASE u = t
      <4>1. y = h[1]  BY <1>9, <2>4, <3>1
      <4> QED  BY <1>1, <1>3, <1>11, <1>18, <4>1 DEF Apart
    <3>2. CASE u # t
      <4>1. y \in Held(u)  BY <1>10, <2>4, <3>2
      <4> QED  BY <1>1, <1>3, <2>1, <4>1 DEF Apart
    <3> QED  BY <3>1, <3>2
  <2>5. \A u \in Threads \ {t} : Held(t)' \cap Held(u)' = {}  BY <1>9, <1>10, <2>3
  <2>6. \A u, v \in Threads : u # v => Held(u)' \cap Held(v)' = {}
    BY <1>3, <1>10, <2>5 DEF Apart
  <2> QED  BY <1>1, <1>3, <2>2, <2>4, <2>6 DEF Apart
<1>23. Good(g, m, s)'
  <2>1. Chain(g, m, s)'  BY <1>14, <1>15, <1>17
  <2> QED  BY <2>1, <1>20, <1>21, <1>22 DEF Good
<1>24. Good(Popped(h, n), n - 1, s)'  BY <1>14, <1>15, <1>23
<1> QED  BY <1>1, <1>2, <1>5, <1>6, <1>8, <1>9, <1>12, <1>24

\* The missing link is set: it is the one to the end that was pushed last.
LEMMA StabLinkKeeps ==
  ASSUME ProofAssumption, Types, NEW n \in Nat, NEW h \in [1 .. n -> Nodes], NEW t \in Threads,
         NEW s, s = loc[t].side, Good(h, n, s), StabLink(t), link[loc[t].prev][s] = loc[t].prevNext
  PROVE  Types' /\ Good(h, n, s)' /\ (Pending(t)' <=> Pending(t))
<1> DEFINE a == loc[t].a
<1>1. UNCHANGED <<m_anchor, data, haz, free, kept, retired, loc, op, result>>
  BY DEF StabLink, Reclaim
<1>2. /\ pc[t] = "stabLink" /\ pc' = [pc EXCEPT ![t] = "stable"]
      /\ link' = [link EXCEPT ![loc[t].prev][s] = Ptr(a.ends[s], loc[t].prevNext.sn + 1)]
  BY DEF StabLink, Goto
<1>3. Chain(h, n, s) /\ Apart(h, n) /\ \A u \in Threads : Knows(u, h, n, s)  BY DEF Good
<1>4. StabKnows(t, h, n)  BY <1>2, <1>3 DEF Knows, Checked
<1>5. s \in Sides /\ loc[t].prevNext \in Links /\ loc[t] \in Frames  BY AtThread DEF Frames
<1>6. m_anchor = a
  <2>1. LinkTried(t)  BY <1>2, <1>4 DEF StabKnows
  <2>2. ~(loc[t].prevNext.sn > loc[t].prevNext.sn)  BY <1>5 DEF Links
  <2> QED  BY <1>2, <2>1, <2>2 DEF LinkTried
<1>7. n > 1 /\ a.status = PushStatus(s)
  <2>1. a.status = PushStatus(s)  BY <1>4 DEF StabKnows
  <2>2. m_anchor.status # "STABLE"  BY <1>5, <1>6, <2>1, TwoSides
  <2> QED  BY <1>3, <1>5, <2>1, <2>2, Ends
<1>8. a.ends[s] = h[1] /\ 1 \in 1 .. n /\ 2 \in 1 .. n  BY <1>3, <1>6, <1>7 DEF Chain
<1>9. loc[t].prev = h[2]
  <2>1. Between(h, n, m_anchor.ends[s], m_anchor.ends[Other(s)], loc[t].prev)
    BY <1>2, <1>4, <1>6 DEF StabKnows, Checked
  <2>2. PICK p : p = loc[t].prev  OBVIOUS
  <2>3. Between(h, n, m_anchor.ends[s], m_anchor.ends[Other(s)], p) => p = h[2]
    BY <1>3, <1>5, <1>7, NextToEnd
  <2> QED  BY <2>1, <2>2, <2>3
<1>10. link' = [link EXCEPT ![h[2]][s] = Ptr(h[1], loc[t].prevNext.sn + 1)]
       /\ link[h[2]][s] = loc[t].prevNext
  BY <1>2, <1>8, <1>9
<1>11. h[1] \in Nodes /\ h[2] \in Nodes /\ h[1] # h[2]  BY <1>3, <1>8 DEF Chain
<1>12. /\ link'[h[2]][s].ptr = h[1] /\ link'[h[2]][s].sn = link[h[2]][s].sn + 1
       /\ \A x \in Nodes : \A r \in Sides : x # h[2] \/ r # s => link'[x][r] = link[x][r]
       /\ \A x \in Nodes : x # h[2] => link'[x] = link[x]
  BY <1>5, <1>10, <1>11 DEF Types, Ptr
<1>13. link' \in [Nodes -> [Sides -> Links]]
  <2>1. Ptr(h[1], loc[t].prevNext.sn + 1) \in Links  BY <1>5, <1>11 DEF Ptr, Links, NodeOrNull
  <2> QED  BY <1>5, <1>10, <2>1 DEF Types
<1>14. Types'  BY <1>1, <1>2, <1>13 DEF Types, Places, Checked
<1>15. pc'[t] = "stable" /\ \A u \in Threads \ {t} : pc'[u] = pc[u]  BY <1>2 DEF Types
<1>16. /\ "stable" \in StabPlaces /\ "stable" \notin PopPlaces
       /\ pc[t] \in PopPlaces \cup StabPlaces /\ pc[t] \in {"push"} \cup PopPlaces \cup StabPlaces
  BY <1>2 DEF StabPlaces, PopPlaces, Reserving, Checked
<1>17. \A v \in Threads : Owns(v)' => Owns(v) /\ loc'[v].node = loc[v].node
  BY <1>1, <1>2, <1>16, SameHands
<1>18. StabKnows(t, h, n)'
  <2>1. SafeEnds(t)  BY <1>2, <1>4 DEF StabKnows, Checked
  <2>2. SafeEnds(t)'  BY <1>1, <1>17, <2>1, SameSafeEnds
  <2>3. LinkSet(t)'  BY <1>1, <1>8, <1>9, <1>12 DEF LinkSet
  <2> QED  BY <1>1, <1>2, <1>4, <1>15, <2>2, <2>3 DEF StabKnows, Checked
<1>19. Knows(t, h, n, s)' /\ (Pending(t)' <=> Pending(t)) /\ (Owns(t)' <=> Owns(t)) /\ Held(t)' = Held(t)
  BY <1>1, <1>2, <1>3, <1>16, <1>18, InsideKnows
<1>20. \A u \in Threads : (Owns(u)' <=> Owns(u)) /\ Held(u)' = Held(u)
  <2>1. \A u \in Threads \ {t} : (Owns(u)' <=> Owns(u)) /\ Held(u)' = Held(u)
    BY <1>1, <1>15 DEF Owns, Pending, Held
  <2> QED  BY <1>19, <2>1
<1>21. Null \notin Nodes  BY DEF ProofAssumption, MMDequeAssumption
<1>22. ASSUME NEW u \in Threads \ {t} PROVE Knows(u, h, n, s)'
  <2>1. Unmoved(u) /\ Knows(u, h, n, s)  BY <1>1, <1>3, <1>15 DEF Unmoved
  <2>2. SafeStays(u, Null)  BY <1>1, <1>17, <1>21, SafeStep
  <2>3. Shifted(h, n, h, n, 0, Null)
    <3>1. \A k \in 1 .. n : k + 0 = k  OBVIOUS
    <3>2. \A k \in 2 .. n : k \in 1 .. n  OBVIOUS
    <3> QED  BY <1>21, <3>1, <3>2 DEF Shifted
  <2>4. AnchorStays(u)  BY <1>1 DEF AnchorStays
  <2>5. Owns(u) => data'[loc[u].node] = data[loc[u].node] /\ link'[loc[u].node] = link[loc[u].node]
    <3>1. Owns(u) => loc[u].node \in Nodes /\ loc[u].node # h[2]  BY <1>3, <1>8 DEF Apart, Held
    <3> QED  BY <1>1, <1>12, <3>1
  <2>6. ASSUME pc[u] = "popPrev"
        PROVE  Between(h, n, loc[u].a.ends[op[u].side], loc[u].a.ends[Other(op[u].side)],
                       link'[loc[u].a.ends[op[u].side]][Other(op[u].side)].ptr)
    <3>1. PICK e, o, r : /\ e = loc[u].a.ends[op[u].side] /\ o = loc[u].a.ends[Other(op[u].side)]
                         /\ r = Other(op[u].side)
      OBVIOUS
    <3>2. PopKnows(u, h, n, s)  BY <2>1, <2>6 DEF Knows, PopPlaces
    <3>3. SafeEnds(u) /\ Facing(h, n, s, loc[u].a) /\ Between(h, n, e, o, link[e][r].ptr)
      BY <2>6, <3>1, <3>2 DEF PopKnows
    <3>4. e \in Nodes /\ r \in Sides /\ op[u].side = Other(r)
      <4>1. op[u].side \in Sides  BY AtThread
      <4> QED  BY <3>1, <3>3, <4>1, TwoSides DEF SafeEnds, Safe, Sides
    <3>5. CASE e # h[2] \/ r # s
      <4>1. link'[e][r] = link[e][r]  BY <1>12, <3>4, <3>5
      <4> QED  BY <3>1, <3>3, <4>1
    <3>6. CASE e = h[2] /\ r = s
      <4>1. \A x, y \in 1 .. n : h[x] = o /\ h[y] = e => x < y
        BY <3>1, <3>3, <3>4, <3>6 DEF Facing
      <4>2. \A x \in 1 .. n : h[x] = e => x = 2  BY <1>3, <1>8, <3>6 DEF Chain
      <4>3. Between(h, n, e, o, h[1])
        <5> SUFFICES ASSUME NEW x \in 1 .. n, NEW y \in 1 .. n, h[x] = e, h[y] = o
                     PROVE  (x < y => h[1] = h[x + 1]) /\ (y < x => h[1] = h[x - 1])
          BY DEF Between
        <5>1. x = 2 /\ y < x  BY <4>1, <4>2
        <5>2. x - 1 = 1 /\ ~(x < y)  BY <5>1
        <5> QED  BY <5>2
      <4>4. link'[e][r].ptr = h[1]  BY <1>12, <3>6
      <4> QED  BY <3>1, <4>3, <4>4
    <3> QED  BY <3>5, <3>6
  <2>7. ASSUME pc[u] \in {"stabCheck3", "stabLink"} PROVE LinkTried(u)'
    <3>1. StabKnows(u, h, n)  BY <2>1, <2>7 DEF Knows, Checked
    <3>2. LinkTried(u) /\ Safe(u, 2, loc[u].prev)  BY <2>7, <3>1 DEF StabKnows
    <3>3. PICK p, r, f : p = loc[u].prev /\ r = loc[u].side /\ f = loc[u].prevNext  OBVIOUS
    <3>4. p \in Nodes /\ r \in Sides /\ f.sn \in Nat
      <4>1. loc[u] \in Frames  BY AtThread
      <4> QED  BY <3>2, <3>3, <4>1 DEF Safe, Frames, Links
    <3>5. CASE p # h[2] \/ r # s
      <4>1. link'[p][r] = link[p][r]  BY <1>12, <3>4, <3>5
      <4> QED  BY <1>1, <2>1, <3>2, <3>3, <4>1 DEF LinkTried, Unmoved
    <3>6. CASE p = h[2] /\ r = s
      <4>1. link[p][r].sn \in Nat  BY <3>4 DEF Types, Links
      <4>2. link[p][r].sn = f.sn \/ link[p][r].sn > f.sn  BY <3>2, <3>3 DEF LinkTried
      <4>3. link'[p][r].sn = link[p][r].sn + 1  BY <1>12, <3>6
      <4>4. link'[p][r].sn > f.sn  BY <3>4, <4>1, <4>2, <4>3
      <4> QED  BY <2>1, <3>2, <3>3, <4>4 DEF LinkTried, Unmoved
    <3> QED  BY <3>5, <3>6
  <2>8. ASSUME pc[u] = "stable" PROVE LinkSet(u)'
    <3>1. StabKnows(u, h, n) /\ LinkSet(u)  BY <2>1, <2>8 DEF Knows, Checked, StabKnows
    <3>2. SUFFICES ASSUME m_anchor = loc[u].a
                   PROVE  link'[loc[u].prev][loc[u].side].ptr = loc[u].a.ends[loc[u].side]
      BY <1>1, <2>1 DEF LinkSet, Unmoved
    <3>3. PICK k \in 1 .. n : loc[u].prev = h[k]
      BY <1>3, <1>5, <2>8, <3>1, <3>2, PrevInDeque DEF Checked
    <3>4. loc[u].prev \in Nodes /\ loc[u].side \in Sides  BY <3>3, AtThread
    <3>5. link[loc[u].prev][loc[u].side].ptr = loc[u].a.ends[loc[u].side]
      BY <3>1, <3>2 DEF LinkSet
    <3>6. CASE loc[u].prev # h[2] \/ loc[u].side # s  BY <1>12, <3>4, <3>5, <3>6
    <3>7. CASE loc[u].prev = h[2] /\ loc[u].side = s
      BY <1>6, <1>8, <1>12, <3>2, <3>7
    <3> QED  BY <3>6, <3>7
  <2>9. LinksStay(u, h, n)  BY <2>5, <2>6, <2>7, <2>8 DEF LinksStay
  <2>10. 0 \in Int  OBVIOUS
  <2> QED  BY <1>5, <2>1, <2>2, <2>3, <2>4, <2>9, <2>10, OthersKnow
<1>23. Chain(h, n, s)'
  <2>1. ASSUME NEW k \in 2 .. n
        PROVE  (k = 2 /\ m_anchor.status = PushStatus(s)) \/ link'[h[k]][s].ptr = h[k - 1]
    <3>1. CASE k = 2  BY <1>6, <1>7, <3>1
    <3>2. CASE k # 2
      <4>1. k \in 1 .. n /\ h[k] # h[2]  BY <1>3, <1>8, <3>2 DEF Chain
      <4>2. link'[h[k]] = link[h[k]]  BY <1>12, <4>1
      <4> QED  BY <1>3, <3>2, <4>2 DEF Chain
    <3> QED  BY <3>1, <3>2
  <2>2. ASSUME NEW k \in 1 .. (n - 1)
        PROVE  \/ k = n - 1 /\ m_anchor.status = PushStatus(Other(s))
               \/ link'[h[k]][Other(s)].ptr = h[k + 1]
    <3>1. k \in 1 .. n /\ Other(s) \in Sides /\ Other(s) # s  BY <1>5, TwoSides
    <3>2. link'[h[k]][Other(s)] = link[h[k]][Other(s)]  BY <1>12, <3>1
    <3> QED  BY <1>3, <3>2 DEF Chain
  <2> QED  BY <1>1, <1>3, <2>1, <2>2 DEF Chain
<1>24. Apart(h, n)'  BY <1>1, <1>3, <1>20 DEF Apart
<1> QED  BY <1>14, <1>19, <1>22, <1>23, <1>24 DEF Good

\* The anchor becomes stable: the link to the end that was pushed last is there.
LEMMA StableKeeps ==
  ASSUME ProofAssumption, Types, NEW n \in Nat, NEW h \in [1 .. n -> Nodes], NEW t \in Threads,
         NEW s, s = loc[t].side, Good(h, n, s), Stable(t), Same(t)
  PROVE  Types' /\ Good(h, n, s)' /\ (Pending(t)' <=> Pending(t))
<1> DEFINE a == loc[t].a
<1>1. UNCHANGED <<link, data, free, retired, loc, op, result>>  BY DEF Stable
<1>2. /\ pc[t] = "stable" /\ pc' = [pc EXCEPT ![t] = loc[t].back]
      /\ m_anchor' = [m_anchor EXCEPT !.status = "STABLE"]
      /\ haz' = [haz EXCEPT ![t] = [i \in 0 .. 2 |-> Null]]
      /\ kept' = [x \in Nodes |-> kept[x] \ ({t} \X (0 .. 2))]
  BY DEF Stable, Goto
<1>3. Chain(h, n, s) /\ Apart(h, n) /\ \A u \in Threads : Knows(u, h, n, s)  BY DEF Good
<1>4. StabKnows(t, h, n)  BY <1>2, <1>3 DEF Knows, Checked
<1>5. s \in Sides /\ loc[t].back \in {"anchor", "return"}  BY AtThread
<1>6. m_anchor = a  BY DEF Same
<1>7. n > 1 /\ a.status = PushStatus(s) /\ m_anchor.status # PushStatus(Other(s))
  <2>1. a.status = PushStatus(s)  BY <1>4 DEF StabKnows
  <2>2. m_anchor.status # "STABLE" /\ m_anchor.status # PushStatus(Other(s))
    BY <1>5, <1>6, <2>1, TwoSides
  <2> QED  BY <1>3, <1>5, <2>1, <2>2, Ends
<1>8. a.ends[s] = h[1] /\ 1 \in 1 .. n /\ 2 \in 1 .. n  BY <1>3, <1>6, <1>7 DEF Chain
<1>9. link[h[2]][s].ptr = h[1]
  <2>1. Between(h, n, m_anchor.ends[s], m_anchor.ends[Other(s)], loc[t].prev)
    BY <1>2, <1>4, <1>6 DEF StabKnows, Checked
  <2>2. PICK p : p = loc[t].prev  OBVIOUS
  <2>3. Between(h, n, m_anchor.ends[s], m_anchor.ends[Other(s)], p) => p = h[2]
    BY <1>3, <1>5, <1>7, NextToEnd
  <2>4. LinkSet(t)  BY <1>2, <1>4 DEF StabKnows
  <2> QED  BY <1>6, <1>8, <2>1, <2>2, <2>3, <2>4 DEF LinkSet
<1>10. m_anchor'.ends = m_anchor.ends /\ m_anchor'.status = "STABLE" /\ m_anchor' \in Anchors
  BY <1>2 DEF Types, Anchors
<1>11. /\ haz' \in [Threads -> [0 .. 2 -> NodeOrNull]]
       /\ kept' \in [Nodes -> SUBSET (Threads \X (0 .. 2))]
       /\ \A u \in Threads \ {t} : haz'[u] = haz[u]
       /\ \A u \in Threads \ {t} : \A j \in 0 .. 2 : \A y \in Nodes :
            <<u, j>> \in kept[y] => <<u, j>> \in kept'[y]
  <2>1. [i \in 0 .. 2 |-> Null] \in [0 .. 2 -> NodeOrNull]  BY DEF NodeOrNull
  <2>2. haz' \in [Threads -> [0 .. 2 -> NodeOrNull]] /\ \A u \in Threads \ {t} : haz'[u] = haz[u]
    BY <1>2, <2>1 DEF Types
  <2>3. kept' \in [Nodes -> SUBSET (Threads \X (0 .. 2))]  BY <1>2 DEF Types
  <2> QED  BY <1>2, <2>2, <2>3
<1>12. Types'  BY <1>1, <1>2, <1>5, <1>10, <1>11 DEF Types, Places
<1>13. /\ loc[t].back \notin StabPlaces /\ loc[t].back \notin PopPlaces
       /\ pc[t] \in {"push"} \cup PopPlaces \cup StabPlaces
  BY <1>2, <1>5 DEF StabPlaces, PopPlaces, Reserving, Checked
<1>14. Knows(t, h, n, s)' /\ (Pending(t)' <=> Pending(t)) /\ (Owns(t)' <=> Owns(t)) /\ Held(t)' = Held(t)
  BY <1>1, <1>2, <1>3, <1>13, InsideKnows
<1>15. \A u \in Threads \ {t} : pc'[u] = pc[u]  BY <1>2 DEF Types
<1>16. \A u \in Threads : (Owns(u)' <=> Owns(u)) /\ Held(u)' = Held(u)
  <2>1. \A u \in Threads \ {t} : (Owns(u)' <=> Owns(u)) /\ Held(u)' = Held(u)
    BY <1>1, <1>15 DEF Owns, Pending, Held
  <2> QED  BY <1>14, <2>1
<1>17. Null \notin Nodes  BY DEF ProofAssumption, MMDequeAssumption
<1>18. ASSUME NEW u \in Threads \ {t} PROVE Knows(u, h, n, s)'
  <2>1. Unmoved(u) /\ Knows(u, h, n, s)  BY <1>1, <1>3, <1>11, <1>15 DEF Unmoved
  <2>2. SafeStays(u, Null)
    <3>1. \A v \in Threads : Owns(v)' => Owns(v) /\ loc'[v].node = loc[v].node  BY <1>1, <1>16
    <3> QED  BY <1>1, <1>11, <1>17, <3>1, SafeStep
  <2>3. Shifted(h, n, h, n, 0, Null)
    <3>1. \A k \in 1 .. n : k + 0 = k  OBVIOUS
    <3>2. \A k \in 2 .. n : k \in 1 .. n  OBVIOUS
    <3> QED  BY <1>17, <3>1, <3>2 DEF Shifted
  <2>4. pc[u] \in Checked => m_anchor' # loc[u].a
    <3>1. SUFFICES ASSUME pc[u] \in Checked PROVE m_anchor' # loc[u].a  OBVIOUS
    <3>2. StabKnows(u, h, n)  BY <2>1, <3>1 DEF Knows
    <3>3. loc[u].a.status # "STABLE"  BY <3>2, TwoSides, AtThread DEF StabKnows
    <3> QED  BY <1>10, <3>3
  <2>5. AnchorStays(u)  BY <2>4 DEF AnchorStays
  <2>6. ASSUME pc[u] = "popPrev"
        PROVE  Between(h, n, loc[u].a.ends[op[u].side], loc[u].a.ends[Other(op[u].side)],
                       link'[loc[u].a.ends[op[u].side]][Other(op[u].side)].ptr)
    BY <1>1, <2>1, <2>6 DEF Knows, PopPlaces, PopKnows
  <2>7. ASSUME pc[u] \in {"stabCheck3", "stabLink"} PROVE LinkTried(u)'
    <3>1. LinkTried(u) /\ StabKnows(u, h, n)  BY <2>1, <2>7 DEF Knows, Checked, StabKnows
    <3>2. CASE m_anchor # loc[u].a \/ pc[u] = "stabCheck3"
      BY <1>1, <2>1, <3>1, <3>2 DEF LinkTried, Unmoved
    <3>3. CASE m_anchor = loc[u].a
      <4>1. PICK r : r = loc[u].side  OBVIOUS
      <4>2. r \in Sides /\ loc[u].a.status = PushStatus(r)  BY <3>1, <4>1, AtThread DEF StabKnows
      <4>3. r = s  BY <1>5, <1>7, <3>3, <4>2, TwoSides
      <4>4. Between(h, n, m_anchor.ends[s], m_anchor.ends[Other(s)], loc[u].prev)
        BY <2>7, <3>1, <3>3, <4>1, <4>3 DEF StabKnows, Checked
      <4>5. PICK p : p = loc[u].prev  OBVIOUS
      <4>6. Between(h, n, m_anchor.ends[s], m_anchor.ends[Other(s)], p) => p = h[2]
        BY <1>3, <1>5, <1>7, NextToEnd
      <4>7. link[loc[u].prev][loc[u].side].ptr = loc[u].a.ends[loc[u].side]
        BY <1>6, <1>8, <1>9, <3>3, <4>1, <4>3, <4>4, <4>5, <4>6
      <4>8. link[loc[u].prev][loc[u].side].sn > loc[u].prevNext.sn
            /\ loc[u].prevNext.ptr # loc[u].a.ends[loc[u].side]
        BY <3>1, <4>7 DEF LinkTried
      <4> QED  BY <1>1, <2>1, <4>8 DEF LinkTried, Unmoved
    <3> QED  BY <3>2, <3>3
  <2>8. ASSUME pc[u] = "stable" PROVE LinkSet(u)'
    <3>1. m_anchor' # loc'[u].a  BY <2>1, <2>4, <2>8 DEF Unmoved, Checked
    <3> QED  BY <3>1 DEF LinkSet
  <2>9. LinksStay(u, h, n)  BY <1>1, <2>6, <2>7, <2>8 DEF LinksStay
  <2>10. 0 \in Int  OBVIOUS
  <2> QED  BY <1>5, <2>1, <2>2, <2>3, <2>5, <2>9, <2>10, OthersKnow
<1>19. Chain(h, n, s)'
  <2>1. ASSUME NEW k \in 2 .. n PROVE link[h[k]][s].ptr = h[k - 1]
    <3>1. CASE k = 2
      <4>1. k - 1 = 1  BY <3>1
      <4> QED  BY <1>9, <3>1, <4>1
    <3>2. CASE k # 2  BY <1>3, <3>2 DEF Chain
    <3> QED  BY <3>1, <3>2
  <2>2. ASSUME NEW k \in 1 .. (n - 1) PROVE link[h[k]][Other(s)].ptr = h[k + 1]
    BY <1>3, <1>7 DEF Chain
  <2>3. n # 0 /\ n # 1  BY <1>7
  <2>4. m_anchor'.ends[s] = h[1] /\ m_anchor'.ends[Other(s)] = h[n]
    BY <1>3, <1>7, <1>10 DEF Chain
  <2> QED  BY <1>1, <1>3, <2>1, <2>2, <2>3, <2>4 DEF Chain
<1>20. Apart(h, n)'  BY <1>1, <1>3, <1>16 DEF Apart
<1> QED  BY <1>12, <1>14, <1>18, <1>19, <1>20 DEF Good

-----------------------------------------------------------------------------
(* The invariant. *)

\* The empty deque satisfies it.
LEMMA InitInv == ProofAssumption /\ Init => Inv
<1> SUFFICES ASSUME ProofAssumption, Init PROVE Inv  OBVIOUS
<1>1. Types
  <2>1. m_anchor \in Anchors /\ [s \in Sides |-> Ptr(Null, 0)] \in [Sides -> Links]
    BY DEF Init, Both, Anchor, Anchors, NodeOrNull, Ptr, Links
  <2>2. NoLocals \in Frames
    BY DEF NoLocals, Frames, Both, Anchor, Anchors, NodeOrNull, Ptr, Links, Sides
  <2>3. Pop("L") \in Operations  BY DEF Operations, Pop, Sides
  <2>4. [i \in 0 .. 2 |-> Null] \in [0 .. 2 -> NodeOrNull]  BY DEF NodeOrNull
  <2> QED  BY <2>1, <2>2, <2>3, <2>4 DEF Init, Types, Places
<1> DEFINE h == [k \in 1 .. 0 |-> Null]
<1>2. h \in [1 .. 0 -> Nodes] /\ 0 \in Nat /\ "L" \in Sides  BY DEF Sides
<1> HIDE DEF h
<1>3. Chain(h, 0, "L")
  <2>1. m_anchor = Both(Null, "STABLE")  BY DEF Init
  <2>2. 1 .. 0 = {} /\ 2 .. 0 = {} /\ 1 .. (0 - 1) = {}  OBVIOUS
  <2> QED  BY <2>1, <2>2 DEF Chain
<1>4. \A t \in Threads : pc[t] = "idle"  BY DEF Init
<1>5. \A t \in Threads : ~Owns(t) /\ Held(t) = {}  BY <1>4 DEF Owns, Pending, Held
<1>6. Apart(h, 0)
  <2>1. retired = {}  BY DEF Init
  <2> QED  BY <1>5, <2>1 DEF Apart
<1>7. \A t \in Threads : Knows(t, h, 0, "L")
  <2>1. \A t \in Threads : result[t] = Empty  BY DEF Init
  <2> QED  BY <1>4, <1>5, <2>1 DEF Knows, PopPlaces, Reserving, Checked
<1>8. Good(h, 0, "L")  BY <1>3, <1>6, <1>7 DEF Good
<1> QED  BY <1>1, <1>2, <1>8 DEF Inv

\* A step of a thread keeps it.
LEMMA StepInv ==
  ASSUME Inv, NEW t \in Threads, Step(t)
  PROVE  Inv'
<1>1. ProofAssumption /\ Types
      /\ \E s \in Sides : \E n \in Nat : \E h \in [1 .. n -> Nodes] : Good(h, n, s)
  BY DEF Inv
<1>2. ProofAssumption'  BY <1>1 DEF ProofAssumption, MMDequeAssumption
<1>3. \A s \in Sides : \E n \in Nat : \E h \in [1 .. n -> Nodes] : Good(h, n, s)
  BY <1>1, FromSide
<1>4. ASSUME NEW s \in Sides, NEW n \in Nat, NEW h \in [1 .. n -> Nodes], Types', Good(h, n, s)'
      PROVE  Inv'
  BY <1>2, <1>4 DEF Inv
<1>5. op[t].side \in Sides /\ loc[t].side \in Sides  BY <1>1, AtThread
<1>6. CASE PushCas(t) /\ m_anchor = loc[t].a
  <2>1. PICK s \in Sides : s = op[t].side  BY <1>5
  <2>n. PICK n \in Nat : \E h \in [1 .. n -> Nodes] : Good(h, n, s)  BY <1>3
  <2>2. PICK h \in [1 .. n -> Nodes] : Good(h, n, s)  BY <2>n
  <2>3. PICK x : x = loc[t].node  OBVIOUS
  <2>4. x \in Nodes /\ Types' /\ Good(Pushed(x, h, n), n + 1, s)'
    BY <1>1, <1>6, <2>1, <2>2, <2>3, PushKeeps
  <2>5. n + 1 \in Nat /\ Pushed(x, h, n) \in [1 .. (n + 1) -> Nodes]  BY <2>4, PushedAt
  <2>6. PICK g, m : g = Pushed(x, h, n) /\ m = n + 1  OBVIOUS
  <2>7. m \in Nat /\ g \in [1 .. m -> Nodes] /\ Good(g, m, s)'  BY <2>4, <2>5, <2>6
  <2> QED  BY <1>4, <2>4, <2>7
<1>7. CASE PopCas(t) /\ m_anchor = loc[t].a
  <2>1. PICK s \in Sides : s = op[t].side  BY <1>5
  <2>n. PICK n \in Nat : \E h \in [1 .. n -> Nodes] : Good(h, n, s)  BY <1>3
  <2>2. PICK h \in [1 .. n -> Nodes] : Good(h, n, s)  BY <2>n
  <2>3. n > 0 /\ Types' /\ Good(Popped(h, n), n - 1, s)'
    BY <1>1, <1>7, <2>1, <2>2, PopKeeps
  <2>4. n - 1 \in Nat /\ Popped(h, n) \in [1 .. (n - 1) -> Nodes]  BY <2>3, PoppedAt
  <2>5. PICK g, m : g = Popped(h, n) /\ m = n - 1  OBVIOUS
  <2>6. m \in Nat /\ g \in [1 .. m -> Nodes] /\ Good(g, m, s)'  BY <2>3, <2>4, <2>5
  <2> QED  BY <1>4, <2>3, <2>6
<1>8. PICK s \in Sides : s = loc[t].side  BY <1>5
<1>n. PICK n \in Nat : \E h \in [1 .. n -> Nodes] : Good(h, n, s)  BY <1>3
<1>9. PICK h \in [1 .. n -> Nodes] : Good(h, n, s)  BY <1>n
<1>10. CASE ReserveEnds(t)  BY <1>1, <1>4, <1>9, <1>10, ReserveEndsKeeps
<1>11. CASE Recheck(t)  BY <1>1, <1>4, <1>9, <1>11, RecheckKeeps
<1>12. CASE PopPrev(t)  BY <1>1, <1>4, <1>9, <1>12, PopPrevKeeps
<1>13. CASE StabPrev(t)  BY <1>1, <1>4, <1>9, <1>13, StabPrevKeeps
<1>14. CASE ReservePrev(t)  BY <1>1, <1>4, <1>9, <1>14, ReservePrevKeeps
<1>15. CASE StabNext(t)  BY <1>1, <1>4, <1>9, <1>15, StabNextKeeps
<1>16. CASE GetAnchor(t)  BY <1>1, <1>4, <1>9, <1>16, GetAnchorKeeps
<1>17. CASE Retire(t)  BY <1>1, <1>4, <1>9, <1>17, RetireKeeps
<1>18. CASE Return(t)  BY <1>1, <1>4, <1>9, <1>18, ReturnKeeps
<1>19. CASE \/ PushCas(t) /\ m_anchor # loc[t].a
            \/ PopCas(t) /\ m_anchor # loc[t].a
            \/ StabLink(t) /\ link[loc[t].prev][loc[t].side] # loc[t].prevNext
            \/ Stable(t) /\ ~Same(t)
  BY <1>1, <1>4, <1>9, <1>19, FailKeeps
<1>20. CASE StabLink(t) /\ link[loc[t].prev][loc[t].side] = loc[t].prevNext
  BY <1>1, <1>4, <1>8, <1>9, <1>20, StabLinkKeeps
<1>21. CASE Stable(t) /\ Same(t)  BY <1>1, <1>4, <1>8, <1>9, <1>21, StableKeeps
<1> QED
  BY <1>6, <1>7, <1>10, <1>11, <1>12, <1>13, <1>14, <1>15, <1>16, <1>17, <1>18, <1>19, <1>20, <1>21
  DEF Step

\* So does every step.
LEMMA NextInv == Inv /\ [Next]_vars => Inv'
<1> SUFFICES ASSUME Inv, [Next]_vars PROVE Inv'  OBVIOUS
<1>1. PICK s \in Sides, n \in Nat : \E h \in [1 .. n -> Nodes] : Good(h, n, s)  BY DEF Inv
<1>2. PICK h \in [1 .. n -> Nodes] : Good(h, n, s)  BY <1>1
<1>3. ProofAssumption /\ Types /\ ProofAssumption'  BY DEF Inv, ProofAssumption, MMDequeAssumption
<1>4. Types' /\ Good(h, n, s)' => Inv'  BY <1>3 DEF Inv
<1>5. ASSUME NEW t \in Threads, Step(t) PROVE Inv'  BY <1>5, StepInv
<1>6. ASSUME NEW t \in Threads, NEW o \in Operations, Call(t, o) PROVE Inv'
  BY <1>2, <1>3, <1>4, <1>6, CallKeeps
<1>7. ASSUME NEW x \in Nodes, Reuse(x) PROVE Inv'
  BY <1>2, <1>3, <1>4, <1>7, ReuseKeeps
<1>8. CASE UNCHANGED vars
  <2>1. Types'  BY <1>3, <1>8 DEF Types, vars
  <2>2. (Chain(h, n, s) <=> Chain(h, n, s)')  BY <1>8 DEF Chain, vars
  <2>3. \A t \in Threads : (Owns(t)' <=> Owns(t)) /\ Held(t)' = Held(t) /\ Unmoved(t)
    BY <1>8 DEF Owns, Pending, Held, Unmoved, vars
  <2>4. Apart(h, n)'  BY <1>2, <1>8, <2>3 DEF Good, Apart, vars
  <2>5. ASSUME NEW t \in Threads PROVE Knows(t, h, n, s)'
    <3>1. Null \notin Nodes  BY <1>3 DEF ProofAssumption, MMDequeAssumption
    <3>2. SafeStays(t, Null)  BY <1>8, <2>3, <3>1 DEF SafeStays, Safe, vars
    <3>3. Chain(h, n, s) /\ Apart(h, n) /\ Knows(t, h, n, s)  BY <1>2 DEF Good
    <3>4. \A k \in 1 .. n : h[k] # Null  BY <3>1
    <3>5. Owns(t) => loc[t].node # Null  BY <3>1, <3>3 DEF Apart, Held
    <3>6. m_anchor' = m_anchor /\ link' = link /\ data' = data /\ Unmoved(t)  BY <1>8, <2>3 DEF vars
    <3> QED  BY <1>3, <3>2, <3>3, <3>4, <3>5, <3>6, CalmKnow
  <2> QED  BY <1>2, <1>4, <2>1, <2>2, <2>4, <2>5 DEF Good
<1> QED  BY <1>5, <1>6, <1>7, <1>8 DEF Next

\* It holds in every state.
LEMMA Invariance == ProofAssumption /\ Spec => []Inv
<1>1. ProofAssumption /\ Init => Inv  BY InitInv
<1>2. Inv /\ [Next]_vars => Inv'  BY NextInv
<1> QED  BY <1>1, <1>2, PTL DEF Spec

-----------------------------------------------------------------------------
(* Walks along the links. *)

\* A set with 0, and with the successor of each of its members below n, has all of 0 .. n.
LEMMA Counting ==
  ASSUME NEW n \in Nat, NEW S, 0 \in S,
         \A k \in 0 .. (n - 1) : k \in S => k + 1 \in S
  PROVE  \A k \in 0 .. n : k \in S
<1> DEFINE T == { k \in 0 .. n : k \notin S }
<1>1. \A k \in T : k - 1 \in T
  <2> SUFFICES ASSUME NEW k \in T PROVE k - 1 \in T  OBVIOUS
  <2>1. k # 0 /\ k \in 1 .. n /\ k - 1 \in 0 .. (n - 1)  OBVIOUS
  <2>2. (k - 1) + 1 = k  BY <2>1
  <2>3. k - 1 \notin S  BY <2>1, <2>2
  <2> QED  BY <2>1, <2>3
<1>2. SUFFICES ASSUME NEW m \in T PROVE FALSE  OBVIOUS
<1> DEFINE U == { k \in T : k <= m }
           f == [k \in U |-> k - 1]
<1>3. U \subseteq 0 .. m /\ m \in U  OBVIOUS
<1>4. IsFiniteSet(U)
  <2>1. IsFiniteSet(0 .. m)  BY FS_Interval
  <2> QED  BY <1>3, <2>1, FS_Subset
<1>5. IsFiniteSet(U \ {m}) /\ Cardinality(U \ {m}) = Cardinality(U) - 1
  BY <1>3, <1>4, FS_RemoveElement
<1>6. Cardinality(U) \in Nat  BY <1>4, FS_CardinalityType
<1>7. f \in [U -> U \ {m}]
  <2>1. \A k \in U : k - 1 \in U \ {m}  BY <1>1, <1>3
  <2> QED  BY <2>1
<1>8. PICK x, y \in U : x # y /\ f[x] = f[y]
  <2>1. Cardinality(U \ {m}) < Cardinality(U)  BY <1>5, <1>6
  <2> HIDE DEF U, f
  <2> QED  BY <1>4, <1>5, <1>7, <2>1, FS_PigeonHole
<1> QED  BY <1>3, <1>8

\* The nodes of a walk are computed from each other.
Walked(first, last, links, s, g) ==
  [k \in 0 .. Cardinality(Nodes) |->
     IF k = 0 THEN first
     ELSE IF g[k - 1] \in {Null, last} THEN Null ELSE links[g[k - 1]][s].ptr]

\* The recursive function Walk satisfies its equation when some function does.
LEMMA WalkDef ==
  ASSUME NEW first, NEW last, NEW links, NEW s, NEW F, F = Walked(first, last, links, s, F)
  PROVE  Walk(first, last, links, s) = Walked(first, last, links, s, Walk(first, last, links, s))
<1>1. Walk(first, last, links, s) = CHOOSE g : g = Walked(first, last, links, s, g)
  BY DEF Walk, Walked
<1> QED  BY <1>1

\* h[1], ..., h[n] leads from the node first to the node last.
Row(h, n, first, last, links, s) ==
  /\ \A x, y \in 1 .. n : h[x] = h[y] => x = y
  /\ \A x \in 1 .. (n - 1) : links[h[x]][s].ptr = h[x + 1]
  /\ IF n = 0 THEN first = Null ELSE first = h[1] /\ last = h[n]

\* A walk along the nodes of h.
LEMMA Walking ==
  ASSUME ProofAssumption, NEW links, NEW n \in Nat, NEW h \in [1 .. n -> Nodes], NEW s,
         NEW first, NEW last, Row(h, n, first, last, links, s)
  PROVE  \A k \in 0 .. Cardinality(Nodes) :
           Walk(first, last, links, s)[k] = IF k < n THEN h[k + 1] ELSE Null
<1> DEFINE c == Cardinality(Nodes)
           F == [k \in 0 .. c |-> IF k < n THEN h[k + 1] ELSE Null]
<1>1. c \in Nat  BY FS_CardinalityType DEF ProofAssumption
<1>2. \A x \in 1 .. n : h[x] # Null  BY DEF ProofAssumption, MMDequeAssumption
<1>3. \A k \in 1 .. c : F[k] = IF F[k - 1] \in {Null, last} THEN Null ELSE links[F[k - 1]][s].ptr
  <2> SUFFICES ASSUME NEW k \in 1 .. c
               PROVE  F[k] = IF F[k - 1] \in {Null, last} THEN Null ELSE links[F[k - 1]][s].ptr
    OBVIOUS
  <2>1. k - 1 \in 0 .. c /\ k \in 0 .. c /\ (k - 1) + 1 = k  BY <1>1
  <2>2. CASE k < n
    <3>1. k \in 1 .. (n - 1) /\ k \in 1 .. n /\ n \in 1 .. n /\ k # n /\ k - 1 < n  BY <2>2
    <3>2. F[k - 1] = h[k] /\ F[k] = h[k + 1]  BY <2>1, <2>2, <3>1
    <3>3. h[k] # Null /\ h[k] # last  BY <1>2, <3>1 DEF Row
    <3> QED  BY <3>1, <3>2, <3>3 DEF Row
  <2>3. CASE k = n
    <3>1. F[k - 1] = h[n] /\ F[k] = Null  BY <2>1, <2>3
    <3>2. last = h[n]  BY <2>3 DEF Row
    <3> QED  BY <3>1, <3>2
  <2>4. CASE k > n
    BY <2>1, <2>4
  <2> QED  BY <1>1, <2>2, <2>3, <2>4
<1>4. F = Walked(first, last, links, s, F)
  <2>1. F[0] = first
    <3>1. 0 \in 0 .. c /\ 0 + 1 = 1 /\ (0 < n <=> n # 0)  BY <1>1
    <3>2. F[0] = IF 0 < n THEN h[0 + 1] ELSE Null  BY <3>1
    <3> QED  BY <3>1, <3>2 DEF Row
  <2>2. \A k \in 0 .. c : k = 0 \/ k \in 1 .. c  BY <1>1
  <2>3. \A k \in 0 .. c :
          F[k] = IF k = 0 THEN first
                 ELSE IF F[k - 1] \in {Null, last} THEN Null ELSE links[F[k - 1]][s].ptr
    <3> HIDE DEF F
    <3> QED  BY <1>3, <2>1, <2>2
  <2>4. F = [k \in 0 .. c |-> F[k]]  OBVIOUS
  <2> HIDE DEF F
  <2> QED  BY <2>3, <2>4 DEF Walked
<1> HIDE DEF F
<1> DEFINE w == Walk(first, last, links, s)
<1>5. w = Walked(first, last, links, s, w)  BY <1>4, WalkDef
<1> HIDE DEF w
<1> DEFINE S == { k \in 0 .. c : w[k] = F[k] }
<1>6. \A k \in 0 .. c : k \in S
  <2>1. 0 \in S  BY <1>1, <1>4, <1>5 DEF Walked
  <2>2. ASSUME NEW k \in 0 .. (c - 1), k \in S PROVE k + 1 \in S
    <3>1. k + 1 \in 0 .. c /\ k + 1 # 0 /\ (k + 1) - 1 = k  BY <1>1
    <3>2. w[k + 1] = IF w[k] \in {Null, last} THEN Null ELSE links[w[k]][s].ptr
      BY <1>5, <3>1 DEF Walked
    <3>3. F[k + 1] = IF F[k] \in {Null, last} THEN Null ELSE links[F[k]][s].ptr
      BY <1>4, <3>1 DEF Walked
    <3> QED  BY <2>2, <3>1, <3>2, <3>3
  <2> HIDE DEF S
  <2> QED  BY <1>1, <2>1, <2>2, Counting
<1> QED  BY <1>6 DEF F, w

\* The nodes of the walk are those of h.
LEMMA TrailIs ==
  ASSUME ProofAssumption, NEW links, NEW n \in Nat, NEW h \in [1 .. n -> Nodes], NEW s,
         NEW first, NEW last, Row(h, n, first, last, links, s)
  PROVE  Trail(first, last, links, s) = h
<1>0. \A k \in 0 .. Cardinality(Nodes) :
        Walk(first, last, links, s)[k] = IF k < n THEN h[k + 1] ELSE Null
  BY Walking
<1> DEFINE c == Cardinality(Nodes)
           w == Walk(first, last, links, s)
<1>1. c \in Nat /\ n <= c
  <2>1. IsFiniteSet(Nodes)  BY DEF ProofAssumption
  <2>2. h \in Injection(1 .. n, Nodes)  BY DEF Injection, IsInjective, Row
  <2>3. Cardinality(1 .. n) = n  BY FS_Interval
  <2> QED  BY <2>1, <2>2, <2>3, FS_Injection, FS_CardinalityType
<1>2. \A k \in 0 .. c : w[k] = IF k < n THEN h[k + 1] ELSE Null  BY <1>0
<1>3. \A x \in 1 .. n : h[x] # Null  BY DEF ProofAssumption, MMDequeAssumption
<1> HIDE DEF c, w
<1>4. \A k \in 0 .. c : w[k] = Null <=> n <= k
  <2> SUFFICES ASSUME NEW k \in 0 .. c PROVE w[k] = Null <=> n <= k  OBVIOUS
  <2>1. k < n => k + 1 \in 1 .. n  OBVIOUS
  <2>2. k < n <=> ~(n <= k)  BY <1>1
  <2> QED  BY <1>2, <1>3, <2>1, <2>2
<1> DEFINE len == Cardinality({k \in 0 .. c : w[k] # Null})
<1>7. len = n
  <2>1. {k \in 0 .. c : w[k] # Null} = 0 .. (n - 1)
    <3>1. \A k \in 0 .. c : w[k] # Null <=> k \in 0 .. (n - 1)  BY <1>1, <1>4
    <3>2. \A k \in 0 .. (n - 1) : k \in 0 .. c  BY <1>1
    <3> QED  BY <3>1, <3>2
  <2>2. Cardinality(0 .. (n - 1)) = n  BY FS_Interval
  <2> QED  BY <2>1, <2>2
<1>8. Trail(first, last, links, s) = [k \in 1 .. len |-> w[k - 1]]
  BY DEF Trail, len, w, c
<1>9. \A k \in 1 .. n : w[k - 1] = h[k]
  <2> SUFFICES ASSUME NEW k \in 1 .. n PROVE w[k - 1] = h[k]  OBVIOUS
  <2>1. k - 1 \in 0 .. c /\ k - 1 < n /\ (k - 1) + 1 = k  BY <1>1
  <2> QED  BY <1>2, <2>1
<1> HIDE DEF len
<1>10. h = [k \in 1 .. n |-> h[k]]  OBVIOUS
<1> QED  BY <1>7, <1>8, <1>9, <1>10

\* From side s, the links lead along the whole deque, unless its other end is unstable.
LEMMA PathIs ==
  ASSUME ProofAssumption, NEW n \in Nat, NEW h \in [1 .. n -> Nodes], NEW s \in Sides,
         Chain(h, n, s), m_anchor.status # PushStatus(Other(s))
  PROVE  Path(Other(s)) = h
<1>1. Other(Other(s)) = s  BY TwoSides
<1>2. Row(h, n, m_anchor.ends[s], m_anchor.ends[Other(s)], link, Other(s))
  <2>1. IF n = 0 THEN m_anchor.ends[s] = Null
        ELSE m_anchor.ends[s] = h[1] /\ m_anchor.ends[Other(s)] = h[n]
    BY Ends DEF Chain
  <2> QED  BY <2>1 DEF Chain, Row
<1> QED  BY <1>1, <1>2, TrailIs DEF Path

\* Either way, when there is no unstable end.
LEMMA PathsAre ==
  ASSUME ProofAssumption, NEW n \in Nat, NEW h \in [1 .. n -> Nodes], Chain(h, n, "L")
  PROVE  /\ m_anchor.status # "RPUSH" => Path("R") = h
         /\ m_anchor.status # "LPUSH" => Path("L") = Rev(h, n)
         /\ Reverse(Rev(h, n)) = h
<1>1. "L" \in Sides /\ "R" \in Sides /\ Other("L") = "R" /\ Other("R") = "L"
      /\ PushStatus("L") = "LPUSH" /\ PushStatus("R") = "RPUSH"
  BY DEF Sides, Other, PushStatus
<1>2. m_anchor.status # "RPUSH" => Path("R") = h  BY <1>1, PathIs
<1>3. m_anchor.status # "LPUSH" => Path("L") = Rev(h, n)
  <2>1. Chain(Rev(h, n), n, "R")  BY <1>1, FlipChain
  <2>2. Rev(h, n) \in [1 .. n -> Nodes]  BY RevAt
  <2> QED  BY <1>1, <2>1, <2>2, PathIs
<1>4. Reverse(Rev(h, n)) = h
  <2> DEFINE g == Rev(h, n)
  <2>1. g \in [1 .. n -> Nodes] /\ \A k \in 1 .. n : h[k] = g[n + 1 - k]  BY RevAt
  <2>2. g \in Seq(Nodes)  BY <2>1, SeqDef
  <2>3. Len(g) = n
    <3>1. DOMAIN g = 1 .. Len(g) /\ Len(g) \in Nat /\ DOMAIN g = 1 .. n
      BY <2>1, <2>2, LenProperties
    <3>2. PICK m \in Nat : m = Len(g)  BY <3>1
    <3>3. 1 .. m = 1 .. n  BY <3>1, <3>2
    <3>4. m = n  BY <3>3
    <3> QED  BY <3>2, <3>4
  <2> HIDE DEF g
  <2>4. \A k \in 1 .. n : (n - k) + 1 = n + 1 - k  OBVIOUS
  <2>5. \A k \in 1 .. n : g[(n - k) + 1] = h[k]  BY <2>1, <2>4
  <2>6. Reverse(g) = [k \in 1 .. n |-> g[(n - k) + 1]]  BY <2>3 DEF Reverse
  <2>7. h = [k \in 1 .. n |-> h[k]]  OBVIOUS
  <2> QED  BY <2>5, <2>6, <2>7 DEF g
<1> QED  BY <1>2, <1>3, <1>4

-----------------------------------------------------------------------------
(* What the invariant is for. *)

\* The links of a stable deque agree, and only nodes that have not been freed are read.
LEMMA InvShape == Inv => TypeOK /\ LinksAgree /\ NoUseAfterFree
<1> SUFFICES ASSUME Inv PROVE TypeOK /\ LinksAgree /\ NoUseAfterFree  OBVIOUS
<1>1. ProofAssumption /\ Types /\ "L" \in Sides  BY DEF Inv, Sides
<1>2. PICK n \in Nat : \E h \in [1 .. n -> Nodes] : Good(h, n, "L")
  BY <1>1, FromSide DEF Inv
<1>3. PICK h \in [1 .. n -> Nodes] : Good(h, n, "L")  BY <1>2
<1>4. Chain(h, n, "L") /\ \A t \in Threads : Knows(t, h, n, "L")  BY <1>3 DEF Good
<1>5. TypeOK
  <2>1. ASSUME NEW t \in Threads
        PROVE  /\ loc[t].a \in Anchors /\ loc[t].prevNext \in Links
               /\ {loc[t].node, loc[t].prev} \subseteq NodeOrNull
    <3>1. loc[t] \in Frames  BY <1>1, AtThread
    <3> QED  BY <3>1 DEF Frames
  <2> QED  BY <1>1, <2>1 DEF Types, TypeOK
<1>6. LinksAgree
  <2>1. m_anchor.status = "STABLE" => Path("R") = h /\ Path("L") = Rev(h, n) /\ Reverse(Rev(h, n)) = h
    BY <1>1, <1>4, PathsAre
  <2> QED  BY <2>1 DEF LinksAgree
<1>7. NoUseAfterFree
  <2> SUFFICES ASSUME NEW t \in Threads
               PROVE  /\ pc[t] = "popPrev" => loc[t].a.ends[Side(t)] \notin free
                      /\ pc[t] = "stabPrev" => loc[t].a.ends[loc[t].side] \notin free
                      /\ pc[t] \in {"stabNext", "stabCheck3", "stabLink"} => loc[t].prev \notin free
    BY DEF NoUseAfterFree
  <2>1. op[t].side \in Sides /\ loc[t].side \in Sides  BY <1>1, AtThread
  <2>2. SafeEnds(t) => \A r \in Sides : loc[t].a.ends[r] \notin free  BY DEF SafeEnds, Safe, Sides
  <2>3. pc[t] = "popPrev" => SafeEnds(t)  BY <1>4 DEF Knows, PopPlaces, PopKnows
  <2>4. pc[t] = "stabPrev" => SafeEnds(t)  BY <1>4 DEF Knows, Checked, StabKnows
  <2>5. pc[t] \in {"stabNext", "stabCheck3", "stabLink"} => Safe(t, 2, loc[t].prev)
    BY <1>4 DEF Knows, Checked, StabKnows
  <2> QED  BY <2>1, <2>2, <2>3, <2>4, <2>5 DEF Side, Safe
<1> QED  BY <1>5, <1>6, <1>7

\* The links of a stable MMDeque are the same both ways, and no link is read or swung of
\* a node that has been freed, for any number of threads and of nodes.
THEOREM ListShape ==
  ProofAssumption /\ Spec => [](TypeOK /\ LinksAgree /\ NoUseAfterFree)
<1>1. Inv => TypeOK /\ LinksAgree /\ NoUseAfterFree  BY InvShape
<1> QED  BY <1>1, Invariance, PTL

-----------------------------------------------------------------------------
(* The contents, and what a push and a pop do to them. *)

\* What a node stores.
Stored == Values \cup {Garbage}

\* The values v of the nodes h[1], ..., h[n].
Items(h, n, v) == [k \in 1 .. n |-> v[h[k]]]

\* A function on 1 .. n is a sequence of length n.
LEMMA SeqIs ==
  ASSUME NEW S, NEW n \in Nat, NEW f \in [1 .. n -> S]
  PROVE  f \in Seq(S) /\ Len(f) = n
<1>1. f \in Seq(S)  BY SeqDef
<1>2. DOMAIN f = 1 .. Len(f) /\ Len(f) \in Nat  BY <1>1, LenProperties
<1>3. PICK m \in Nat : m = Len(f)  BY <1>2
<1>4. 1 .. m = 1 .. n  BY <1>2, <1>3
<1>5. m = n  BY <1>4
<1> QED  BY <1>1, <1>3, <1>5

\* The items are a sequence, empty when there are no nodes.
LEMMA ItemsSeq ==
  ASSUME NEW n \in Nat, NEW h \in [1 .. n -> Nodes], NEW v \in [Nodes -> Stored]
  PROVE  /\ Items(h, n, v) \in Seq(Stored) /\ Len(Items(h, n, v)) = n
         /\ \A k \in 1 .. n : Items(h, n, v)[k] = v[h[k]] /\ v[h[k]] \in Stored
         /\ Items(h, n, v) = <<>> <=> n = 0
<1> DEFINE q == Items(h, n, v)
<1>1. \A k \in 1 .. n : q[k] = v[h[k]] /\ v[h[k]] \in Stored  BY DEF Items
<1>2. q \in [1 .. n -> Stored]  BY <1>1 DEF Items
<1> HIDE DEF q
<1>3. q \in Seq(Stored) /\ Len(q) = n  BY <1>2, SeqIs
<1>4. q = <<>> <=> Len(q) = 0  BY <1>3, EmptySeq
<1> QED  BY <1>1, <1>3, <1>4 DEF q

\* A node is added on the left.
LEMMA ItemsPrepend ==
  ASSUME NEW n \in Nat, NEW h \in [1 .. n -> Nodes], NEW v \in [Nodes -> Stored],
         NEW m \in Nat, m = n + 1, NEW g \in [1 .. m -> Nodes],
         \A k \in 1 .. n : g[k + 1] = h[k]
  PROVE  Items(g, m, v) = <<v[g[1]]>> \o Items(h, n, v)
<1> DEFINE q == Items(h, n, v)
           r == Items(g, m, v)
           y == v[g[1]]
           p == <<v[g[1]]>> \o Items(h, n, v)
<1>1. q \in Seq(Stored) /\ Len(q) = n /\ \A k \in 1 .. n : q[k] = v[h[k]]  BY ItemsSeq
<1>2. r \in Seq(Stored) /\ Len(r) = m /\ \A k \in 1 .. m : r[k] = v[g[k]]  BY ItemsSeq
<1>3. y \in Stored /\ 1 \in 1 .. m  OBVIOUS
<1>4. <<y>> \in Seq(Stored) /\ Len(<<y>>) = 1 /\ <<y>>[1] = y  BY <1>3
<1> HIDE DEF q, r, y
<1>5. p = <<y>> \o q  BY DEF p, q, y
<1> HIDE DEF p
<1>6. p \in Seq(Stored) /\ Len(p) = 1 + n
      /\ \A k \in 1 .. 1 + n : p[k] = IF k <= 1 THEN <<y>>[k] ELSE q[k - 1]
  <2>1. PICK a : a = <<y>>  OBVIOUS
  <2>2. a \in Seq(Stored) /\ q \in Seq(Stored) /\ Len(a) = 1 /\ Len(q) = n /\ p = a \o q
    BY <1>1, <1>4, <1>5, <2>1
  <2>3. a \o q \in Seq(Stored) /\ Len(a \o q) = Len(a) + Len(q)
    BY <2>2, ConcatProperties
  <2>4. \A k \in 1 .. Len(a) + Len(q) :
          (a \o q)[k] = IF k <= Len(a) THEN a[k] ELSE q[k - Len(a)]
    BY <2>2, ConcatProperties
  <2>5. PICK c : c = a \o q  OBVIOUS
  <2>6. \A k \in 1 .. 1 + n : c[k] = IF k <= 1 THEN a[k] ELSE q[k - 1]
    BY <2>2, <2>4, <2>5
  <2> QED  BY <2>1, <2>2, <2>3, <2>5, <2>6
<1>7. ASSUME NEW k \in 1 .. m PROVE r[k] = p[k]
  <2>1. CASE k = 1
    <3>1. r[k] = y  BY <1>2, <2>1 DEF y
    <3>2. p[k] = <<y>>[1]  BY <1>6, <2>1
    <3> QED  BY <1>4, <3>1, <3>2
  <2>2. CASE k # 1
    <3>1. k - 1 \in 1 .. n /\ (k - 1) + 1 = k /\ ~(k <= 1) /\ k \in 1 .. 1 + n  BY <2>2
    <3>2. p[k] = v[h[k - 1]]  BY <1>1, <1>6, <3>1
    <3>3. g[k] = h[k - 1]  BY <3>1
    <3> QED  BY <1>2, <3>2, <3>3
  <2> QED  BY <2>1, <2>2
<1>8. Len(r) = Len(p)  BY <1>2, <1>6
<1>9. r = p  BY <1>2, <1>6, <1>7, <1>8, SeqEqual
<1> QED  BY <1>9 DEF r, p

\* A node is added on the right.
LEMMA ItemsAppend ==
  ASSUME NEW n \in Nat, NEW h \in [1 .. n -> Nodes], NEW v \in [Nodes -> Stored],
         NEW m \in Nat, m = n + 1, NEW g \in [1 .. m -> Nodes],
         \A k \in 1 .. n : g[k] = h[k]
  PROVE  Items(g, m, v) = Append(Items(h, n, v), v[g[m]])
<1> DEFINE q == Items(h, n, v)
           r == Items(g, m, v)
           y == v[g[m]]
<1>1. q \in Seq(Stored) /\ Len(q) = n /\ \A k \in 1 .. n : q[k] = v[h[k]]  BY ItemsSeq
<1>2. r \in Seq(Stored) /\ Len(r) = m /\ \A k \in 1 .. m : r[k] = v[g[k]]  BY ItemsSeq
<1>3. y \in Stored  OBVIOUS
<1>4. r[m] = y  BY <1>2
<1> HIDE DEF q, r, y
<1>5. /\ Append(q, y) \in Seq(Stored) /\ Len(Append(q, y)) = n + 1
      /\ \A k \in 1 .. n : Append(q, y)[k] = q[k]
      /\ Append(q, y)[n + 1] = y
  <2>1. \A a \in Seq(Stored) :
          /\ Append(a, y) \in Seq(Stored) /\ Len(Append(a, y)) = Len(a) + 1
          /\ \A k \in 1 .. Len(a) : Append(a, y)[k] = a[k]
          /\ Append(a, y)[Len(a) + 1] = y
    BY <1>3, AppendProperties
  <2> QED  BY <1>1, <2>1
<1>6. ASSUME NEW k \in 1 .. m PROVE r[k] = Append(q, y)[k]
  <2>1. CASE k = m  BY <1>4, <1>5, <2>1
  <2>2. CASE k # m
    <3>1. k \in 1 .. n  BY <2>2
    <3>2. g[k] = h[k]  BY <3>1
    <3> QED  BY <1>1, <1>2, <1>5, <3>1, <3>2
  <2> QED  BY <2>1, <2>2
<1>7. r = Append(q, y)  BY <1>2, <1>5, <1>6, SeqEqual
<1> QED  BY <1>7 DEF q, r, y

\* The node on the left goes.
LEMMA ItemsTail ==
  ASSUME NEW n \in Nat, NEW h \in [1 .. n -> Nodes], NEW v \in [Nodes -> Stored],
         NEW m \in Nat, n = m + 1, NEW g \in [1 .. m -> Nodes],
         \A k \in 1 .. m : g[k] = h[k + 1]
  PROVE  /\ Items(h, n, v) # <<>> /\ Head(Items(h, n, v)) = v[h[1]]
         /\ Tail(Items(h, n, v)) = Items(g, m, v)
<1> DEFINE q == Items(h, n, v)
           r == Items(g, m, v)
<1>1. q \in Seq(Stored) /\ Len(q) = n /\ q # <<>> /\ \A k \in 1 .. n : q[k] = v[h[k]]
  BY ItemsSeq
<1>2. r \in Seq(Stored) /\ Len(r) = m /\ \A k \in 1 .. m : r[k] = v[g[k]]  BY ItemsSeq
<1>3. q[1] = v[h[1]]  BY <1>1
<1> HIDE DEF q, r
<1>4. Head(q) = q[1]  BY <1>1
<1>5. /\ Tail(q) \in Seq(Stored) /\ Len(Tail(q)) = Len(q) - 1
      /\ \A k \in 1 .. Len(Tail(q)) : Tail(q)[k] = q[k + 1]
  BY <1>1, HeadTailProperties
<1>6. Len(Tail(q)) = m  BY <1>1, <1>5
<1>7. ASSUME NEW k \in 1 .. m PROVE Tail(q)[k] = r[k]
  <2>1. k + 1 \in 1 .. n  OBVIOUS
  <2> QED  BY <1>1, <1>2, <1>5, <1>6, <2>1
<1>8. Tail(q) = r  BY <1>2, <1>5, <1>6, <1>7, SeqEqual
<1> QED  BY <1>1, <1>3, <1>4, <1>8 DEF q, r

\* The node on the right goes.
LEMMA ItemsFront ==
  ASSUME NEW n \in Nat, NEW h \in [1 .. n -> Nodes], NEW v \in [Nodes -> Stored],
         NEW m \in Nat, n = m + 1, NEW g \in [1 .. m -> Nodes],
         \A k \in 1 .. m : g[k] = h[k]
  PROVE  LET q == Items(h, n, v) IN
         q # <<>> /\ q[Len(q)] = v[h[n]] /\ SubSeq(q, 1, Len(q) - 1) = Items(g, m, v)
<1> DEFINE q == Items(h, n, v)
           r == Items(g, m, v)
           p == SubSeq(q, 1, Len(q) - 1)
<1>1. /\ q \in Seq(Stored) /\ Len(q) = n /\ q # <<>>
      /\ \A k \in 1 .. n : q[k] = v[h[k]] /\ v[h[k]] \in Stored
  BY ItemsSeq
<1>2. r \in Seq(Stored) /\ Len(r) = m /\ \A k \in 1 .. m : r[k] = v[g[k]]  BY ItemsSeq
<1>3. n \in 1 .. n /\ Len(q) - 1 = m  BY <1>1
<1> HIDE DEF q, r
<1>4. q[Len(q)] = v[h[n]]  BY <1>1, <1>3
<1>5. p = SubSeq(q, 1, m)  BY <1>3
<1> HIDE DEF p
<1>6. p \in Seq(Stored) /\ Len(p) = m /\ \A k \in 1 .. m : p[k] = q[k]
  <2>1. \A k \in 1 .. m : q[k] \in Stored  BY <1>1
  <2>2. /\ SubSeq(q, 1, m) \in Seq(Stored)
        /\ Len(SubSeq(q, 1, m)) = IF 1 <= m THEN m - 1 + 1 ELSE 0
        /\ \A k \in 1 .. m - 1 + 1 : SubSeq(q, 1, m)[k] = q[1 + k - 1]
    BY <2>1, SubSeqProperties
  <2>3. (IF 1 <= m THEN m - 1 + 1 ELSE 0) = m  OBVIOUS
  <2>4. \A k \in 1 .. m : k \in 1 .. m - 1 + 1 /\ 1 + k - 1 = k  OBVIOUS
  <2> QED  BY <1>5, <2>2, <2>3, <2>4
<1>7. ASSUME NEW k \in 1 .. m PROVE p[k] = r[k]
  <2>1. k \in 1 .. n  OBVIOUS
  <2> QED  BY <1>1, <1>2, <1>6, <2>1
<1>8. p = r  BY <1>2, <1>6, <1>7, SeqEqual
<1> QED  BY <1>1, <1>4, <1>8 DEF q, r, p

\* The list that begins at side s, from left to right.
FromLeft(h, n, s) == IF s = "L" THEN h ELSE Rev(h, n)

\* A push at side s adds its value at that end.
LEMMA PushedItems ==
  ASSUME NEW n \in Nat, NEW h \in [1 .. n -> Nodes], NEW x \in Nodes, NEW v \in [Nodes -> Stored],
         NEW s \in Sides
  PROVE  Items(FromLeft(Pushed(x, h, n), n + 1, s), n + 1, v)
           = AtEnd(s, v[x], Items(FromLeft(h, n, s), n, v))
<1>1. PICK m \in Nat : m = n + 1  OBVIOUS
<1>2. PICK g : g = Pushed(x, h, n)  OBVIOUS
<1>3. g \in [1 .. m -> Nodes] /\ g[1] = x /\ \A k \in 1 .. n : g[k + 1] = h[k]
  <2>1. Pushed(x, h, n) \in [1 .. (n + 1) -> Nodes]  BY PushedAt
  <2>2. Pushed(x, h, n)[1] = x  BY PushedAt
  <2>3. \A k \in 1 .. n : k + 1 \in 1 .. (n + 1) /\ k + 1 # 1 /\ (k + 1) - 1 = k  OBVIOUS
  <2>4. \A k \in 1 .. n : Pushed(x, h, n)[k + 1] = h[k]  BY <2>3 DEF Pushed
  <2> QED  BY <1>1, <1>2, <2>1, <2>2, <2>4
<1>4. SUFFICES Items(FromLeft(g, m, s), m, v) = AtEnd(s, v[x], Items(FromLeft(h, n, s), n, v))
  BY <1>1, <1>2
<1>5. CASE s = "L"
  <2>1. Items(g, m, v) = <<v[g[1]]>> \o Items(h, n, v)  BY <1>1, <1>3, ItemsPrepend
  <2> QED  BY <1>3, <1>5, <2>1 DEF FromLeft, AtEnd
<1>6. CASE s = "R"
  <2>1. PICK hr, gr : hr = Rev(h, n) /\ gr = Rev(g, m)  OBVIOUS
  <2>2. hr \in [1 .. n -> Nodes] /\ \A k \in 1 .. n : hr[k] = h[n + 1 - k]  BY <2>1, RevAt
  <2>3. gr \in [1 .. m -> Nodes] /\ \A k \in 1 .. m : gr[k] = g[m + 1 - k]
    BY <1>3, <2>1, RevAt
  <2>4. gr[m] = x
    <3>1. m \in 1 .. m /\ m + 1 - m = 1  BY <1>1
    <3> QED  BY <1>3, <2>3, <3>1
  <2>5. ASSUME NEW k \in 1 .. n PROVE gr[k] = hr[k]
    <3>1. k \in 1 .. m /\ n + 1 - k \in 1 .. n /\ m + 1 - k = (n + 1 - k) + 1  BY <1>1
    <3>2. gr[k] = h[n + 1 - k]  BY <1>3, <2>3, <3>1
    <3> QED  BY <2>2, <3>2
  <2>6. Items(gr, m, v) = Append(Items(hr, n, v), v[gr[m]])
    BY <1>1, <2>2, <2>3, <2>5, ItemsAppend
  <2> QED  BY <1>6, <2>1, <2>4, <2>6 DEF FromLeft, AtEnd
<1> QED  BY <1>5, <1>6 DEF Sides

\* A pop at side s takes the value at that end.
LEMMA PoppedItems ==
  ASSUME NEW n \in Nat, NEW h \in [1 .. n -> Nodes], n > 0, NEW v \in [Nodes -> Stored],
         NEW s \in Sides
  PROVE  LET q == Items(FromLeft(h, n, s), n, v) IN
         /\ q # <<>> /\ EndOf(s, q) = v[h[1]]
         /\ WithoutEnd(s, q) = Items(FromLeft(Popped(h, n), n - 1, s), n - 1, v)
<1>1. PICK m \in Nat : m = n - 1  OBVIOUS
<1>2. PICK g : g = Popped(h, n)  OBVIOUS
<1>3. n = m + 1 /\ g \in [1 .. m -> Nodes] /\ \A k \in 1 .. m : k + 1 \in 1 .. n /\ g[k] = h[k + 1]
  BY <1>1, <1>2, PoppedAt
<1> DEFINE q == Items(FromLeft(h, n, s), n, v)
<1>4. SUFFICES q # <<>> /\ EndOf(s, q) = v[h[1]] /\ WithoutEnd(s, q) = Items(FromLeft(g, m, s), m, v)
  BY <1>1, <1>2
<1>5. CASE s = "L"
  <2>a. \A k \in 1 .. m : g[k] = h[k + 1]  BY <1>3
  <2>1. /\ Items(h, n, v) # <<>> /\ Head(Items(h, n, v)) = v[h[1]]
        /\ Tail(Items(h, n, v)) = Items(g, m, v)
    BY <1>3, <2>a, ItemsTail
  <2> QED  BY <1>5, <2>1 DEF FromLeft, EndOf, WithoutEnd
<1>6. CASE s = "R"
  <2>1. PICK hr, gr : hr = Rev(h, n) /\ gr = Rev(g, m)  OBVIOUS
  <2>2. hr \in [1 .. n -> Nodes] /\ \A k \in 1 .. n : hr[k] = h[n + 1 - k]  BY <2>1, RevAt
  <2>3. gr \in [1 .. m -> Nodes] /\ \A k \in 1 .. m : m + 1 - k \in 1 .. m /\ gr[k] = g[m + 1 - k]
    BY <1>3, <2>1, RevAt
  <2>4. hr[n] = h[1]
    <3>1. n \in 1 .. n /\ n + 1 - n = 1  OBVIOUS
    <3> QED  BY <2>2, <3>1
  <2>5. ASSUME NEW k \in 1 .. m PROVE gr[k] = hr[k]
    <3>1. k \in 1 .. n /\ n + 1 - k = (m + 1 - k) + 1  BY <1>3
    <3>2. gr[k] = h[(m + 1 - k) + 1]  BY <1>3, <2>3
    <3> QED  BY <2>2, <3>1, <3>2
  <2>6. LET i == Items(hr, n, v) IN
        i # <<>> /\ i[Len(i)] = v[hr[n]] /\ SubSeq(i, 1, Len(i) - 1) = Items(gr, m, v)
    <3>1. hr \in [1 .. n -> Nodes] /\ gr \in [1 .. m -> Nodes] /\ n = m + 1
      BY <1>3, <2>2, <2>3
    <3> QED  BY <2>5, <3>1, ItemsFront
  <2> QED  BY <1>6, <2>1, <2>4, <2>6 DEF FromLeft, EndOf, WithoutEnd
<1> QED  BY <1>5, <1>6 DEF Sides

\* The contents of a list are the values of its nodes.
ContentsClaim ==
  \A s \in Sides : \A n \in Nat : \A h \in [1 .. n -> Nodes] :
    Chain(h, n, s) => Contents = Items(FromLeft(h, n, s), n, data)

\* What the paths along the links give, whichever push is unstable.
LEMMA ContentsAre == ProofAssumption => ContentsClaim
<1> SUFFICES ASSUME ProofAssumption, NEW s \in Sides, NEW n \in Nat, NEW h \in [1 .. n -> Nodes],
                    Chain(h, n, s)
             PROVE  Contents = Items(FromLeft(h, n, s), n, data)
  BY DEF ContentsClaim
<1>1. PICK g : g = FromLeft(h, n, s)  OBVIOUS
<1>2. g \in [1 .. n -> Nodes] /\ Chain(g, n, "L")
  <2>1. CASE s = "L"  BY <1>1, <2>1 DEF FromLeft
  <2>2. CASE s = "R"
    <3>1. Rev(h, n) \in [1 .. n -> Nodes]  BY RevAt
    <3>2. Chain(Rev(h, n), n, Other(s))  BY FlipChain
    <3> QED  BY <1>1, <2>2, <3>1, <3>2 DEF FromLeft, Other
  <2> QED  BY <2>1, <2>2 DEF Sides
<1>3. (IF m_anchor.status = "RPUSH" THEN Reverse(Path("L")) ELSE Path("R")) = g
  <2>1. m_anchor.status # "RPUSH" => Path("R") = g  BY <1>2, PathsAre
  <2>2. m_anchor.status # "LPUSH" => Path("L") = Rev(g, n)  BY <1>2, PathsAre
  <2>3. Reverse(Rev(g, n)) = g  BY <1>2, PathsAre
  <2> QED  BY <2>1, <2>2, <2>3
<1>4. DOMAIN g = 1 .. n  BY <1>2
<1>5. Contents = [k \in DOMAIN g |-> data[g[k]]]  BY <1>3 DEF Contents
<1> QED  BY <1>1, <1>4, <1>5 DEF Items

\* The same of the next state.
LEMMA ContentsNext == ProofAssumption => ContentsClaim'
<1>1. ProofAssumption => ProofAssumption'  BY DEF ProofAssumption, MMDequeAssumption
<1>2. ProofAssumption => ContentsClaim  BY ContentsAre
<1> QED  BY <1>1, <1>2, PTL

\* Nothing happens to the contents when the list stays and its values do.
LEMMA ContentsSame ==
  ASSUME ProofAssumption, NEW s \in Sides, NEW n \in Nat, NEW h \in [1 .. n -> Nodes],
         Chain(h, n, s), Chain(h, n, s)', \A k \in 1 .. n : data'[h[k]] = data[h[k]]
  PROVE  Contents' = Contents
<1>1. PICK g : g = FromLeft(h, n, s)  OBVIOUS
<1>2. Contents = Items(g, n, data)  BY <1>1, ContentsAre DEF ContentsClaim
<1>3. Contents' = Items(g, n, data')  BY <1>1, ContentsNext DEF ContentsClaim
<1>4. \A k \in 1 .. n : data'[g[k]] = data[g[k]]
  <2>1. \A k \in 1 .. n : n + 1 - k \in 1 .. n /\ Rev(h, n)[k] = h[n + 1 - k]  BY RevAt
  <2> QED  BY <1>1, <2>1 DEF FromLeft
<1> QED  BY <1>2, <1>3, <1>4 DEF Items

-----------------------------------------------------------------------------
(* The refinement of DequeSpec. *)

VARIABLE sawEmpty  \* history variable of DequeSpec

PendingPops == { t \in Threads : Status[t] = "pending" /\ op[t].kind = "pop" }

WatchEmpty == sawEmpty' = { t \in PendingPops' : t \in sawEmpty \/ Contents' = <<>> }

linVars == <<vars, sawEmpty>>
LinInit == Init /\ sawEmpty = {}
LinNext == Next /\ WatchEmpty
LinSpec == LinInit /\ [][LinNext]_linVars

Abstract == INSTANCE DequeSpec
  WITH contents <- Contents, status <- Status, request <- op, reply <- result

\* Every operation takes effect once, between its call and its return, at its own end, and
\* a pop returns EMPTY only if the deque was empty during the call (RDeque.hpp).
Linearizable == Abstract!Spec

\* A pending pop that waits while the deque is empty has seen it empty.
Watched == sawEmpty = { t \in PendingPops : t \in sawEmpty \/ Contents = <<>> }

\* The instance of DequeSpec has the operations of this module.
LEMMA SameOperations ==
  /\ Abstract!Operations = Operations
  /\ \A s, v, q : /\ Abstract!AtEnd(s, v, q) = AtEnd(s, v, q)
                  /\ Abstract!EndOf(s, q) = EndOf(s, q)
                  /\ Abstract!WithoutEnd(s, q) = WithoutEnd(s, q)
<1>1. Abstract!Operations = Operations
  BY DEF Operations, Push, Pop, Sides, Abstract!Operations, Abstract!Push, Abstract!Pop,
         Abstract!Sides
<1>2. \A s, v, q : Abstract!AtEnd(s, v, q) = AtEnd(s, v, q)  BY DEF AtEnd, Abstract!AtEnd
<1>3. \A s, q : Abstract!EndOf(s, q) = EndOf(s, q)  BY DEF EndOf, Abstract!EndOf
<1>4. \A s, q : Abstract!WithoutEnd(s, q) = WithoutEnd(s, q)
  BY DEF WithoutEnd, Abstract!WithoutEnd
<1> QED  BY <1>1, <1>2, <1>3, <1>4

\* The history variable is the one of DequeSpec.
LEMMA SameHistory == WatchEmpty => Abstract!WatchEmpty /\ Watched'
<1> SUFFICES ASSUME WatchEmpty PROVE Abstract!WatchEmpty /\ Watched'  OBVIOUS
<1>1. Abstract!WatchEmpty
  BY DEF WatchEmpty, PendingPops, Abstract!WatchEmpty, Abstract!PendingPops
<1>2. Watched'  BY DEF WatchEmpty, Watched
<1> QED  BY <1>1, <1>2

\* What DequeSpec sees of a thread.
Seen(t) == IF pc[t] = "idle" THEN "idle" ELSE IF Pending(t) THEN "pending" ELSE "done"

\* It is the status of the thread, in this state and in the next.
LEMMA StatusIs ==
  Status = [t \in Threads |-> Seen(t)] /\ Status' = [t \in Threads |-> Seen(t)']
<1>1. ASSUME NEW t \in Threads
      PROVE  /\ Status[t] = Seen(t)
             /\ Status'[t] = Seen(t)'
  <2>1. Status[t] = Seen(t)  BY DEF Status, Seen, Pending
  <2>2. Status'[t] = Seen(t)'  BY DEF Status, Seen, Pending
  <2> QED  BY <2>1, <2>2
<1>2. Status = [t \in Threads |-> Status[t]] /\ Status' = [t \in Threads |-> Status'[t]]
  BY DEF Status
<1> QED  BY <1>1, <1>2

\* A step of t changes the status of no other thread.
LEMMA OneLooksDifferent ==
  ASSUME NEW t \in Threads, \A u \in Threads \ {t} : pc'[u] = pc[u] /\ loc'[u] = loc[u]
  PROVE  Status' = [Status EXCEPT ![t] = Seen(t)'] /\ Status[t] = Seen(t)
<1>1. \A u \in Threads \ {t} : Seen(u)' = Seen(u)  BY DEF Seen, Pending
<1> DEFINE a == Status
           b == Status'
           S(u) == Seen(u)
           R(u) == Seen(u)'
<1>2. a = [u \in Threads |-> S(u)] /\ b = [u \in Threads |-> R(u)]  BY StatusIs
<1>3. \A u \in Threads \ {t} : R(u) = S(u)  BY <1>1
<1> HIDE DEF a, b, S, R
<1>4. b = [a EXCEPT ![t] = R(t)] /\ a[t] = S(t)  BY <1>2, <1>3
<1> QED  BY <1>4 DEF a, b, S, R

\* A step changes the place, the locals and the result of its own thread only.
LEMMA StepFrame ==
  ASSUME Types, NEW t \in Threads, Step(t)
  PROVE  /\ op' = op /\ data' = data /\ pc[t] # "idle"
         /\ \A u \in Threads \ {t} : pc'[u] = pc[u] /\ loc'[u] = loc[u]
         /\ ~Return(t) => pc'[t] # "idle"
         /\ \/ PushCas(t) /\ m_anchor = loc[t].a
            \/ PopCas(t) /\ m_anchor = loc[t].a
            \/ Return(t)
            \/ result' = result
<1>1. op' = op /\ data' = data
  BY DEF Step, GetAnchor, PushCas, ReserveEnds, Recheck, PopPrev, PopCas, Retire, StabPrev,
         ReservePrev, StabNext, StabLink, Stable, Return
<1>2. pc[t] # "idle"
  BY DEF Step, GetAnchor, PushCas, ReserveEnds, Recheck, PopPrev, PopCas, Retire, StabPrev,
         ReservePrev, StabNext, StabLink, Stable, Return
<1>3. \E l : pc' = [pc EXCEPT ![t] = l] /\ (l = "idle" => Return(t))
  <2>1. loc[t].back \in {"anchor", "return"}  BY AtThread DEF Frames
  <2>2. CASE GetAnchor(t)  BY <2>2 DEF GetAnchor, Goto
  <2>3. CASE PushCas(t)  BY <2>3 DEF PushCas, Goto
  <2>4. CASE ReserveEnds(t)  BY <2>4 DEF ReserveEnds, Goto
  <2>5. CASE Recheck(t)  BY <2>1, <2>5 DEF Recheck, Goto
  <2>6. CASE PopPrev(t) \/ StabPrev(t) \/ ReservePrev(t)
    BY <2>6 DEF PopPrev, StabPrev, ReservePrev, Goto
  <2>7. CASE PopCas(t)  BY <2>7 DEF PopCas, Goto
  <2>8. CASE Retire(t)
    <3>1. PICK l : l = "return"  OBVIOUS
    <3>2. pc' = [pc EXCEPT ![t] = l] /\ l # "idle"  BY <2>8, <3>1 DEF Retire, Goto
    <3> QED  BY <3>2
  <2>9. CASE StabNext(t)
    <3>1. PICK l : l = IF link[loc[t].prev][loc[t].side].ptr # loc[t].a.ends[loc[t].side]
                       THEN "stabCheck3" ELSE "stable"
      OBVIOUS
    <3>2. pc' = [pc EXCEPT ![t] = l] /\ l # "idle"  BY <2>9, <3>1 DEF StabNext, Goto
    <3> QED  BY <3>2
  <2>10. CASE StabLink(t)  BY <2>1, <2>10 DEF StabLink, Goto
  <2>11. CASE Stable(t)  BY <2>1, <2>11 DEF Stable, Goto
  <2>12. CASE Return(t)  BY <2>12 DEF Return, Goto
  <2> QED
    BY <2>2, <2>3, <2>4, <2>5, <2>6, <2>7, <2>8, <2>9, <2>10, <2>11, <2>12 DEF Step
<1>4. loc' = loc \/ \E f : loc' = [loc EXCEPT ![t] = f]
  <2>1. CASE GetAnchor(t)  BY <2>1 DEF GetAnchor, Stabilizing
  <2>2. CASE PushCas(t)  BY <2>2 DEF PushCas, Stabilizing
  <2>3. CASE PopPrev(t)
    <3>1. loc' = [loc EXCEPT ![t] = [loc[t] EXCEPT !.prev = PrevOf(t, Side(t))]]
      BY <2>3 DEF PopPrev
    <3> QED  BY <3>1
  <2>4. CASE StabPrev(t)
    <3>1. loc' = [loc EXCEPT ![t] = [loc[t] EXCEPT !.prev = PrevOf(t, loc[t].side)]]
      BY <2>4 DEF StabPrev
    <3> QED  BY <3>1
  <2>5. CASE StabNext(t)
    <3>1. loc' = [loc EXCEPT ![t] = [loc[t] EXCEPT !.prevNext = link[loc[t].prev][loc[t].side]]]
      BY <2>5 DEF StabNext
    <3> QED  BY <3>1
  <2>6. CASE Return(t)  BY <2>6 DEF Return
  <2>7. CASE ReserveEnds(t) \/ Recheck(t) \/ PopCas(t) \/ Retire(t) \/ ReservePrev(t)
             \/ StabLink(t) \/ Stable(t)
    BY <2>7 DEF ReserveEnds, Recheck, PopCas, Retire, ReservePrev, StabLink, Stable
  <2> QED  BY <2>1, <2>2, <2>3, <2>4, <2>5, <2>6, <2>7 DEF Step
<1>5. \A u \in Threads \ {t} : pc'[u] = pc[u]  BY <1>3 DEF Types
<1>6. ~Return(t) => pc'[t] # "idle"  BY <1>3 DEF Types
<1>7. \A u \in Threads \ {t} : loc'[u] = loc[u]  BY <1>4 DEF Types
<1>8. \/ PushCas(t) /\ m_anchor = loc[t].a
      \/ PopCas(t) /\ m_anchor = loc[t].a
      \/ Return(t)
      \/ result' = result
  BY DEF Step, GetAnchor, PushCas, ReserveEnds, Recheck, PopPrev, PopCas, Retire, StabPrev,
         ReservePrev, StabNext, StabLink, Stable
<1> QED  BY <1>1, <1>2, <1>5, <1>6, <1>7, <1>8

\* A step after which the list is the same, and no status has changed, is a stutter.
LEMMA QuietStep ==
  ASSUME ProofAssumption, Types, NEW n \in Nat, NEW h \in [1 .. n -> Nodes], NEW s \in Sides,
         Good(h, n, s), Good(h, n, s)', NEW t \in Threads, Step(t), ~Return(t),
         result' = result, Pending(t)' <=> Pending(t), Watched, WatchEmpty
  PROVE  UNCHANGED Abstract!vars
<1>1. op' = op /\ data' = data /\ pc[t] # "idle" /\ pc'[t] # "idle"
      /\ \A u \in Threads \ {t} : pc'[u] = pc[u] /\ loc'[u] = loc[u]
  BY StepFrame
<1>2. Contents' = Contents
  <2>1. Chain(h, n, s) /\ Chain(h, n, s)'  BY DEF Good
  <2>2. \A k \in 1 .. n : data'[h[k]] = data[h[k]]  BY <1>1
  <2> QED  BY <2>1, <2>2, ContentsSame
<1>3. Status' = Status
  <2>1. Status' = [Status EXCEPT ![t] = Seen(t)'] /\ Status[t] = Seen(t)
    BY <1>1, OneLooksDifferent
  <2>2. Seen(t)' = Seen(t)  BY <1>1 DEF Seen
  <2>3. Status = [u \in Threads |-> Status[u]]  BY DEF Status
  <2> QED  BY <2>1, <2>2, <2>3
<1>4. PendingPops' = PendingPops  BY <1>1, <1>3 DEF PendingPops
<1>5. sawEmpty' = sawEmpty  BY <1>2, <1>4 DEF Watched, WatchEmpty
<1> QED  BY <1>1, <1>2, <1>3, <1>5 DEF Abstract!vars

\* A step in which the operation of t takes effect, with the answer r.
LEMMA StepFinishes ==
  ASSUME Types, NEW t \in Threads, Step(t), ~Return(t), Pending(t), ~Pending(t)',
         NEW r, result' = [result EXCEPT ![t] = r]
  PROVE  Abstract!Finish(t, r)
<1>1. op' = op /\ pc[t] # "idle" /\ pc'[t] # "idle"
      /\ \A u \in Threads \ {t} : pc'[u] = pc[u] /\ loc'[u] = loc[u]
  BY StepFrame
<1>2. Status' = [Status EXCEPT ![t] = Seen(t)'] /\ Status[t] = Seen(t)
  BY <1>1, OneLooksDifferent
<1>3. Seen(t) = "pending"  BY <1>1 DEF Seen
<1>4. Seen(t)' = "done"  BY <1>1 DEF Seen
<1> QED  BY <1>1, <1>2, <1>3, <1>4 DEF Abstract!Finish

\* A push takes effect when it swings its end of the anchor.
LEMMA PushRefines ==
  ASSUME ProofAssumption, Types, NEW n \in Nat, NEW h \in [1 .. n -> Nodes], NEW t \in Threads,
         NEW s \in Sides, s = op[t].side, Good(h, n, s), PushCas(t), m_anchor = loc[t].a
  PROVE  Abstract!TakePush(t)
<1>1. PICK x : x = loc[t].node  OBVIOUS
<1>2. /\ x \in Nodes /\ Good(Pushed(x, h, n), n + 1, s)'
      /\ op[t].kind = "push" /\ Pending(t) /\ ~Pending(t)' /\ pc'[t] \in {"return", "stabilize0"}
      /\ result' = [result EXCEPT ![t] = op[t].val]
      /\ data' = data /\ data[x] = op[t].val
  BY <1>1, PushKeeps
<1>3. data \in [Nodes -> Stored]  BY DEF Types, Stored
<1>4. Contents = Items(FromLeft(h, n, s), n, data)
  BY ContentsAre DEF ContentsClaim, Good
<1>5. Contents' = Items(FromLeft(Pushed(x, h, n), n + 1, s), n + 1, data)
  <2>1. n + 1 \in Nat /\ Pushed(x, h, n) \in [1 .. (n + 1) -> Nodes]  BY <1>2, PushedAt
  <2>2. PICK g, m : g = Pushed(x, h, n) /\ m = n + 1  OBVIOUS
  <2>3. m \in Nat /\ g \in [1 .. m -> Nodes] /\ Good(g, m, s)'  BY <1>2, <2>1, <2>2
  <2>4. Chain(g, m, s)'  BY <2>3 DEF Good
  <2>5. Contents' = Items(FromLeft(g, m, s), m, data')
    BY <2>3, <2>4, ContentsNext DEF ContentsClaim
  <2> QED  BY <1>2, <2>2, <2>5
<1>6. Contents' = AtEnd(s, op[t].val, Contents)
  <2>1. Items(FromLeft(Pushed(x, h, n), n + 1, s), n + 1, data)
          = AtEnd(s, data[x], Items(FromLeft(h, n, s), n, data))
    BY <1>2, <1>3, PushedItems
  <2> QED  BY <1>2, <1>4, <1>5, <2>1
<1>7. Contents' = Abstract!AtEnd(op[t].side, op[t].val, Contents)  BY <1>6, SameOperations
<1>8. Step(t) /\ ~Return(t)  BY DEF Step, PushCas, Return
<1>9. Abstract!Finish(t, op[t].val)  BY <1>2, <1>8, StepFinishes
<1> QED  BY <1>2, <1>7, <1>9 DEF Abstract!TakePush

\* So does a pop that finds a node.
LEMMA PopRefines ==
  ASSUME ProofAssumption, Types, NEW n \in Nat, NEW h \in [1 .. n -> Nodes], NEW t \in Threads,
         NEW s \in Sides, s = op[t].side, Good(h, n, s), PopCas(t), m_anchor = loc[t].a
  PROVE  Abstract!TakePop(t)
<1>1. /\ n > 0 /\ Good(Popped(h, n), n - 1, s)'
      /\ op[t].kind = "pop" /\ Pending(t) /\ ~Pending(t)'
      /\ result' = [result EXCEPT ![t] = data[h[1]]]
      /\ data' = data
  BY PopKeeps
<1>2. data \in [Nodes -> Stored]  BY DEF Types, Stored
<1>3. Contents = Items(FromLeft(h, n, s), n, data)
  BY ContentsAre DEF ContentsClaim, Good
<1>4. Contents' = Items(FromLeft(Popped(h, n), n - 1, s), n - 1, data)
  <2>1. n - 1 \in Nat /\ Popped(h, n) \in [1 .. (n - 1) -> Nodes]  BY <1>1, PoppedAt
  <2>2. PICK g, m : g = Popped(h, n) /\ m = n - 1  OBVIOUS
  <2>3. m \in Nat /\ g \in [1 .. m -> Nodes] /\ Good(g, m, s)'  BY <1>1, <2>1, <2>2
  <2>4. Chain(g, m, s)'  BY <2>3 DEF Good
  <2>5. Contents' = Items(FromLeft(g, m, s), m, data')
    BY <2>3, <2>4, ContentsNext DEF ContentsClaim
  <2> QED  BY <1>1, <2>2, <2>5
<1>5. /\ Contents # <<>> /\ EndOf(s, Contents) = data[h[1]]
      /\ Contents' = WithoutEnd(s, Contents)
  <2>1. PICK q : q = Items(FromLeft(h, n, s), n, data)  OBVIOUS
  <2>2. /\ q # <<>> /\ EndOf(s, q) = data[h[1]]
        /\ WithoutEnd(s, q) = Items(FromLeft(Popped(h, n), n - 1, s), n - 1, data)
    BY <1>1, <1>2, <2>1, PoppedItems
  <2> QED  BY <1>3, <1>4, <2>1, <2>2
<1>6. /\ Contents' = Abstract!WithoutEnd(op[t].side, Contents)
      /\ Abstract!EndOf(op[t].side, Contents) = data[h[1]]
  BY <1>5, SameOperations
<1>7. Step(t) /\ ~Return(t)  BY DEF Step, PopCas, Return
<1>8. Abstract!Finish(t, data[h[1]])  BY <1>1, <1>7, StepFinishes
<1> QED  BY <1>1, <1>5, <1>6, <1>8 DEF Abstract!TakePop

\* A pop that finds no end has seen the deque empty.
LEMMA EmptyRefines ==
  ASSUME ProofAssumption, Types, NEW n \in Nat, NEW h \in [1 .. n -> Nodes], NEW s \in Sides,
         Good(h, n, s), NEW t \in Threads, GetAnchor(t), pc'[t] = "return", Watched
  PROVE  Abstract!TakeEmpty(t)
<1>1. op[t].kind = "pop" /\ n = 0 /\ Good(h, n, s)'  BY GetAnchorKeeps
<1>2. pc[t] = "anchor" /\ result' = result  BY DEF GetAnchor
<1>3. Pending(t) /\ ~Pending(t)'  BY <1>2 DEF Pending
<1>4. Step(t) /\ ~Return(t)  BY <1>2 DEF Step, Return
<1>5. op' = op /\ data' = data  BY <1>4, StepFrame
<1>6. Contents' = Contents /\ Contents = <<>>
  <2>1. Chain(h, n, s) /\ Chain(h, n, s)'  BY <1>1 DEF Good
  <2>2. Contents' = Contents  BY <1>5, <2>1, ContentsSame
  <2>3. Contents = Items(FromLeft(h, n, s), n, data)  BY <2>1, ContentsAre DEF ContentsClaim
  <2>4. Contents = <<>>  BY <1>1, <2>3 DEF Items
  <2> QED  BY <2>2, <2>4
<1>7. t \in sawEmpty
  <2>1. Status[t] = "pending"  BY <1>2, <1>3, StatusIs DEF Seen
  <2>2. t \in PendingPops  BY <1>1, <2>1 DEF PendingPops
  <2> QED  BY <1>6, <2>2 DEF Watched
<1>8. result[t] = Empty  BY <1>3 DEF Good, Knows
<1>9. result' = [result EXCEPT ![t] = Empty]  BY <1>2, <1>8 DEF Types
<1>10. Abstract!Finish(t, Empty)  BY <1>3, <1>4, <1>9, StepFinishes
<1> QED  BY <1>1, <1>6, <1>7, <1>10 DEF Abstract!TakeEmpty

\* The return of an operation.
LEMMA ReturnRefines ==
  ASSUME ProofAssumption, Types, NEW n \in Nat, NEW h \in [1 .. n -> Nodes], NEW s \in Sides,
         Good(h, n, s), NEW t \in Threads, Return(t)
  PROVE  Abstract!Return(t)
<1>1. pc[t] = "return" /\ pc'[t] = "idle" /\ result' = [result EXCEPT ![t] = Empty]
  BY DEF Return, Goto, Types
<1>2. op' = op /\ data' = data /\ \A u \in Threads \ {t} : pc'[u] = pc[u] /\ loc'[u] = loc[u]
  BY StepFrame DEF Step
<1>3. Contents' = Contents
  <2>1. Good(h, n, s)'  BY ReturnKeeps
  <2>2. Chain(h, n, s) /\ Chain(h, n, s)'  BY <2>1 DEF Good
  <2> QED  BY <1>2, <2>2, ContentsSame
<1>4. Status' = [Status EXCEPT ![t] = Seen(t)'] /\ Status[t] = Seen(t)
  BY <1>2, OneLooksDifferent
<1>5. Seen(t) = "done"  BY <1>1 DEF Seen, Pending
<1>6. Seen(t)' = "idle"  BY <1>1 DEF Seen
<1> QED  BY <1>1, <1>2, <1>3, <1>4, <1>5, <1>6 DEF Abstract!Return

\* Its call.
LEMMA CallRefines ==
  ASSUME ProofAssumption, Types, NEW n \in Nat, NEW h \in [1 .. n -> Nodes], NEW s \in Sides,
         Good(h, n, s), NEW t \in Threads, NEW o \in Operations, Call(t, o)
  PROVE  Abstract!Call(t)
<1>1. /\ pc[t] = "idle" /\ pc' = [pc EXCEPT ![t] = "anchor"]
      /\ op' = [op EXCEPT ![t] = o] /\ result' = result
  BY DEF Call, Goto
<1>2. Good(h, n, s)' /\ Pending(t)' /\ \A k \in 1 .. n : data'[h[k]] = data[h[k]]
  BY CallKeeps
<1>3. \A u \in Threads \ {t} : pc'[u] = pc[u] /\ loc'[u] = loc[u]
  <2>1. \E f : loc' = [loc EXCEPT ![t] = f]  BY DEF Call
  <2> QED  BY <1>1, <2>1 DEF Types
<1>4. Contents' = Contents
  <2>1. Chain(h, n, s) /\ Chain(h, n, s)'  BY <1>2 DEF Good
  <2> QED  BY <1>2, <2>1, ContentsSame
<1>5. Status' = [Status EXCEPT ![t] = Seen(t)'] /\ Status[t] = Seen(t)
  BY <1>3, OneLooksDifferent
<1>6. pc'[t] # "idle"  BY <1>1 DEF Types
<1>7. Seen(t) = "idle"  BY <1>1 DEF Seen
<1>8. Seen(t)' = "pending"  BY <1>2, <1>6 DEF Seen
<1>9. o \in Abstract!Operations  BY SameOperations
<1> QED  BY <1>1, <1>4, <1>5, <1>7, <1>8, <1>9 DEF Abstract!Call

\* Every step of a thread is a step of DequeSpec or a stutter.
LEMMA StepRefines ==
  ASSUME Inv, NEW t \in Threads, Step(t), Watched, WatchEmpty
  PROVE  [Abstract!Next]_(Abstract!vars)
<1>1. ProofAssumption /\ Types
      /\ \E s \in Sides : \E n \in Nat : \E h \in [1 .. n -> Nodes] : Good(h, n, s)
  BY DEF Inv
<1>2. \A s \in Sides : \E n \in Nat : \E h \in [1 .. n -> Nodes] : Good(h, n, s)
  BY <1>1, FromSide
<1>3. Abstract!WatchEmpty  BY SameHistory
<1>4. op[t].side \in Sides /\ loc[t].side \in Sides  BY <1>1, AtThread
<1>5. CASE PushCas(t) /\ m_anchor = loc[t].a
  <2>1. PICK s \in Sides : s = op[t].side  BY <1>4
  <2>2. PICK n \in Nat : \E h \in [1 .. n -> Nodes] : Good(h, n, s)  BY <1>2
  <2>3. PICK h \in [1 .. n -> Nodes] : Good(h, n, s)  BY <2>2
  <2>4. Abstract!TakePush(t)  BY <1>1, <1>5, <2>1, <2>3, PushRefines
  <2> QED  BY <1>3, <2>4 DEF Abstract!Next
<1>6. CASE PopCas(t) /\ m_anchor = loc[t].a
  <2>1. PICK s \in Sides : s = op[t].side  BY <1>4
  <2>2. PICK n \in Nat : \E h \in [1 .. n -> Nodes] : Good(h, n, s)  BY <1>2
  <2>3. PICK h \in [1 .. n -> Nodes] : Good(h, n, s)  BY <2>2
  <2>4. Abstract!TakePop(t)  BY <1>1, <1>6, <2>1, <2>3, PopRefines
  <2> QED  BY <1>3, <2>4 DEF Abstract!Next
<1>7. PICK s \in Sides : s = loc[t].side  BY <1>4
<1>8. PICK n \in Nat : \E h \in [1 .. n -> Nodes] : Good(h, n, s)  BY <1>2
<1>9. PICK h \in [1 .. n -> Nodes] : Good(h, n, s)  BY <1>8
<1>10. CASE Return(t)
  <2>1. Abstract!Return(t)  BY <1>1, <1>9, <1>10, ReturnRefines
  <2> QED  BY <1>3, <2>1 DEF Abstract!Next
<1>11. CASE GetAnchor(t) /\ pc'[t] = "return"
  <2>1. Abstract!TakeEmpty(t)  BY <1>1, <1>9, <1>11, EmptyRefines
  <2> QED  BY <1>3, <2>1 DEF Abstract!Next
<1> SUFFICES ASSUME ~Return(t), ~(GetAnchor(t) /\ pc'[t] = "return"),
                    ~(PushCas(t) /\ m_anchor = loc[t].a), ~(PopCas(t) /\ m_anchor = loc[t].a)
             PROVE  [Abstract!Next]_(Abstract!vars)
  BY <1>5, <1>6, <1>10, <1>11
<1>12. result' = result  BY <1>1, StepFrame
<1>13. Good(h, n, s)' /\ (Pending(t)' <=> Pending(t))
  <2>1. CASE ReserveEnds(t)  BY <1>1, <1>9, <2>1, ReserveEndsKeeps
  <2>2. CASE Recheck(t)  BY <1>1, <1>9, <2>2, RecheckKeeps
  <2>3. CASE PopPrev(t)  BY <1>1, <1>9, <2>3, PopPrevKeeps
  <2>4. CASE StabPrev(t)  BY <1>1, <1>9, <2>4, StabPrevKeeps
  <2>5. CASE ReservePrev(t)  BY <1>1, <1>9, <2>5, ReservePrevKeeps
  <2>6. CASE StabNext(t)  BY <1>1, <1>9, <2>6, StabNextKeeps
  <2>7. CASE GetAnchor(t)
    <3>1. Good(h, n, s)' /\ Pending(t)'  BY <1>1, <1>9, <2>7, GetAnchorKeeps
    <3>2. Pending(t)  BY <2>7 DEF GetAnchor, Pending
    <3> QED  BY <3>1, <3>2
  <2>8. CASE Retire(t)
    <3>1. Good(h, n, s)'  BY <1>1, <1>9, <2>8, RetireKeeps
    <3>2. pc[t] = "retire" /\ pc'[t] = "return"  BY <1>1, <2>8 DEF Retire, Goto, Types
    <3>3. ~Pending(t) /\ ~Pending(t)'  BY <3>2 DEF Pending
    <3> QED  BY <3>1, <3>3
  <2>9. CASE \/ PushCas(t) /\ m_anchor # loc[t].a
             \/ PopCas(t) /\ m_anchor # loc[t].a
             \/ StabLink(t) /\ link[loc[t].prev][loc[t].side] # loc[t].prevNext
             \/ Stable(t) /\ ~Same(t)
    BY <1>1, <1>9, <2>9, FailKeeps
  <2>10. CASE StabLink(t) /\ link[loc[t].prev][loc[t].side] = loc[t].prevNext
    BY <1>1, <1>7, <1>9, <2>10, StabLinkKeeps
  <2>11. CASE Stable(t) /\ Same(t)  BY <1>1, <1>7, <1>9, <2>11, StableKeeps
  <2> QED  BY <2>1, <2>2, <2>3, <2>4, <2>5, <2>6, <2>7, <2>8, <2>9, <2>10, <2>11 DEF Step
<1> QED  BY <1>1, <1>9, <1>12, <1>13, QuietStep

\* The initial states are those of DequeSpec.
LEMMA InitRefines == ProofAssumption /\ LinInit => Abstract!Init /\ Watched
<1> SUFFICES ASSUME ProofAssumption, LinInit PROVE Abstract!Init /\ Watched  OBVIOUS
<1>1. Inv  BY InitInv DEF LinInit
<1>2. /\ m_anchor = Both(Null, "STABLE") /\ pc = [t \in Threads |-> "idle"]
      /\ op = [t \in Threads |-> Pop("L")] /\ result = [t \in Threads |-> Empty] /\ sawEmpty = {}
  BY DEF LinInit, Init
<1>3. Status = [t \in Threads |-> "idle"]
  <2>1. \A t \in Threads : Seen(t) = "idle"  BY <1>2 DEF Seen
  <2> QED  BY <2>1, StatusIs
<1>4. PendingPops = {}  BY <1>3 DEF PendingPops
<1>5. Contents = <<>>
  <2>1. PICK s \in Sides : \E n \in Nat : \E h \in [1 .. n -> Nodes] : Good(h, n, s)  BY <1>1 DEF Inv
  <2>2. PICK n \in Nat : \E h \in [1 .. n -> Nodes] : Good(h, n, s)  BY <2>1
  <2>3. PICK h \in [1 .. n -> Nodes] : Good(h, n, s)  BY <2>2
  <2>4. Chain(h, n, s)  BY <2>3 DEF Good
  <2>5. n = 0
    <3>1. m_anchor.ends["L"] = Null  BY <1>2 DEF Both, Anchor, Sides
    <3> QED  BY <2>4, <3>1, Ends DEF Sides
  <2>6. Contents = Items(FromLeft(h, n, s), n, data)  BY <2>4, ContentsAre DEF ContentsClaim
  <2> QED  BY <2>5, <2>6 DEF Items
<1>6. op \in [Threads -> Abstract!Operations]
  <2>1. Pop("L") \in Abstract!Operations  BY SameOperations DEF Operations, Sides
  <2> QED  BY <1>2, <2>1
<1> QED  BY <1>2, <1>3, <1>4, <1>5, <1>6 DEF Abstract!Init, Watched

\* Every step, call, reuse of a node or stutter is one of DequeSpec.
LEMMA NextRefines ==
  Inv /\ Watched /\ [LinNext]_linVars => [Abstract!Next]_(Abstract!vars) /\ Watched'
<1> SUFFICES ASSUME Inv, Watched, [LinNext]_linVars
             PROVE  [Abstract!Next]_(Abstract!vars) /\ Watched'
  OBVIOUS
<1>1. ASSUME UNCHANGED <<m_anchor, link, data, pc, loc, op, result>>
      PROVE  Contents' = Contents /\ Status' = Status /\ PendingPops' = PendingPops
  <2>1. Contents' = Contents  BY <1>1 DEF Contents, Path
  <2>2. Status' = Status  BY <1>1 DEF Status
  <2> QED  BY <1>1, <2>1, <2>2 DEF PendingPops
<1>2. CASE UNCHANGED linVars
  <2>1. UNCHANGED <<m_anchor, link, data, pc, loc, op, result, sawEmpty>>  BY <1>2 DEF linVars, vars
  <2> QED  BY <1>1, <2>1 DEF Abstract!vars, Watched
<1>3. ASSUME NEW t \in Threads, Step(t), WatchEmpty
      PROVE  [Abstract!Next]_(Abstract!vars) /\ Watched'
  BY <1>3, StepRefines, SameHistory
<1>4. ASSUME NEW t \in Threads, NEW o \in Operations, Call(t, o), WatchEmpty
      PROVE  [Abstract!Next]_(Abstract!vars) /\ Watched'
  <2>1. PICK s \in Sides : \E n \in Nat : \E h \in [1 .. n -> Nodes] : Good(h, n, s)  BY DEF Inv
  <2>2. PICK n \in Nat : \E h \in [1 .. n -> Nodes] : Good(h, n, s)  BY <2>1
  <2>3. PICK h \in [1 .. n -> Nodes] : Good(h, n, s)  BY <2>2
  <2>4. Abstract!Call(t)  BY <1>4, <2>3, CallRefines DEF Inv
  <2> QED  BY <1>4, <2>4, SameHistory DEF Abstract!Next
<1>5. ASSUME NEW x \in Nodes, Reuse(x), WatchEmpty
      PROVE  [Abstract!Next]_(Abstract!vars) /\ Watched'
  <2>1. UNCHANGED <<m_anchor, link, data, pc, loc, op, result>>  BY <1>5 DEF Reuse
  <2>2. sawEmpty' = sawEmpty  BY <1>1, <1>5, <2>1 DEF Watched, WatchEmpty
  <2> QED  BY <1>1, <1>5, <2>1, <2>2, SameHistory DEF Abstract!vars
<1> QED  BY <1>2, <1>3, <1>4, <1>5 DEF LinNext, Next

\* MMDeque is linearizable: it implements the deque of DequeSpec, for any number of threads
\* and of nodes, whoever finishes whose push.
THEOREM Refines == ProofAssumption /\ LinSpec => Linearizable
<1>1. ProofAssumption /\ LinInit => Abstract!Init /\ Watched  BY InitRefines
<1>2. Inv /\ Watched /\ [LinNext]_linVars => [Abstract!Next]_(Abstract!vars) /\ Watched'
  BY NextRefines
<1>3. ProofAssumption /\ LinSpec => []Inv
  <2>1. LinInit => Init  BY DEF LinInit
  <2>2. [LinNext]_linVars => [Next]_vars  BY DEF LinNext, linVars, vars
  <2>3. ProofAssumption /\ Spec => []Inv  BY Invariance
  <2> QED  BY <2>1, <2>2, <2>3, PTL DEF LinSpec, Spec
<1> QED  BY <1>1, <1>2, <1>3, PTL DEF LinSpec, Linearizable, Abstract!Spec
=============================================================================
