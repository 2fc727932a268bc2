--------------------------- MODULE MSQueueProofs ---------------------------
(***************************************************************************)
(* MSQueue is a linearizable queue, for any number of threads and of       *)
(* nodes: the refinement that module MSQueueLin states, proved.            *)
(*                                                                         *)
(* The invariant names the nodes that have been linked so far, h[1] to     *)
(* h[n]: the head is one of them and the tail the last or the one before,  *)
(* and what each thread has loaded lies on this list, in the order of the  *)
(* loads (Knows).  The list only grows and the ends only move on, so what  *)
(* a thread knows outlives the steps of the others (OthersKnow).  Nodes    *)
(* are not used twice, so a compare-and-swap that succeeds has met the     *)
(* node it expects, whatever the tag: tags may wrap.                       *)
(***************************************************************************)
EXTENDS MSQueueLin, TLAPS, FiniteSetTheorems, SequenceTheorems

Frames == [q : {0, 1}, proc : {"none", "enqueue", "dequeue"}, back : {"none", "return"},
           node : Node \cup {Null}, head_old : Ptrs, tail_old : Ptrs, next : Ptrs]
Places == {"idle", "head", "tail", "next", "check", "link", "swing", "help", "remove", "return"}

Types ==
  /\ head_ \in [{1} -> Ptrs] /\ tail_ \in [{1} -> Ptrs]
  /\ next \in [Node -> Ptrs]
  /\ value \in [Node -> Values \cup {Empty}]
  /\ made \in [Threads -> 0 .. NumNodes]
  /\ pc \in [Threads -> Places]
  /\ frame \in [Threads -> Frames]
  /\ op \in [Threads -> QueueOperations]

\* The node is none of h[1], ..., h[n].
Unlinked(node, h, n) == \A a \in 1 .. n : h[a] # node

\* The nodes that have been linked are h[1], ..., h[n], the first sentinel first; the head
\* is h[i], the tail h[j].
Chain(h, n, i, j) ==
  /\ \A a, b \in 1 .. n : h[a] = h[b] => a = b
  /\ i \in 1 .. n /\ j \in i .. n /\ n - j <= 1
  /\ head_[1].value = h[i] /\ tail_[1].value = h[j]
  /\ \A a \in 1 .. (n - 1) : next[h[a]].value = h[a + 1]
  /\ \A node \in Node : Unlinked(node, h, n - 1) => next[node].value = Null
  /\ \A t \in Threads : \A k \in (made[t] + 1) .. NumNodes : Unlinked(<<t, k>>, h, n)

\* One node is linked behind those of h, with the value v.
Extends(g, m, h, n, v) == m = n + 1 /\ (\A a \in 1 .. n : g[a] = h[a]) /\ value[g[m]] = v

\* y is the node behind x.
Follows(x, y, h, n) == \E a \in 1 .. (n - 1) : x = h[a] /\ y = h[a + 1]

\* What an enqueue knows by what it has loaded: the tail was on the list, what follows it
\* is its successor, and its own node is linked when it has won.
EnqueueKnows(t, h, n, j) ==
  LET f == frame[t] IN
  /\ pc[t] \in {"tail", "next", "check", "link", "swing", "help", "return"}
  /\ op[t].kind = "push"
  /\ f.node = <<t, made[t]>> /\ made[t] > 0 /\ value[f.node] = op[t].val
  /\ pc[t] \notin {"swing", "return"} => Unlinked(f.node, h, n)
  /\ pc[t] \in {"next", "check", "link", "help"} => \E a \in 1 .. j : f.tail_old.value = h[a]
  /\ pc[t] = "check" => f.next.value = Null \/ Follows(f.tail_old.value, f.next.value, h, n)
  /\ pc[t] = "link"  => f.next.value = Null
  /\ pc[t] = "help"  => Follows(f.tail_old.value, f.next.value, h, n)
  /\ pc[t] = "swing" => Follows(f.tail_old.value, f.node, h, n)

\* What a dequeue knows: the head was on the list, the tail not before it, and what follows
\* is the successor of the head; if there was none, it has seen the queue empty.
DequeueKnows(t, h, n, i, j) ==
  LET f == frame[t] IN
  /\ pc[t] \in {"head", "tail", "next", "check", "help", "remove", "return"}
  /\ op[t].kind = "pop"
  /\ pc[t] = "tail" => \E a \in 1 .. i : f.head_old.value = h[a]
  /\ pc[t] \in {"next", "check", "help", "remove"} =>
       \E a \in 1 .. i : \E b \in a .. j : f.head_old.value = h[a] /\ f.tail_old.value = h[b]
  /\ pc[t] = "check" => \/ f.next.value = Null /\ NoItem(t) /\ t \in sawEmpty
                        \/ Follows(f.head_old.value, f.next.value, h, n)
  /\ pc[t] \in {"help", "remove"} => Follows(f.head_old.value, f.next.value, h, n)
  /\ pc[t] = "help"   => f.head_old.value = f.tail_old.value
  /\ pc[t] = "remove" => f.head_old.value # f.tail_old.value
  /\ pc[t] = "return" => NoItem(t) \/ \E a \in 1 .. n : f.next.value = h[a]

Knows(t, h, n, i, j) ==
  pc[t] # "idle" =>
    /\ frame[t].q = 1 /\ frame[t].back = "return"
    /\ \/ frame[t].proc = "enqueue" /\ EnqueueKnows(t, h, n, j)
       \/ frame[t].proc = "dequeue" /\ DequeueKnows(t, h, n, i, j)

Inv ==
  /\ LinAssumption
  /\ Types
  /\ \E n \in Nat : \E h \in [1 .. n -> Node] : \E i, j \in 1 .. n :
       Chain(h, n, i, j) /\ \A t \in Threads : Knows(t, h, n, i, j)

-----------------------------------------------------------------------------
(* Walks along the links. *)

\* A set with 0, and with the successor of each of its members below n, has all of 0 .. n.
LEMMA Counting ==
  ASSUME NEW n \in Nat, NEW S, 0 \in S,
         \A k \in 0 .. (n - 1) : k \in S => k + 1 \in S
  PROVE  \A k \in 0 .. n : k \in S
<1> DEFINE T == { k \in 0 .. n : k \notin S }
<1>1. \A k \in T : k - 1 \in T
  <2> SUFFICES ASSUME NEW k \in T PROVE k - 1 \in T  OBVIOUS
  <2>1. k # 0 /\ k \in 1 .. n /\ k - 1 \in 0 .. (n - 1)  OBVIOUS
  <2>2. (k - 1) + 1 = k  BY <2>1
  <2>3. k - 1 \notin S  BY <2>1, <2>2
  <2> QED  BY <2>1, <2>3
<1>2. SUFFICES ASSUME NEW m \in T PROVE FALSE  OBVIOUS
<1> DEFINE U == { k \in T : k <= m }
           f == [k \in U |-> k - 1]
<1>3. U \subseteq 0 .. m /\ m \in U  OBVIOUS
<1>4. IsFiniteSet(U)
  <2>1. IsFiniteSet(0 .. m)  BY FS_Interval
  <2> QED  BY <1>3, <2>1, FS_Subset
<1>5. IsFiniteSet(U \ {m}) /\ Cardinality(U \ {m}) = Cardinality(U) - 1
  BY <1>3, <1>4, FS_RemoveElement
<1>6. Cardinality(U) \in Nat  BY <1>4, FS_CardinalityType
<1>7. f \in [U -> U \ {m}]
  <2>1. \A k \in U : k - 1 \in U \ {m}  BY <1>1, <1>3
  <2> QED  BY <2>1
<1>8. PICK x, y \in U : x # y /\ f[x] = f[y]
  <2>1. Cardinality(U \ {m}) < Cardinality(U)  BY <1>5, <1>6
  <2> HIDE DEF U, f
  <2> QED  BY <1>4, <1>5, <1>7, <2>1, FS_PigeonHole
<1> QED  BY <1>3, <1>8

\* There are finitely many nodes, and Null is none of them.
LEMMA Nodes ==
  ASSUME LinAssumption
  PROVE  IsFiniteSet(Node) /\ Cardinality(Node) \in Nat /\ Null \notin Node
<1>1. IsFiniteSet(1 .. NumNodes)  BY FS_Interval DEF LinAssumption, MSQueueAssumption
<1>2. IsFiniteSet(Threads \X (1 .. NumNodes))  BY <1>1, FS_Product DEF LinAssumption
<1>3. { SentinelOf(q) : q \in Queues } = { SentinelOf(1) }  BY DEF LinAssumption
<1>4. IsFiniteSet(Node)  BY <1>2, <1>3, FS_Singleton, FS_Union DEF Node
<1>5. Null \notin Node
  BY DEF LinAssumption, MSQueueAssumption, Node, Null, SentinelOf
<1> QED  BY <1>4, <1>5, FS_CardinalityType

\* The nodes of a walk are computed from each other.
Walked(first, links, g) ==
  [k \in 0 .. Cardinality(Node) |->
     IF k = 0 THEN first ELSE IF g[k - 1] = Null THEN Null ELSE links[g[k - 1]].value]

\* The recursive function Walk satisfies its equation when some function does.
LEMMA WalkDef ==
  ASSUME NEW first, NEW links, NEW F, F = Walked(first, links, F)
  PROVE  Walk(first, links) = Walked(first, links, Walk(first, links))
<1>1. Walk(first, links) = CHOOSE g : g = Walked(first, links, g)  BY DEF Walk, Walked
<1> QED  BY <1>1

\* The links lead from each node of h to the next, and from the last one nowhere.
Row(h, n, links) ==
  /\ \A a, b \in 1 .. n : h[a] = h[b] => a = b
  /\ \A a \in 1 .. (n - 1) : links[h[a]].value = h[a + 1]
  /\ links[h[n]].value = Null

\* The part of h behind its i-th node.
Rest(h, n, i) == [k \in 1 .. (n - i) |-> h[i + k]]

\* A walk along the nodes of h, from the i-th on.
LEMMA Walking ==
  ASSUME LinAssumption, NEW links, NEW n \in Nat, NEW h \in [1 .. n -> Node], NEW i \in 1 .. n,
         Row(h, n, links)
  PROVE  \A k \in 0 .. Cardinality(Node) :
           Walk(h[i], links)[k] = IF i + k <= n THEN h[i + k] ELSE Null
<1> DEFINE c == Cardinality(Node)
           F == [k \in 0 .. c |-> IF i + k <= n THEN h[i + k] ELSE Null]
<1>1. c \in Nat  BY Nodes
<1>2. \A a \in 1 .. n : h[a] # Null  BY Nodes
<1>3. \A k \in 1 .. c : F[k] = IF F[k - 1] = Null THEN Null ELSE links[F[k - 1]].value
  <2> SUFFICES ASSUME NEW k \in 1 .. c
               PROVE  F[k] = IF F[k - 1] = Null THEN Null ELSE links[F[k - 1]].value
    OBVIOUS
  <2>1. k - 1 \in 0 .. c /\ k \in 0 .. c /\ i + (k - 1) = (i + k) - 1  BY <1>1
  <2>2. CASE i + k <= n
    <3>1. (i + k) - 1 \in 1 .. (n - 1) /\ ((i + k) - 1) + 1 = i + k  BY <2>1, <2>2
    <3>2. F[k - 1] = h[(i + k) - 1] /\ F[k] = h[i + k]  BY <2>1, <2>2, <3>1
    <3>3. F[k - 1] # Null  BY <1>2, <3>1, <3>2
    <3> QED  BY <3>1, <3>2, <3>3 DEF Row
  <2>3. CASE i + k = n + 1
    <3>1. F[k - 1] = h[n] /\ F[k] = Null  BY <2>1, <2>3
    <3> QED  BY <1>2, <3>1 DEF Row
  <2>4. CASE i + k > n + 1
    BY <2>1, <2>4
  <2> QED  BY <1>1, <2>2, <2>3, <2>4
<1>4. F = Walked(h[i], links, F)
  <2>1. F[0] = h[i]  BY <1>1
  <2>a. \A k \in 0 .. c : k = 0 \/ k \in 1 .. c  BY <1>1
  <2>2. \A k \in 0 .. c : F[k] = IF k = 0 THEN h[i]
                                  ELSE IF F[k - 1] = Null THEN Null ELSE links[F[k - 1]].value
    <3> HIDE DEF F
    <3> QED  BY <1>3, <2>1, <2>a
  <2>3. F = [k \in 0 .. c |-> F[k]]  OBVIOUS
  <2> HIDE DEF F
  <2> QED  BY <2>2, <2>3 DEF Walked
<1> HIDE DEF F
<1> DEFINE w == Walk(h[i], links)
<1>5. w = Walked(h[i], links, w)  BY <1>4, WalkDef
<1> HIDE DEF w
<1> DEFINE S == { k \in 0 .. c : w[k] = F[k] }
<1>6. \A k \in 0 .. c : k \in S
  <2>1. 0 \in S  BY <1>1, <1>4, <1>5 DEF Walked
  <2>2. ASSUME NEW k \in 0 .. (c - 1), k \in S PROVE k + 1 \in S
    <3>1. k + 1 \in 0 .. c /\ k + 1 # 0 /\ (k + 1) - 1 = k  BY <1>1
    <3>2. w[k + 1] = IF w[k] = Null THEN Null ELSE links[w[k]].value  BY <1>5, <3>1 DEF Walked
    <3>3. F[k + 1] = IF F[k] = Null THEN Null ELSE links[F[k]].value  BY <1>4, <3>1 DEF Walked
    <3> QED  BY <2>2, <3>1, <3>2, <3>3
  <2> HIDE DEF S
  <2> QED  BY <1>1, <2>1, <2>2, Counting
<1> QED  BY <1>6 DEF F, w

\* Linked nodes are not more than nodes.
LEMMA NotTooMany ==
  ASSUME LinAssumption, NEW n \in Nat, NEW h \in [1 .. n -> Node],
         \A a, b \in 1 .. n : h[a] = h[b] => a = b
  PROVE  Cardinality(Node) \in Nat /\ n <= Cardinality(Node)
<1>1. IsFiniteSet(Node)  BY Nodes
<1>2. h \in Injection(1 .. n, Node)  BY DEF Injection, IsInjective
<1>3. Cardinality(1 .. n) = n  BY FS_Interval
<1> QED  BY <1>1, <1>2, <1>3, FS_Injection, FS_CardinalityType

\* The nodes behind the i-th of h are those that follow it in h.
LEMMA BehindIs ==
  ASSUME LinAssumption, NEW links, NEW n \in Nat, NEW h \in [1 .. n -> Node], NEW i \in 1 .. n,
         Row(h, n, links)
  PROVE  Behind(h[i], links) = Rest(h, n, i)
<1>0. \A k \in 0 .. Cardinality(Node) :
       Walk(h[i], links)[k] = IF i + k <= n THEN h[i + k] ELSE Null
  BY Walking
<1> DEFINE c == Cardinality(Node)
           w == Walk(h[i], links)
<1>1. c \in Nat /\ n <= c  BY NotTooMany DEF Row
<1>2. \A k \in 0 .. c : w[k] = IF i + k <= n THEN h[i + k] ELSE Null  BY <1>0
<1>3. \A a \in 1 .. n : h[a] # Null  BY Nodes
<1> HIDE DEF c, w
<1> DEFINE Last(k) == w[k] # Null /\ (k = c \/ w[k + 1] = Null)
<1>4. n - i \in 0 .. c /\ n - i # c  BY <1>1
<1>5. Last(n - i)
  <2>1. i + (n - i) = n /\ (n - i) + 1 \in 0 .. c /\ i + ((n - i) + 1) = n + 1
    BY <1>1
  <2>2. w[n - i] = h[n]  BY <1>2, <1>4, <2>1
  <2>3. w[(n - i) + 1] = Null
    <3>1. ~(n + 1 <= n)  OBVIOUS
    <3> QED  BY <1>2, <2>1, <3>1
  <2> QED  BY <1>3, <2>2, <2>3
<1>6. ASSUME NEW k \in 0 .. c, Last(k) PROVE k = n - i
  <2>1. i + k <= n  BY <1>2, <1>6
  <2>2. k < n - i => k + 1 \in 0 .. c /\ i + (k + 1) \in 1 .. n
    BY <1>1, <2>1
  <2>3. k < n - i => w[k + 1] = h[i + (k + 1)] /\ k # c  BY <1>1, <1>2, <2>2
  <2>4. ~(k < n - i)  BY <1>3, <1>6, <2>2, <2>3
  <2> QED  BY <2>1, <2>4
<1> DEFINE len == CHOOSE k \in 0 .. c : Last(k)
<1> HIDE DEF Last
<1>7. len = n - i  BY <1>4, <1>5, <1>6
<1>8. Behind(h[i], links) = [k \in 1 .. len |-> w[k]]  BY DEF Behind, len, Last, w, c
<1>9. \A k \in 1 .. (n - i) : w[k] = h[i + k]
  BY <1>1, <1>2
<1> HIDE DEF len
<1> QED  BY <1>7, <1>8, <1>9 DEF Rest

-----------------------------------------------------------------------------
(* What a queue contains. *)

\* The queue has one set of ends, and nodes are not Null.
LEMMA Basics ==
  ASSUME LinAssumption, Types
  PROVE  /\ NumNodes \in Nat /\ Null \notin Node /\ SentinelOf(1) \in Node
         /\ \A t \in Threads : \A k \in 1 .. NumNodes : <<t, k>> \in Node
         /\ \A t \in Threads : made[t] \in 0 .. NumNodes /\ frame[t] \in Frames /\ pc[t] \in Places
         /\ head_[1] \in Ptrs /\ tail_[1] \in Ptrs
         /\ \A node \in Node : next[node] \in Ptrs
<1>1. Null \notin Node  BY Nodes
<1> QED  BY <1>1 DEF LinAssumption, MSQueueAssumption, Types, Node, SentinelOf

\* The last linked node has no successor.
LEMMA LastNode ==
  ASSUME LinAssumption, NEW n \in Nat, NEW h \in [1 .. n -> Node], NEW i, NEW j, Chain(h, n, i, j)
  PROVE  /\ i \in 1 .. n /\ j \in i .. n /\ next[h[n]].value = Null
         /\ \A a \in 1 .. n : h[a] \in Node /\ h[a] # Null
         /\ \A a \in 1 .. n : next[h[a]].value = Null <=> a = n
<1>1. i \in 1 .. n /\ j \in i .. n  BY DEF Chain
<1>2. n \in 1 .. n  BY <1>1
<1>3. Unlinked(h[n], h, n - 1)  BY <1>2 DEF Chain, Unlinked
<1>4. h[n] \in Node  BY <1>2
<1>5. next[h[n]].value = Null  BY <1>3, <1>4 DEF Chain
<1>6. \A a \in 1 .. n : h[a] \in Node /\ h[a] # Null  BY Nodes
<1>7. ASSUME NEW a \in 1 .. n, a # n PROVE next[h[a]].value # Null
  <2>1. a \in 1 .. (n - 1) /\ a + 1 \in 1 .. n  BY <1>7
  <2>2. next[h[a]].value = h[a + 1]  BY <2>1 DEF Chain
  <2> QED  BY <1>6, <2>1, <2>2
<1> QED  BY <1>1, <1>5, <1>6, <1>7

\* What a node stores.
Stored == Values \cup {Empty}

\* The values v of the nodes of h behind the i-th.
Items(h, n, i, v) == [k \in 1 .. (n - i) |-> v[h[i + k]]]

\* The items are a sequence, empty when the i-th node is the last.
LEMMA ItemsSeq ==
  ASSUME NEW n \in Nat, NEW h \in [1 .. n -> Node], NEW i \in 1 .. n, NEW v \in [Node -> Stored]
  PROVE  /\ Items(h, n, i, v) \in Seq(Stored) /\ Len(Items(h, n, i, v)) = n - i
         /\ \A k \in 1 .. (n - i) : Items(h, n, i, v)[k] = v[h[i + k]]
         /\ Items(h, n, i, v) = << >> <=> i = n
<1> DEFINE s == Items(h, n, i, v)
<1>1. n - i \in Nat  OBVIOUS
<1>2. \A k \in 1 .. (n - i) : i + k \in 1 .. n /\ v[h[i + k]] \in Stored
  <2> SUFFICES ASSUME NEW k \in 1 .. (n - i) PROVE i + k \in 1 .. n /\ v[h[i + k]] \in Stored
    OBVIOUS
  <2>1. i + k \in 1 .. n  OBVIOUS
  <2> QED  BY <2>1
<1>3. s \in [1 .. (n - i) -> Stored]  BY <1>2 DEF Items
<1>4. s \in Seq(Stored)  BY <1>1, <1>3, SeqDef
<1>5. Len(s) = n - i
  <2>1. DOMAIN s = 1 .. (n - i)  BY DEF Items
  <2>2. DOMAIN s = 1 .. Len(s) /\ Len(s) \in Nat  BY <1>4, LenProperties
  <2> HIDE DEF s
  <2> QED  BY <1>1, <2>1, <2>2
<1>6. \A k \in 1 .. (n - i) : s[k] = v[h[i + k]]  BY DEF Items
<1> HIDE DEF s
<1>7. s = << >> <=> Len(s) = 0  BY <1>4, EmptySeq
<1> QED  BY <1>1, <1>4, <1>5, <1>6, <1>7 DEF s

\* The head moves on: the first item goes.
LEMMA ItemsTail ==
  ASSUME NEW n \in Nat, NEW h \in [1 .. n -> Node], NEW i \in 1 .. (n - 1), NEW v \in [Node -> Stored]
  PROVE  /\ Items(h, n, i, v) # << >>
         /\ Head(Items(h, n, i, v)) = v[h[i + 1]]
         /\ Tail(Items(h, n, i, v)) = Items(h, n, i + 1, v)
<1> DEFINE s == Items(h, n, i, v)
           r == Items(h, n, i + 1, v)
<1>1. i \in 1 .. n /\ i # n /\ i + 1 \in 1 .. n /\ n - i \in Nat  OBVIOUS
<1>2. s \in Seq(Stored) /\ Len(s) = n - i /\ s # << >>
      /\ \A k \in 1 .. (n - i) : s[k] = v[h[i + k]]
  <2>1. Items(h, n, i, v) \in Seq(Stored) /\ Len(Items(h, n, i, v)) = n - i  BY <1>1, ItemsSeq
  <2>2. \A k \in 1 .. (n - i) : Items(h, n, i, v)[k] = v[h[i + k]]  BY <1>1, ItemsSeq
  <2>3. Items(h, n, i, v) # << >>  BY <1>1, ItemsSeq
  <2> QED  BY <2>1, <2>2, <2>3
<1>3. r \in Seq(Stored) /\ Len(r) = n - (i + 1)
      /\ \A k \in 1 .. (n - (i + 1)) : r[k] = v[h[(i + 1) + k]]
  <2>1. Items(h, n, i + 1, v) \in Seq(Stored) /\ Len(Items(h, n, i + 1, v)) = n - (i + 1)
    BY <1>1, ItemsSeq
  <2>2. \A k \in 1 .. (n - (i + 1)) : Items(h, n, i + 1, v)[k] = v[h[(i + 1) + k]]
    BY <1>1, ItemsSeq
  <2> QED  BY <2>1, <2>2
<1> HIDE DEF s, r
<1>4. Head(s) = s[1]  BY <1>2
<1>5. Tail(s) \in Seq(Stored) /\ Len(Tail(s)) = Len(s) - 1
      /\ \A k \in 1 .. Len(Tail(s)) : Tail(s)[k] = s[k + 1]
  BY <1>2, HeadTailProperties
<1>6. Len(Tail(s)) = Len(r)  BY <1>1, <1>2, <1>3, <1>5
<1>7. \A k \in 1 .. Len(Tail(s)) : Tail(s)[k] = r[k]
  <2> SUFFICES ASSUME NEW k \in 1 .. Len(Tail(s)) PROVE Tail(s)[k] = r[k]  OBVIOUS
  <2>1. k \in 1 .. (n - (i + 1)) /\ k + 1 \in 1 .. (n - i) /\ i + (k + 1) = (i + 1) + k
    BY <1>1, <1>2, <1>5
  <2> QED  BY <1>2, <1>3, <1>5, <2>1
<1>8. Tail(s) = r  BY <1>3, <1>5, <1>6, <1>7, SeqEqual
<1>9. s[1] = v[h[i + 1]]  BY <1>1, <1>2
<1> QED  BY <1>2, <1>4, <1>8, <1>9 DEF s, r

\* A node is appended: its value is the last item.
LEMMA ItemsAppend ==
  ASSUME NEW n \in Nat, NEW h \in [1 .. n -> Node], NEW i \in 1 .. n, NEW v \in [Node -> Stored],
         NEW g \in [1 .. (n + 1) -> Node], \A a \in 1 .. n : g[a] = h[a]
  PROVE  Items(g, n + 1, i, v) = Append(Items(h, n, i, v), v[g[n + 1]])
<1> DEFINE s == Items(h, n, i, v)
           r == Items(g, n + 1, i, v)
           y == v[g[n + 1]]
<1>1. n + 1 \in Nat /\ i \in 1 .. (n + 1) /\ n + 1 \in 1 .. (n + 1) /\ n - i \in Nat  OBVIOUS
<1>2. s \in Seq(Stored) /\ Len(s) = n - i /\ \A k \in 1 .. (n - i) : s[k] = v[h[i + k]]
  <2>1. Items(h, n, i, v) \in Seq(Stored)  BY ItemsSeq
  <2>2. Len(Items(h, n, i, v)) = n - i  BY ItemsSeq
  <2>3. \A k \in 1 .. (n - i) : Items(h, n, i, v)[k] = v[h[i + k]]  BY ItemsSeq
  <2> QED  BY <2>1, <2>2, <2>3
<1>3. r \in Seq(Stored) /\ Len(r) = (n + 1) - i /\ \A k \in 1 .. ((n + 1) - i) : r[k] = v[g[i + k]]
  <2>1. Items(g, n + 1, i, v) \in Seq(Stored)  BY <1>1, ItemsSeq
  <2>2. Len(Items(g, n + 1, i, v)) = (n + 1) - i
    <3>1. PICK m \in Nat : m = n + 1  BY <1>1
    <3>2. g \in [1 .. m -> Node] /\ i \in 1 .. m  BY <1>1, <3>1
    <3>3. Len(Items(g, m, i, v)) = m - i  BY <3>2, ItemsSeq
    <3> QED  BY <3>1, <3>3
  <2>3. \A k \in 1 .. ((n + 1) - i) : Items(g, n + 1, i, v)[k] = v[g[i + k]]
    BY <1>1, ItemsSeq
  <2> QED  BY <2>1, <2>2, <2>3
<1>4. y \in Stored  BY <1>1
<1> HIDE DEF s, r
<1>5. Append(s, y) \in Seq(Stored) /\ Len(Append(s, y)) = Len(s) + 1
      /\ \A k \in 1 .. Len(s) : Append(s, y)[k] = s[k]
      /\ Append(s, y)[Len(s) + 1] = y
  <2> HIDE DEF y
  <2>1. Append(s, y) \in Seq(Stored) /\ Len(Append(s, y)) = Len(s) + 1
    BY <1>2, <1>4, AppendProperties
  <2>2. \A k \in 1 .. Len(s) : Append(s, y)[k] = s[k]  BY <1>2, <1>4, AppendProperties
  <2>3. Append(s, y)[Len(s) + 1] = y
    <3>1. s \in Seq(Stored)  BY <1>2
    <3> QED  BY <1>4, <3>1, AppendProperties, ZenonT(30)
  <2> QED  BY <2>1, <2>2, <2>3
<1>6. ASSUME NEW k \in 1 .. Len(r) PROVE r[k] = Append(s, y)[k]
  <2>1. CASE k \in 1 .. (n - i)
    <3>1. i + k \in 1 .. n /\ k \in 1 .. ((n + 1) - i)  BY <2>1
    <3>2. v[g[i + k]] = v[h[i + k]]  BY <3>1
    <3> QED  BY <1>2, <1>3, <1>5, <2>1, <3>1, <3>2
  <2>2. CASE k = (n + 1) - i
    <3>1. i + k = n + 1 /\ k = Len(s) + 1 /\ k \in 1 .. ((n + 1) - i)  BY <1>1, <1>2, <2>2
    <3>2. r[k] = v[g[i + k]]  BY <1>3, <3>1
    <3> QED  BY <1>5, <3>1, <3>2
  <2>3. k \in 1 .. (n - i) \/ k = (n + 1) - i  BY <1>1, <1>3
  <2> QED  BY <2>1, <2>2, <2>3
<1>7. Len(r) = Len(Append(s, y))  BY <1>1, <1>2, <1>3, <1>5
<1> HIDE DEF y
<1>8. r = Append(s, y)  BY <1>3, <1>5, <1>6, <1>7, SeqEqual
<1> QED  BY <1>8 DEF s, r, y

\* The contents are the values of the linked nodes behind the head.
LEMMA ContentsAre ==
  ASSUME LinAssumption, NEW n \in Nat, NEW h \in [1 .. n -> Node], NEW i, NEW j, Chain(h, n, i, j)
  PROVE  /\ Path(1) = Rest(h, n, i)
         /\ Contents(1) = Items(h, n, i, value)
<1>1. i \in 1 .. n /\ next[h[n]].value = Null  BY LastNode
<1>2. Row(h, n, next) /\ head_[1].value = h[i]  BY <1>1 DEF Chain, Row
<1>3. Path(1) = Rest(h, n, i)
  <2>1. Behind(h[i], next) = Rest(h, n, i)  BY <1>1, <1>2, BehindIs
  <2> QED  BY <1>2, <2>1 DEF Path
<1> QED  BY <1>3 DEF Contents, Rest, Items

\* The same of the next state.
LEMMA ContentsNext ==
  ASSUME LinAssumption, NEW n \in Nat, NEW h \in [1 .. n -> Node], NEW i, NEW j, Chain(h, n, i, j)'
  PROVE  Contents(1)' = Items(h, n, i, value')
<1>1. i \in 1 .. n /\ n \in 1 .. n  BY DEF Chain
<1>2. Unlinked(h[n], h, n - 1)  BY <1>1 DEF Chain, Unlinked
<1>3. next'[h[n]].value = Null  BY <1>1, <1>2 DEF Chain
<1>4. Row(h, n, next') /\ head_'[1].value = h[i]  BY <1>3 DEF Chain, Row
<1>5. Path(1)' = Rest(h, n, i)
  <2>1. Behind(h[i], next') = Rest(h, n, i)  BY <1>1, <1>4, BehindIs
  <2> QED  BY <1>4, <2>1 DEF Path
<1> QED  BY <1>5 DEF Contents, Rest, Items

\* What a thread knows outlives the steps of another thread t, which appends nodes of its
\* own, or none, and moves the ends on.
LEMMA OthersKnow ==
  ASSUME LinAssumption, Types, NEW t \in Threads,
         NEW n \in Nat, NEW h \in [1 .. n -> Node], NEW i \in 1 .. n, NEW j \in 1 .. n,
         NEW m \in Nat, NEW g \in [1 .. m -> Node], NEW r \in 1 .. m, NEW s \in 1 .. m,
         n <= m, \A a \in 1 .. n : g[a] = h[a], i <= r, j <= s,
         \A a \in (n + 1) .. m : \E k \in Nat : g[a] = <<t, k>>,
         NEW u \in Threads, u # t, Knows(u, h, n, i, j),
         pc'[u] = pc[u], frame'[u] = frame[u], op'[u] = op[u], made'[u] = made[u],
         \A k \in 1 .. NumNodes : value'[<<u, k>>] = value[<<u, k>>],
         WatchEmpty
  PROVE  Knows(u, g, m, r, s)'
<1> SUFFICES ASSUME pc[u] # "idle"
             PROVE  /\ frame[u].q = 1 /\ frame[u].back = "return"
                    /\ \/ frame[u].proc = "enqueue" /\ EnqueueKnows(u, g, m, s)'
                       \/ frame[u].proc = "dequeue" /\ DequeueKnows(u, g, m, r, s)'
  BY DEF Knows
<1> DEFINE f == frame[u]
<1>1. f.q = 1 /\ f.back = "return"  BY DEF Knows
<1>2. ASSUME NEW x, NEW y, Follows(x, y, h, n) PROVE Follows(x, y, g, m)
  <2>1. PICK a \in 1 .. (n - 1) : x = h[a] /\ y = h[a + 1]  BY <1>2 DEF Follows
  <2>2. a \in 1 .. (m - 1) /\ a \in 1 .. n /\ a + 1 \in 1 .. n  OBVIOUS
  <2> QED  BY <2>1, <2>2 DEF Follows
<1>3. made[u] \in 0 .. NumNodes /\ NumNodes \in Nat  BY Basics
<1>4. ASSUME f.proc = "enqueue" PROVE EnqueueKnows(u, g, m, s)'
  <2>1. EnqueueKnows(u, h, n, j)  BY <1>4 DEF Knows
  <2>2. f.node = <<u, made[u]>> /\ made[u] \in 1 .. NumNodes  BY <1>3, <2>1 DEF EnqueueKnows
  <2>3. value'[f.node] = value[f.node]  BY <2>2
  <2>4. Unlinked(f.node, h, n) => Unlinked(f.node, g, m)
    <3> SUFFICES ASSUME Unlinked(f.node, h, n), NEW a \in 1 .. m PROVE g[a] # f.node
      BY DEF Unlinked
    <3>1. CASE a \in 1 .. n  BY <3>1 DEF Unlinked
    <3>2. CASE a \in (n + 1) .. m  BY <2>2, <3>2
    <3> QED  BY <3>1, <3>2
  <2>5. (\E a \in 1 .. j : f.tail_old.value = h[a]) => \E a \in 1 .. s : f.tail_old.value = g[a]
    <3> SUFFICES ASSUME NEW a \in 1 .. j PROVE a \in 1 .. s /\ g[a] = h[a]  OBVIOUS
    <3> QED  OBVIOUS
  <2> QED  BY <1>2, <2>1, <2>3, <2>4, <2>5 DEF EnqueueKnows
<1>5. ASSUME f.proc = "dequeue" PROVE DequeueKnows(u, g, m, r, s)'
  <2>1. DequeueKnows(u, h, n, i, j)  BY <1>5 DEF Knows
  <2>2. (\E a \in 1 .. i : f.head_old.value = h[a]) => \E a \in 1 .. r : f.head_old.value = g[a]
    <3> SUFFICES ASSUME NEW a \in 1 .. i PROVE a \in 1 .. r /\ g[a] = h[a]  OBVIOUS
    <3> QED  OBVIOUS
  <2>3. (\E a \in 1 .. i : \E b \in a .. j : f.head_old.value = h[a] /\ f.tail_old.value = h[b])
          => \E a \in 1 .. r : \E b \in a .. s : f.head_old.value = g[a] /\ f.tail_old.value = g[b]
    <3> SUFFICES ASSUME NEW a \in 1 .. i, NEW b \in a .. j
                 PROVE  a \in 1 .. r /\ b \in a .. s /\ g[a] = h[a] /\ g[b] = h[b]
      OBVIOUS
    <3> QED  OBVIOUS
  <2>4. (\E a \in 1 .. n : f.next.value = h[a]) => \E a \in 1 .. m : f.next.value = g[a]
    <3> SUFFICES ASSUME NEW a \in 1 .. n PROVE a \in 1 .. m /\ g[a] = h[a]  OBVIOUS
    <3> QED  OBVIOUS
  <2>5. pc[u] = "check" /\ u \in sawEmpty => u \in sawEmpty'
    <3> SUFFICES ASSUME pc[u] = "check", u \in sawEmpty PROVE u \in sawEmpty'  OBVIOUS
    <3>1. Status'[u] = "pending"  BY DEF Status
    <3>2. op'[u].kind = "pop"  BY <2>1 DEF DequeueKnows
    <3>3. u \in PendingPops'  BY <3>1, <3>2 DEF PendingPops
    <3> QED  BY <3>3 DEF WatchEmpty
  <2>6. NoItem(u)' = NoItem(u)  BY DEF NoItem
  <2> QED  BY <1>2, <2>1, <2>2, <2>3, <2>4, <2>5, <2>6 DEF DequeueKnows
<1>6. f.proc \in {"enqueue", "dequeue"}  BY DEF Knows
<1> QED  BY <1>1, <1>4, <1>5, <1>6

-----------------------------------------------------------------------------
(* Steps that only read, or lose a race. *)

\* Pointers with a tag.
LEMMA PtrType ==
  ASSUME NEW x \in Node \cup {Null}, NEW k \in Nat
  PROVE  NodePtr(x, k) \in Ptrs /\ NodePtr(x, k).value = x
<1>1. TagRange \in Nat \ {0}  BY DEF TagRange
<1>2. k % TagRange \in Tags  BY <1>1 DEF Tags
<1> QED  BY <1>2 DEF NodePtr, Ptrs

\* The parts of a pointer, and its next tag, which is not yet taken modulo TagRange.
LEMMA PtrParts ==
  ASSUME NEW p \in Ptrs
  PROVE  p.value \in Node \cup {Null} /\ p.tag + 1 \in Nat
<1>1. TagRange \in Nat  BY DEF TagRange
<1>2. p.tag \in Tags /\ p.value \in Node \cup {Null}  BY DEF Ptrs
<1>3. p.tag \in Nat  BY <1>1, <1>2 DEF Tags
<1> QED  BY <1>2, <1>3

\* Places and frames keep their types.
LEMMA KeepsTypes ==
  ASSUME Types, NEW t \in Threads, NEW l \in Places, Goto(t, l), NEW x \in Frames,
         frame' = [frame EXCEPT ![t] = x],
         UNCHANGED <<head_, tail_, next, value, made, op>>
  PROVE  Types'
<1>1. pc' \in [Threads -> Places] /\ frame' \in [Threads -> Frames]  BY DEF Types, Goto
<1> QED  BY <1>1 DEF Types

\* A step of t that changes only its own place and locals.
LEMMA LocalStep ==
  ASSUME LinAssumption, Types, NEW t \in Threads,
         NEW n \in Nat, NEW h \in [1 .. n -> Node], NEW i, NEW j,
         Chain(h, n, i, j), \A u \in Threads : Knows(u, h, n, i, j),
         UNCHANGED <<head_, tail_, next, value, made, op>>,
         NEW l, Goto(t, l), NEW x, frame' = [frame EXCEPT ![t] = x],
         Knows(t, h, n, i, j)', WatchEmpty
  PROVE  Chain(h, n, i, j)' /\ \A u \in Threads : Knows(u, h, n, i, j)'
<1>1. Chain(h, n, i, j)'  BY DEF Chain
<1>2. ASSUME NEW u \in Threads, u # t PROVE Knows(u, h, n, i, j)'
  <2>1. pc'[u] = pc[u] /\ frame'[u] = frame[u] /\ op'[u] = op[u] /\ made'[u] = made[u]
    BY <1>2 DEF Types, Goto
  <2>2. i \in 1 .. n /\ j \in 1 .. n  BY DEF Chain
  <2>3. \A k \in 1 .. NumNodes : value'[<<u, k>>] = value[<<u, k>>]  OBVIOUS
  <2>4. \A a \in (n + 1) .. n : \E k \in Nat : h[a] = <<t, k>>  OBVIOUS
  <2>5. Knows(u, h, n, i, j)  OBVIOUS
  <2> QED  BY <1>2, <2>1, <2>2, <2>3, <2>4, <2>5, OthersKnow
<1> QED  BY <1>1, <1>2

\* After a step of t: where it is, and its locals.
LEMMA AtThread ==
  ASSUME Types, NEW t \in Threads, NEW l, Goto(t, l), NEW x, frame' = [frame EXCEPT ![t] = x]
  PROVE  pc'[t] = l /\ frame'[t] = x
BY DEF Types, Goto

\* A step that leaves the locals alone leaves those of t alone.
LEMMA SameFrame ==
  ASSUME Types, UNCHANGED frame, NEW t \in Threads
  PROVE  frame' = [frame EXCEPT ![t] = frame[t]] /\ frame[t] \in Frames
BY DEF Types

\* A dequeue loads the head, which is on the list and only moves on.
LEMMA LoadHeadKeeps ==
  ASSUME LinAssumption, Types, NEW t \in Threads,
         NEW n \in Nat, NEW h \in [1 .. n -> Node], NEW i, NEW j,
         Chain(h, n, i, j), \A u \in Threads : Knows(u, h, n, i, j),
         LoadHead(t), UNCHANGED op, WatchEmpty
  PROVE  Types' /\ Chain(h, n, i, j)' /\ \A u \in Threads : Knows(u, h, n, i, j)'
<1> DEFINE x == [frame[t] EXCEPT !.head_old = head_[1]]
<1>1. pc[t] = "head" /\ Knows(t, h, n, i, j)  BY DEF LoadHead
<1>2. frame[t].q = 1 /\ frame[t].proc = "dequeue" /\ frame[t].back = "return"
      /\ DequeueKnows(t, h, n, i, j)
  BY <1>1 DEF Knows, EnqueueKnows
<1>3. frame[t] \in Frames /\ head_[1] \in Ptrs  BY Basics
<1>4. x \in Frames  BY <1>3 DEF Frames
<1>5. frame' = [frame EXCEPT ![t] = x] /\ Goto(t, "tail")
  BY <1>2 DEF LoadHead
<1>6. UNCHANGED <<head_, tail_, next, value, made, op>>  BY DEF LoadHead
<1>7. pc'[t] = "tail" /\ frame'[t] = x  BY <1>5, AtThread
<1>8. x.q = 1 /\ x.back = "return" /\ x.proc = "dequeue" /\ x.head_old = head_[1]
  BY <1>2, <1>3 DEF Frames
<1>9. Types'  BY <1>4, <1>5, <1>6, KeepsTypes DEF Places
<1>10. Knows(t, h, n, i, j)'
  <2>1. DequeueKnows(t, h, n, i, j)'
    BY <1>2, <1>6, <1>7, <1>8 DEF DequeueKnows, Chain
  <2> QED  BY <1>7, <1>8, <2>1 DEF Knows
<1> HIDE DEF x
<1> QED  BY <1>5, <1>6, <1>9, <1>10, LocalStep

\* The tail is loaded: no earlier on the list than the head loaded before.
LEMMA LoadTailKeeps ==
  ASSUME LinAssumption, Types, NEW t \in Threads,
         NEW n \in Nat, NEW h \in [1 .. n -> Node], NEW i, NEW j,
         Chain(h, n, i, j), \A u \in Threads : Knows(u, h, n, i, j),
         LoadTail(t), UNCHANGED op, WatchEmpty
  PROVE  Types' /\ Chain(h, n, i, j)' /\ \A u \in Threads : Knows(u, h, n, i, j)'
<1> DEFINE f == frame[t]
           x == [frame[t] EXCEPT !.tail_old = tail_[1]]
<1>1. pc[t] = "tail" /\ Knows(t, h, n, i, j)  BY DEF LoadTail
<1>2. f.q = 1 /\ f.back = "return"  BY <1>1 DEF Knows
<1>3. frame[t] \in Frames /\ tail_[1] \in Ptrs  BY Basics
<1>4. x \in Frames  BY <1>3 DEF Frames
<1>5. frame' = [frame EXCEPT ![t] = x] /\ Goto(t, "next")
  BY <1>2 DEF LoadTail
<1>6. UNCHANGED <<head_, tail_, next, value, made, op>>  BY DEF LoadTail
<1>7. pc'[t] = "next" /\ frame'[t] = x  BY <1>5, AtThread
<1>8. x.q = 1 /\ x.back = "return" /\ x.proc = f.proc /\ x.node = f.node /\ x.head_old = f.head_old
      /\ x.tail_old.value = h[j]
  BY <1>2, <1>3 DEF Frames, Chain
<1>9. Types'  BY <1>4, <1>5, <1>6, KeepsTypes DEF Places
<1>10. i \in 1 .. n /\ j \in i .. n  BY DEF Chain
<1> HIDE DEF x
<1>11. Knows(t, h, n, i, j)'
  <2>1. CASE f.proc = "enqueue"
    <3>1. EnqueueKnows(t, h, n, j)  BY <1>1, <2>1 DEF Knows
    <3>2. EnqueueKnows(t, h, n, j)'
      BY <1>1, <1>6, <1>7, <1>8, <1>10, <3>1 DEF EnqueueKnows
    <3> QED  BY <1>7, <1>8, <2>1, <3>2 DEF Knows
  <2>2. CASE f.proc = "dequeue"
    <3>1. DequeueKnows(t, h, n, i, j)  BY <1>1, <2>2 DEF Knows
    <3>2. PICK a \in 1 .. i : f.head_old.value = h[a]  BY <1>1, <3>1 DEF DequeueKnows
    <3>3. a \in 1 .. i /\ j \in a .. j  BY <1>10
    <3>4. DequeueKnows(t, h, n, i, j)'
      BY <1>6, <1>7, <1>8, <3>1, <3>2, <3>3 DEF DequeueKnows
    <3> QED  BY <1>7, <1>8, <2>2, <3>4 DEF Knows
  <2> QED  BY <1>1, <2>1, <2>2 DEF Knows
<1> QED  BY <1>5, <1>6, <1>9, <1>11, LocalStep

\* The successor is loaded: the next node of the list, or none at its end.
\* A dequeue that finds none, head and tail being equal, has seen the queue empty.
LEMMA LoadNextKeeps ==
  ASSUME LinAssumption, Types, NEW t \in Threads,
         NEW n \in Nat, NEW h \in [1 .. n -> Node], NEW i, NEW j,
         Chain(h, n, i, j), \A u \in Threads : Knows(u, h, n, i, j),
         LoadNext(t), UNCHANGED op, WatchEmpty
  PROVE  Types' /\ Chain(h, n, i, j)' /\ \A u \in Threads : Knows(u, h, n, i, j)'
<1> DEFINE f == frame[t]
           y == (IF f.proc = "enqueue" THEN f.tail_old ELSE f.head_old).value
           x == [frame[t] EXCEPT !.next = next[y]]
<1>1. pc[t] = "next" /\ Knows(t, h, n, i, j)  BY DEF LoadNext
<1>2. f.q = 1 /\ f.back = "return"  BY <1>1 DEF Knows
<1>3. i \in 1 .. n /\ j \in i .. n /\ \A a \in 1 .. n : next[h[a]].value = Null <=> a = n
  BY LastNode
<1>4. \A a \in 1 .. (n - 1) : next[h[a]].value = h[a + 1]  BY DEF Chain
<1>5. PICK a \in 1 .. n : y = h[a] /\ (f.proc = "dequeue" => a <= i)
  <2>1. CASE f.proc = "enqueue"
    <3>1. EnqueueKnows(t, h, n, j)  BY <1>1, <2>1 DEF Knows
    <3> QED  BY <1>1, <1>3, <2>1, <3>1 DEF EnqueueKnows
  <2>2. CASE f.proc = "dequeue"
    <3>1. DequeueKnows(t, h, n, i, j)  BY <1>1, <2>2 DEF Knows
    <3> QED  BY <1>1, <1>3, <2>2, <3>1 DEF DequeueKnows
  <2> QED  BY <1>1, <2>1, <2>2 DEF Knows
<1>6. y \in Node  BY <1>5
<1>7. frame[t] \in Frames /\ next[y] \in Ptrs  BY <1>6, Basics
<1>8. x \in Frames  BY <1>7 DEF Frames
<1>9. frame' = [frame EXCEPT ![t] = x] /\ Goto(t, "check")
  BY DEF LoadNext
<1>10. UNCHANGED <<head_, tail_, next, value, made, op>>  BY DEF LoadNext
<1>11. pc'[t] = "check" /\ frame'[t] = x  BY <1>9, AtThread
<1>12. x.q = 1 /\ x.back = "return" /\ x.proc = f.proc /\ x.node = f.node /\ x.head_old = f.head_old
      /\ x.tail_old = f.tail_old /\ x.next = next[y]
  BY <1>2, <1>7 DEF Frames
<1>13. Types'  BY <1>8, <1>9, <1>10, KeepsTypes DEF Places
<1>14. IF a = n THEN next[y].value = Null ELSE Follows(y, next[y].value, h, n)
  BY <1>3, <1>4, <1>5 DEF Follows
<1> HIDE DEF x, y
<1>15. Knows(t, h, n, i, j)'
  <2>1. CASE f.proc = "enqueue"
    <3>1. EnqueueKnows(t, h, n, j)  BY <1>1, <2>1 DEF Knows
    <3>2. y = f.tail_old.value  BY <2>1 DEF y
    <3>3. EnqueueKnows(t, h, n, j)'
      BY <1>1, <1>10, <1>11, <1>12, <1>14, <3>1, <3>2 DEF EnqueueKnows
    <3> QED  BY <1>11, <1>12, <2>1, <3>3 DEF Knows
  <2>2. CASE f.proc = "dequeue"
    <3>1. DequeueKnows(t, h, n, i, j)  BY <1>1, <2>2 DEF Knows
    <3>2. y = f.head_old.value  BY <2>2 DEF y
    <3>3. ASSUME a = n PROVE x.next.value = Null /\ NoItem(t)' /\ t \in sawEmpty'
      <4>1. x.next.value = Null  BY <1>12, <1>14, <3>3
      <4>2. PICK c \in 1 .. i : \E b \in c .. j : f.head_old.value = h[c] /\ f.tail_old.value = h[b]
        BY <1>1, <3>1 DEF DequeueKnows
      <4>3. PICK b \in c .. j : f.tail_old.value = h[b]  BY <4>2
      <4>4. c = a
        <5>1. h[c] = h[a] /\ c \in 1 .. n  BY <1>3, <1>5, <3>2, <4>2
        <5> QED  BY <5>1 DEF Chain
      <4>5. i = n /\ b = n  BY <1>3, <3>3, <4>3, <4>4
      <4>6. f.head_old.value = f.tail_old.value  BY <3>3, <4>2, <4>3, <4>4, <4>5
      <4>7. NoItem(t)'  BY <1>11, <1>12, <4>1, <4>6 DEF NoItem
      <4>8. Chain(h, n, i, j)'  BY <1>10 DEF Chain
      <4>9. Contents(1)' = << >>
        <5>1. Contents(1)' = Items(h, n, i, value')  BY <4>8, ContentsNext
        <5>2. value' \in [Node -> Stored]  BY <1>10 DEF Types, Stored
        <5>3. Items(h, n, i, value') = << >>  BY <1>3, <4>5, <5>2, ItemsSeq
        <5> QED  BY <5>1, <5>3
      <4>10. t \in PendingPops'
        <5>1. Status'[t] = "pending"  BY <1>11 DEF Status
        <5>2. op'[t].kind = "pop"  BY <1>10, <3>1 DEF DequeueKnows
        <5> QED  BY <5>1, <5>2 DEF PendingPops
      <4> QED  BY <4>1, <4>7, <4>9, <4>10 DEF WatchEmpty
    <3>4. DequeueKnows(t, h, n, i, j)'
      BY <1>1, <1>10, <1>11, <1>12, <1>14, <3>1, <3>2, <3>3 DEF DequeueKnows
    <3> QED  BY <1>11, <1>12, <2>2, <3>4 DEF Knows
  <2> QED  BY <1>1, <2>1, <2>2 DEF Knows
<1> QED  BY <1>9, <1>10, <1>13, <1>15, LocalStep

\* An enqueue compares the tail with what it has loaded.
LEMMA CheckTailKeeps ==
  ASSUME LinAssumption, Types, NEW t \in Threads,
         NEW n \in Nat, NEW h \in [1 .. n -> Node], NEW i, NEW j,
         Chain(h, n, i, j), \A u \in Threads : Knows(u, h, n, i, j),
         CheckTail(t), UNCHANGED op, WatchEmpty
  PROVE  Types' /\ Chain(h, n, i, j)' /\ \A u \in Threads : Knows(u, h, n, i, j)'
<1> DEFINE f == frame[t]
<1>1. pc[t] = "check" /\ f.proc = "enqueue" /\ UNCHANGED queueVars  BY DEF CheckTail
<1>2. UNCHANGED <<head_, tail_, next, value, made, frame, op>>  BY <1>1 DEF queueVars
<1>3. Knows(t, h, n, i, j) /\ EnqueueKnows(t, h, n, j)  BY <1>1 DEF Knows
<1>4. frame' = [frame EXCEPT ![t] = f] /\ f \in Frames  BY <1>2, SameFrame
<1>5. PICK l \in {"tail", "link", "help"} :
        /\ Goto(t, l)
        /\ l = "link" => f.next.value = Null
        /\ l = "help" => f.next.value # Null
  BY DEF CheckTail
<1>6. Types'  BY <1>2, <1>4, <1>5, KeepsTypes DEF Places
<1>7. pc'[t] = l /\ frame'[t] = f  BY <1>4, <1>5, AtThread
<1>8. Knows(t, h, n, i, j)'
  <2>1. EnqueueKnows(t, h, n, j)'
    BY <1>1, <1>2, <1>3, <1>5, <1>7 DEF EnqueueKnows
  <2> QED  BY <1>1, <1>3, <1>7, <2>1 DEF Knows
<1> QED  BY <1>2, <1>4, <1>5, <1>6, <1>8, LocalStep

\* A dequeue compares the head with what it has loaded, and leaves if it has seen nothing.
LEMMA CheckHeadKeeps ==
  ASSUME LinAssumption, Types, NEW t \in Threads,
         NEW n \in Nat, NEW h \in [1 .. n -> Node], NEW i, NEW j,
         Chain(h, n, i, j), \A u \in Threads : Knows(u, h, n, i, j),
         CheckHead(t), UNCHANGED op, WatchEmpty
  PROVE  /\ Types' /\ Chain(h, n, i, j)' /\ \A u \in Threads : Knows(u, h, n, i, j)'
         /\ pc[t] = "check" /\ pc'[t] \in {"head", "help", "remove", "return"}
         /\ op[t].kind = "pop"
         /\ pc'[t] = "return" => NoItem(t) /\ t \in sawEmpty
<1> DEFINE f == frame[t]
<1>1. pc[t] = "check" /\ f.proc # "enqueue" /\ UNCHANGED queueVars  BY DEF CheckHead
<1>2. UNCHANGED <<head_, tail_, next, value, made, frame, op>>  BY <1>1 DEF queueVars
<1>3. Knows(t, h, n, i, j) /\ DequeueKnows(t, h, n, i, j) /\ f.proc = "dequeue" /\ f.back = "return"
  BY <1>1 DEF Knows
<1>4. frame' = [frame EXCEPT ![t] = f] /\ f \in Frames  BY <1>2, SameFrame
<1>5. PICK l \in {"head", "return", "help", "remove"} :
        /\ Goto(t, l)
        /\ l = "return" => NoItem(t)
        /\ l \in {"help", "remove"} => ~NoItem(t)
        /\ l = "help" => f.head_old.value = f.tail_old.value
        /\ l = "remove" => f.head_old.value # f.tail_old.value
  BY <1>3 DEF CheckHead, Leave
<1>6. Types'  BY <1>2, <1>4, <1>5, KeepsTypes DEF Places
<1>7. pc'[t] = l /\ frame'[t] = f  BY <1>4, <1>5, AtThread
<1>8. NoItem(t)' = NoItem(t)  BY <1>7 DEF NoItem
<1>9. NoItem(t) => t \in sawEmpty
  <2>1. ASSUME Follows(f.head_old.value, f.next.value, h, n) PROVE f.next.value # Null
    <3>1. PICK a \in 1 .. (n - 1) : f.next.value = h[a + 1]  BY <2>1 DEF Follows
    <3>2. a + 1 \in 1 .. n  OBVIOUS
    <3> QED  BY <3>1, <3>2, LastNode
  <2> QED  BY <1>1, <1>3, <2>1 DEF DequeueKnows, NoItem
<1>10. Knows(t, h, n, i, j)'
  <2>1. DequeueKnows(t, h, n, i, j)'
    BY <1>1, <1>2, <1>3, <1>5, <1>7, <1>8 DEF DequeueKnows
  <2> QED  BY <1>1, <1>3, <1>7, <2>1 DEF Knows
<1>11. Chain(h, n, i, j)' /\ \A u \in Threads : Knows(u, h, n, i, j)'
  BY <1>2, <1>4, <1>5, <1>10, LocalStep
<1> QED  BY <1>1, <1>3, <1>5, <1>6, <1>7, <1>9, <1>11 DEF DequeueKnows

\* The operation returns.
LEMMA ReturnKeeps ==
  ASSUME LinAssumption, Types, NEW t \in Threads,
         NEW n \in Nat, NEW h \in [1 .. n -> Node], NEW i, NEW j,
         Chain(h, n, i, j), \A u \in Threads : Knows(u, h, n, i, j),
         Return(t), UNCHANGED op, WatchEmpty
  PROVE  Types' /\ Chain(h, n, i, j)' /\ \A u \in Threads : Knows(u, h, n, i, j)'
<1>1. UNCHANGED <<head_, tail_, next, value, made, op>>  BY DEF Return
<1>2. Null \in Node \cup {Null} /\ 0 \in Nat  OBVIOUS
<1>3. NodePtr(Null, 0) \in Ptrs  BY <1>2, PtrType
<1>4. NoFrame \in Frames  BY <1>3 DEF NoFrame, Frames
<1>5. Goto(t, "idle") /\ frame' = [frame EXCEPT ![t] = NoFrame]  BY DEF Return
<1>6. Types'  BY <1>1, <1>4, <1>5, KeepsTypes DEF Places
<1>7. Knows(t, h, n, i, j)'  BY <1>5, AtThread DEF Knows
<1> QED  BY <1>1, <1>5, <1>6, <1>7, LocalStep

\* An enqueue that does not win tries again.
LEMMA LinkFails ==
  ASSUME LinAssumption, Types, NEW t \in Threads,
         NEW n \in Nat, NEW h \in [1 .. n -> Node], NEW i, NEW j,
         Chain(h, n, i, j), \A u \in Threads : Knows(u, h, n, i, j),
         Link(t), next[frame[t].tail_old.value] # frame[t].next, UNCHANGED op, WatchEmpty
  PROVE  /\ Types' /\ Chain(h, n, i, j)' /\ \A u \in Threads : Knows(u, h, n, i, j)'
         /\ pc'[t] = "tail"
<1> DEFINE f == frame[t]
<1>1. pc[t] = "link" /\ Goto(t, "tail")  BY DEF Link
<1>2. UNCHANGED <<head_, tail_, next, value, made, frame, op>>  BY DEF Link
<1>3. Knows(t, h, n, i, j) /\ EnqueueKnows(t, h, n, j) /\ f.proc = "enqueue"
  BY <1>1 DEF Knows, DequeueKnows
<1>4. frame' = [frame EXCEPT ![t] = f] /\ f \in Frames  BY <1>2, SameFrame
<1>5. Types'  BY <1>1, <1>2, <1>4, KeepsTypes DEF Places
<1>6. pc'[t] = "tail" /\ frame'[t] = f  BY <1>1, <1>4, AtThread
<1>7. Knows(t, h, n, i, j)'
  <2>1. EnqueueKnows(t, h, n, j)'
    BY <1>1, <1>2, <1>3, <1>6 DEF EnqueueKnows
  <2> QED  BY <1>1, <1>3, <1>6, <2>1 DEF Knows
<1> QED  BY <1>1, <1>2, <1>4, <1>5, <1>6, <1>7, LocalStep

\* A dequeue that does not win tries again.
LEMMA RemoveFails ==
  ASSUME LinAssumption, Types, NEW t \in Threads,
         NEW n \in Nat, NEW h \in [1 .. n -> Node], NEW i, NEW j,
         Chain(h, n, i, j), \A u \in Threads : Knows(u, h, n, i, j),
         Remove(t), head_[1] # frame[t].head_old, UNCHANGED op, WatchEmpty
  PROVE  /\ Types' /\ Chain(h, n, i, j)' /\ \A u \in Threads : Knows(u, h, n, i, j)'
         /\ pc'[t] = "head"
<1> DEFINE f == frame[t]
<1>1. pc[t] = "remove"  BY DEF Remove
<1>2. Knows(t, h, n, i, j) /\ DequeueKnows(t, h, n, i, j) /\ f.proc = "dequeue" /\ f.q = 1
  BY <1>1 DEF Knows, EnqueueKnows
<1>3. UNCHANGED <<head_, tail_, next, value, made, frame, op>> /\ Goto(t, "head")
  BY <1>2 DEF Remove
<1>4. frame' = [frame EXCEPT ![t] = f] /\ f \in Frames  BY <1>3, SameFrame
<1>5. Types'  BY <1>3, <1>4, KeepsTypes DEF Places
<1>6. pc'[t] = "head" /\ frame'[t] = f
  <2>1. Goto(t, "head")  BY <1>3
  <2> QED  BY <1>4, <2>1, AtThread
<1>7. Knows(t, h, n, i, j)'
  <2>1. DequeueKnows(t, h, n, i, j)'
    BY <1>1, <1>2, <1>3, <1>6 DEF DequeueKnows
  <2> QED  BY <1>1, <1>2, <1>6, <2>1 DEF Knows
<1> QED  BY <1>3, <1>4, <1>5, <1>6, <1>7, LocalStep

\* The tail moves on by a node, or stays.
LEMMA AdvanceKeeps ==
  ASSUME LinAssumption, Types, NEW t \in Threads,
         NEW n \in Nat, NEW h \in [1 .. n -> Node], NEW i, NEW j,
         Chain(h, n, i, j), \A u \in Threads : Knows(u, h, n, i, j),
         NEW y, Follows(frame[t].tail_old.value, y, h, n), frame[t].q = 1, Advance(t, y),
         NEW l \in Places, Goto(t, l),
         UNCHANGED <<head_, next, value, made, frame, op>>, WatchEmpty,
         \A s \in 1 .. n : Knows(t, h, n, i, s)'
  PROVE  Types' /\ \E s \in 1 .. n : Chain(h, n, i, s)' /\ \A u \in Threads : Knows(u, h, n, i, s)'
<1> DEFINE f == frame[t]
<1>1. PICK a \in 1 .. (n - 1) : f.tail_old.value = h[a] /\ y = h[a + 1]  BY DEF Follows
<1>2. i \in 1 .. n /\ j \in i .. n /\ a \in 1 .. n /\ a + 1 \in 1 .. n /\ y \in Node
  BY <1>1 DEF Chain
<1>3. f \in Frames /\ tail_[1] \in Ptrs  BY Basics
<1>4. f.tail_old \in Ptrs /\ f.tail_old.tag + 1 \in Nat  BY <1>3, PtrParts DEF Frames
<1>5. NodePtr(y, f.tail_old.tag + 1) \in Ptrs /\ NodePtr(y, f.tail_old.tag + 1).value = y
  BY <1>2, <1>4, PtrType
<1>6. tail_'[1] = IF tail_[1] = f.tail_old THEN NodePtr(y, f.tail_old.tag + 1) ELSE tail_[1]
  BY DEF Advance, Types
<1>7. tail_' \in [{1} -> Ptrs]  BY <1>5 DEF Advance, Types
<1>8. frame' = [frame EXCEPT ![t] = f]  BY SameFrame
<1>9. Types'
  <2>1. pc' \in [Threads -> Places]  BY DEF Types, Goto
  <2> QED  BY <1>7, <2>1 DEF Types
<1>10. PICK s \in j .. n : tail_'[1].value = h[s]
  <2>1. CASE tail_[1] = f.tail_old
    <3>1. h[a] = h[j]  BY <1>1, <2>1 DEF Chain
    <3>2. a = j  BY <1>2, <3>1 DEF Chain
    <3>3. a + 1 \in j .. n  BY <1>2, <3>2
    <3> QED  BY <1>1, <1>5, <1>6, <2>1, <3>3
  <2>2. CASE tail_[1] # f.tail_old
    BY <1>2, <1>6, <2>2 DEF Chain
  <2> QED  BY <2>1, <2>2
<1>11. s \in 1 .. n /\ s \in i .. n /\ n - s <= 1 /\ j <= s /\ j \in 1 .. n
  BY <1>2, <1>10 DEF Chain
<1>12. Chain(h, n, i, s)'  BY <1>10, <1>11 DEF Chain
<1>13. ASSUME NEW u \in Threads, u # t PROVE Knows(u, h, n, i, s)'
  <2>1. pc'[u] = pc[u] /\ frame'[u] = frame[u] /\ op'[u] = op[u] /\ made'[u] = made[u]
    BY <1>13 DEF Types, Goto
  <2>2. \A k \in 1 .. NumNodes : value'[<<u, k>>] = value[<<u, k>>]  OBVIOUS
  <2>3. \A b \in (n + 1) .. n : \E k \in Nat : h[b] = <<t, k>>  OBVIOUS
  <2>4. Knows(u, h, n, i, j) /\ n <= n /\ i <= i /\ \A b \in 1 .. n : h[b] = h[b]  BY <1>2
  <2>5. i \in 1 .. n  BY <1>2
  <2> QED  BY <1>11, <1>13, <2>1, <2>2, <2>3, <2>4, <2>5, OthersKnow
<1> QED  BY <1>9, <1>11, <1>12, <1>13

-----------------------------------------------------------------------------
(* Steps that move an end or link a node. *)

\* An enqueue moves the tail to its node, if nobody has helped.
LEMMA SwingKeeps ==
  ASSUME LinAssumption, Types, NEW t \in Threads,
         NEW n \in Nat, NEW h \in [1 .. n -> Node], NEW i, NEW j,
         Chain(h, n, i, j), \A u \in Threads : Knows(u, h, n, i, j),
         Swing(t), UNCHANGED op, WatchEmpty
  PROVE  /\ Types' /\ \E s \in 1 .. n : Chain(h, n, i, s)' /\ \A u \in Threads : Knows(u, h, n, i, s)'
         /\ pc'[t] = "return"
<1> DEFINE f == frame[t]
<1>1. pc[t] = "swing" /\ Advance(t, f.node)  BY DEF Swing
<1>2. UNCHANGED <<head_, next, value, made, frame, op>>  BY DEF Swing
<1>3. Knows(t, h, n, i, j) /\ EnqueueKnows(t, h, n, j) /\ f.proc = "enqueue"
      /\ f.q = 1 /\ f.back = "return"
  BY <1>1 DEF Knows, DequeueKnows
<1>4. Follows(f.tail_old.value, f.node, h, n)  BY <1>1, <1>3 DEF EnqueueKnows
<1>5. Goto(t, "return")  BY <1>3 DEF Swing, Leave
<1>6. pc'[t] = "return" /\ frame'[t] = f  BY <1>2, <1>5 DEF Goto, Types
<1>7. \A s \in 1 .. n : Knows(t, h, n, i, s)'
  <2> SUFFICES ASSUME NEW s \in 1 .. n PROVE Knows(t, h, n, i, s)'  OBVIOUS
  <2>1. EnqueueKnows(t, h, n, s)'  BY <1>2, <1>3, <1>6 DEF EnqueueKnows
  <2> QED  BY <1>3, <1>6, <2>1 DEF Knows
<1>8. "return" \in Places  BY DEF Places
<1>9. Types' /\ \E s \in 1 .. n : Chain(h, n, i, s)' /\ \A u \in Threads : Knows(u, h, n, i, s)'
  BY <1>1, <1>2, <1>3, <1>4, <1>5, <1>7, <1>8, AdvanceKeeps
<1> QED  BY <1>6, <1>9

\* The tail is moved on for another enqueue.
LEMMA HelpKeeps ==
  ASSUME LinAssumption, Types, NEW t \in Threads,
         NEW n \in Nat, NEW h \in [1 .. n -> Node], NEW i, NEW j,
         Chain(h, n, i, j), \A u \in Threads : Knows(u, h, n, i, j),
         Help(t), UNCHANGED op, WatchEmpty
  PROVE  /\ Types' /\ \E s \in 1 .. n : Chain(h, n, i, s)' /\ \A u \in Threads : Knows(u, h, n, i, s)'
         /\ pc'[t] \in {"head", "tail"}
<1> DEFINE f == frame[t]
           l == IF f.proc = "enqueue" THEN "tail" ELSE "head"
<1>1. pc[t] = "help" /\ Advance(t, f.next.value) /\ Goto(t, l)  BY DEF Help
<1>2. UNCHANGED <<head_, next, value, made, frame, op>>  BY DEF Help
<1>3. Knows(t, h, n, i, j) /\ f.q = 1 /\ f.back = "return"  BY <1>1 DEF Knows
<1>4. pc'[t] = l /\ frame'[t] = f  BY <1>1, <1>2 DEF Goto, Types
<1>5. CASE f.proc = "enqueue"
  <2>1. EnqueueKnows(t, h, n, j)  BY <1>1, <1>3, <1>5 DEF Knows
  <2>2. Follows(f.tail_old.value, f.next.value, h, n)  BY <1>1, <2>1 DEF EnqueueKnows
  <2>3. \A s \in 1 .. n : Knows(t, h, n, i, s)'
    <3> SUFFICES ASSUME NEW s \in 1 .. n PROVE Knows(t, h, n, i, s)'  OBVIOUS
    <3>1. EnqueueKnows(t, h, n, s)'  BY <1>1, <1>2, <1>4, <1>5, <2>1 DEF EnqueueKnows
    <3> QED  BY <1>3, <1>4, <1>5, <3>1 DEF Knows
  <2>4. l = "tail" /\ "tail" \in Places /\ Goto(t, "tail")  BY <1>1, <1>5 DEF Places
  <2>5. Types' /\ \E s \in 1 .. n : Chain(h, n, i, s)' /\ \A u \in Threads : Knows(u, h, n, i, s)'
    BY <1>1, <1>2, <1>3, <2>2, <2>3, <2>4, AdvanceKeeps
  <2> QED  BY <1>4, <2>4, <2>5
<1>6. CASE f.proc = "dequeue"
  <2>1. DequeueKnows(t, h, n, i, j)  BY <1>1, <1>3, <1>6 DEF Knows
  <2>2. Follows(f.tail_old.value, f.next.value, h, n)  BY <1>1, <2>1 DEF DequeueKnows
  <2>3. \A s \in 1 .. n : Knows(t, h, n, i, s)'
    <3> SUFFICES ASSUME NEW s \in 1 .. n PROVE Knows(t, h, n, i, s)'  OBVIOUS
    <3>1. DequeueKnows(t, h, n, i, s)'  BY <1>1, <1>2, <1>4, <1>6, <2>1 DEF DequeueKnows
    <3> QED  BY <1>3, <1>4, <1>6, <3>1 DEF Knows
  <2>4. l = "head" /\ "head" \in Places /\ Goto(t, "head")  BY <1>1, <1>6 DEF Places
  <2>5. Types' /\ \E s \in 1 .. n : Chain(h, n, i, s)' /\ \A u \in Threads : Knows(u, h, n, i, s)'
    BY <1>1, <1>2, <1>3, <2>2, <2>3, <2>4, AdvanceKeeps
  <2> QED  BY <1>4, <2>4, <2>5
<1> QED  BY <1>1, <1>3, <1>5, <1>6 DEF Knows

\* The head moves to the first node behind it.
LEMMA RemoveWins ==
  ASSUME LinAssumption, Types, NEW t \in Threads,
         NEW n \in Nat, NEW h \in [1 .. n -> Node], NEW i, NEW j,
         Chain(h, n, i, j), \A u \in Threads : Knows(u, h, n, i, j),
         Remove(t), head_[1] = frame[t].head_old, UNCHANGED op, WatchEmpty
  PROVE  /\ Types' /\ i \in 1 .. (n - 1)
         /\ Chain(h, n, i + 1, j)' /\ \A u \in Threads : Knows(u, h, n, i + 1, j)'
         /\ pc[t] = "remove" /\ pc'[t] = "return" /\ op[t].kind = "pop" /\ UNCHANGED value
         /\ Item(t)' = value[h[i + 1]]
<1> DEFINE f == frame[t]
<1>1. pc[t] = "remove"  BY DEF Remove
<1>2. Knows(t, h, n, i, j) /\ DequeueKnows(t, h, n, i, j) /\ f.proc = "dequeue"
      /\ f.q = 1 /\ f.back = "return"
  BY <1>1 DEF Knows, EnqueueKnows
<1>3. UNCHANGED <<tail_, next, value, made, frame, op>>  BY DEF Remove
<1>4. Goto(t, "return")  BY <1>2 DEF Remove, Leave
<1>5. head_' = [head_ EXCEPT ![1] = NodePtr(f.next.value, f.head_old.tag + 1)]  BY <1>2 DEF Remove
<1>6. i \in 1 .. n /\ j \in i .. n /\ f.head_old.value = h[i]  BY DEF Chain
<1>7. f.next.value = h[i + 1] /\ i \in 1 .. (n - 1)
  <2>1. PICK a \in 1 .. (n - 1) : f.head_old.value = h[a] /\ f.next.value = h[a + 1]
    BY <1>1, <1>2 DEF DequeueKnows, Follows
  <2>2. a \in 1 .. n /\ h[a] = h[i]  BY <1>6, <2>1
  <2>3. a = i  BY <1>6, <2>2 DEF Chain
  <2> QED  BY <2>1, <2>3
<1>8. i + 1 \in 1 .. n /\ j \in (i + 1) .. n
  <2>1. PICK a \in 1 .. i : \E b \in a .. j : f.head_old.value = h[a] /\ f.tail_old.value = h[b]
    BY <1>1, <1>2 DEF DequeueKnows
  <2>2. PICK b \in a .. j : f.head_old.value = h[a] /\ f.tail_old.value = h[b]  BY <2>1
  <2>3. a = i
    <3>1. a \in 1 .. n /\ h[a] = h[i]  BY <1>6, <2>2
    <3> QED  BY <1>6, <3>1 DEF Chain
  <2>4. b # a  BY <1>1, <1>2, <2>2 DEF DequeueKnows
  <2> QED  BY <1>6, <1>7, <2>3, <2>4
<1>9. h[i + 1] \in Node /\ h[i + 1] # Null  BY <1>8, LastNode
<1>10. f \in Frames  BY Basics
<1>11. f.head_old.tag + 1 \in Nat  BY <1>10, PtrParts DEF Frames
<1>12. /\ NodePtr(f.next.value, f.head_old.tag + 1) \in Ptrs
       /\ NodePtr(f.next.value, f.head_old.tag + 1).value = h[i + 1]
  BY <1>7, <1>9, <1>11, PtrType
<1>13. head_'[1].value = h[i + 1] /\ head_' \in [{1} -> Ptrs]  BY <1>5, <1>12 DEF Types
<1>14. Types'
  <2>1. pc' \in [Threads -> Places]  BY <1>4 DEF Types, Goto, Places
  <2> QED  BY <1>3, <1>13, <2>1 DEF Types
<1>15. Chain(h, n, i + 1, j)'  BY <1>3, <1>8, <1>13 DEF Chain
<1>16. pc'[t] = "return" /\ frame'[t] = f  BY <1>3, <1>4 DEF Goto, Types
<1>17. f.next.value # Null  BY <1>7, <1>9
<1>18. Item(t)' = value[h[i + 1]]  BY <1>3, <1>7, <1>16, <1>17 DEF Item, NoItem
<1>19. Knows(t, h, n, i + 1, j)'
  <2>1. DequeueKnows(t, h, n, i + 1, j)'  BY <1>2, <1>3, <1>7, <1>8, <1>16 DEF DequeueKnows
  <2> QED  BY <1>2, <1>16, <2>1 DEF Knows
<1>20. ASSUME NEW u \in Threads, u # t PROVE Knows(u, h, n, i + 1, j)'
  <2>1. pc'[u] = pc[u] /\ frame'[u] = frame[u] /\ op'[u] = op[u] /\ made'[u] = made[u]
    BY <1>3, <1>4, <1>20 DEF Types, Goto
  <2>2. \A k \in 1 .. NumNodes : value'[<<u, k>>] = value[<<u, k>>]  BY <1>3
  <2>3. \A b \in (n + 1) .. n : \E k \in Nat : h[b] = <<t, k>>  OBVIOUS
  <2>4. Knows(u, h, n, i, j) /\ n <= n /\ i <= i + 1 /\ j <= j /\ \A b \in 1 .. n : h[b] = h[b]
    BY <1>6
  <2>5. i \in 1 .. n /\ j \in 1 .. n  BY <1>6
  <2> QED  BY <1>8, <1>20, <2>1, <2>2, <2>3, <2>4, <2>5, OthersKnow
<1> QED  BY <1>1, <1>2, <1>3, <1>7, <1>14, <1>15, <1>16, <1>18, <1>19, <1>20 DEF DequeueKnows

\* A node is appended behind the last one.
LEMMA LinkWins ==
  ASSUME LinAssumption, Types, NEW t \in Threads,
         NEW n \in Nat, NEW h \in [1 .. n -> Node], NEW i, NEW j,
         Chain(h, n, i, j), \A u \in Threads : Knows(u, h, n, i, j),
         Link(t), next[frame[t].tail_old.value] = frame[t].next, UNCHANGED op, WatchEmpty
  PROVE  /\ Types' /\ pc[t] = "link" /\ pc'[t] = "swing" /\ op[t].kind = "push" /\ UNCHANGED value
         /\ \E m \in Nat : \E g \in [1 .. m -> Node] :
              /\ Extends(g, m, h, n, op[t].val)
              /\ Chain(g, m, i, j)' /\ \A u \in Threads : Knows(u, g, m, i, j)'
<1>0. PICK m \in Nat : m = n + 1  OBVIOUS
<1> DEFINE f == frame[t]
<1>1. pc[t] = "link" /\ Goto(t, "swing")  BY DEF Link
<1>2. UNCHANGED <<head_, tail_, value, made, frame, op>>  BY DEF Link
<1>3. next' = [next EXCEPT ![f.tail_old.value] = NodePtr(f.node, f.next.tag + 1)]  BY DEF Link
<1>4. Knows(t, h, n, i, j) /\ EnqueueKnows(t, h, n, j) /\ f.proc = "enqueue"
      /\ f.q = 1 /\ f.back = "return"
  BY <1>1 DEF Knows, DequeueKnows
<1>5. /\ f.node = <<t, made[t]>> /\ made[t] > 0 /\ value[f.node] = op[t].val
      /\ Unlinked(f.node, h, n) /\ f.next.value = Null /\ op[t].kind = "push"
  BY <1>1, <1>4 DEF EnqueueKnows
<1>6. i \in 1 .. n /\ j \in i .. n /\ n \in 1 .. n  BY DEF Chain
<1>7. f.tail_old.value = h[n] /\ j = n
  <2>1. PICK a \in 1 .. j : f.tail_old.value = h[a]  BY <1>1, <1>4 DEF EnqueueKnows
  <2>2. a \in 1 .. n /\ next[h[a]].value = Null  BY <1>5, <1>6, <2>1
  <2>3. a = n  BY <2>2, LastNode
  <2> QED  BY <1>6, <2>1, <2>3
<1>8. made[t] \in 1 .. NumNodes /\ NumNodes \in Nat /\ f \in Frames /\ f.node \in Node
  <2>1. made[t] \in 0 .. NumNodes /\ NumNodes \in Nat /\ f \in Frames  BY Basics
  <2>2. made[t] \in 1 .. NumNodes  BY <1>5, <2>1
  <2> QED  BY <1>5, <2>1, <2>2, Basics
<1>9. PICK g \in [1 .. m -> Node] : (\A a \in 1 .. n : g[a] = h[a]) /\ g[m] = f.node
  <2> DEFINE e == [a \in 1 .. m |-> IF a <= n THEN h[a] ELSE f.node]
  <2>1. e \in [1 .. m -> Node] /\ (\A a \in 1 .. n : e[a] = h[a]) /\ e[m] = f.node
    BY <1>0, <1>8
  <2> QED  BY <2>1
<1>10. \A a \in 1 .. n : g[a] = h[a]  BY <1>9
<1>11. g[m] = f.node  BY <1>9
<1>12. /\ NodePtr(f.node, f.next.tag + 1) \in Ptrs
       /\ NodePtr(f.node, f.next.tag + 1).value = f.node
  <2>1. f.next.tag + 1 \in Nat  BY <1>8, PtrParts DEF Frames
  <2> QED  BY <1>8, <2>1, PtrType
<1>13. next' \in [Node -> Ptrs] /\ next'[h[n]].value = f.node
       /\ \A x \in Node : x # h[n] => next'[x] = next[x]
  BY <1>3, <1>6, <1>7, <1>12 DEF Types
<1>14. Types'
  <2>1. pc' \in [Threads -> Places]  BY <1>1 DEF Types, Goto, Places
  <2> QED  BY <1>2, <1>13, <2>1 DEF Types
<1>15. Chain(g, m, i, j)'
  <2>1. \A a, b \in 1 .. m : g[a] = g[b] => a = b
    <3> SUFFICES ASSUME NEW a \in 1 .. m, NEW b \in 1 .. m, g[a] = g[b] PROVE a = b
      OBVIOUS
    <3>1. a \in 1 .. n \/ a = m  BY <1>0
    <3>2. b \in 1 .. n \/ b = m  BY <1>0
    <3>3. CASE a \in 1 .. n /\ b \in 1 .. n  BY <1>10, <3>3 DEF Chain
    <3>4. CASE a = m /\ b \in 1 .. n  BY <1>5, <1>10, <1>11, <3>4 DEF Unlinked
    <3>5. CASE a \in 1 .. n /\ b = m  BY <1>5, <1>10, <1>11, <3>5 DEF Unlinked
    <3> QED  BY <3>1, <3>2, <3>3, <3>4, <3>5
  <2>2. i \in 1 .. m /\ j \in i .. m /\ m - j <= 1 /\ j \in 1 .. n /\ i \in 1 .. n
    BY <1>0, <1>6, <1>7
  <2>3. head_'[1].value = g[i] /\ tail_'[1].value = g[j]
    BY <1>2, <1>6, <1>10, <2>2 DEF Chain
  <2>4. ASSUME NEW a \in 1 .. (m - 1) PROVE next'[g[a]].value = g[a + 1]
    <3>1. a \in 1 .. n  BY <1>0
    <3>2. CASE a = n  BY <1>0, <1>6, <1>10, <1>11, <1>13, <3>2
    <3>3. CASE a # n
      <4>1. a \in 1 .. (n - 1) /\ a + 1 \in 1 .. n  BY <3>1, <3>3
      <4>2. h[a] # h[n]  BY <1>6, <3>1, <3>3 DEF Chain
      <4>3. h[a] \in Node /\ next[h[a]].value = h[a + 1]  BY <3>1, <4>1 DEF Chain
      <4> QED  BY <1>10, <1>13, <3>1, <4>1, <4>2, <4>3
    <3> QED  BY <3>2, <3>3
  <2>5. ASSUME NEW x \in Node, Unlinked(x, g, m - 1) PROVE next'[x].value = Null
    <3>1. m - 1 = n  BY <1>0
    <3>2. x # h[n]  BY <1>6, <1>10, <2>5, <3>1 DEF Unlinked
    <3>3. Unlinked(x, h, n - 1)
      <4> SUFFICES ASSUME NEW a \in 1 .. (n - 1) PROVE h[a] # x  BY DEF Unlinked
      <4>1. a \in 1 .. n  OBVIOUS
      <4> QED  BY <1>10, <2>5, <3>1, <4>1 DEF Unlinked
    <3>4. next[x].value = Null  BY <3>3 DEF Chain
    <3> QED  BY <1>13, <3>2, <3>4
  <2>6. ASSUME NEW u \in Threads, NEW k \in (made'[u] + 1) .. NumNodes
        PROVE  Unlinked(<<u, k>>, g, m)
    <3> SUFFICES ASSUME NEW a \in 1 .. m PROVE g[a] # <<u, k>>  BY DEF Unlinked
    <3>1. k \in (made[u] + 1) .. NumNodes  BY <1>2
    <3>2. CASE a \in 1 .. n
      <4>1. Unlinked(<<u, k>>, h, n)  BY <3>1 DEF Chain
      <4> QED  BY <1>10, <3>2, <4>1 DEF Unlinked
    <3>3. CASE a = m
      <4>1. made[u] \in 0 .. NumNodes  BY Basics
      <4>2. <<t, made[t]>> # <<u, k>>  BY <1>8, <3>1, <4>1
      <4> QED  BY <1>5, <1>11, <3>3, <4>2
    <3> QED  BY <1>0, <3>2, <3>3
  <2> QED  BY <2>1, <2>2, <2>3, <2>4, <2>5, <2>6 DEF Chain
<1>16. pc'[t] = "swing" /\ frame'[t] = f  BY <1>1, <1>2 DEF Goto, Types
<1>17. Knows(t, g, m, i, j)'
  <2>1. n \in 1 .. (m - 1)  BY <1>0, <1>6
  <2>2. Follows(f.tail_old.value, f.node, g, m)
    BY <1>0, <1>6, <1>7, <1>10, <1>11, <2>1 DEF Follows
  <2>3. EnqueueKnows(t, g, m, j)'  BY <1>2, <1>4, <1>5, <1>16, <2>2 DEF EnqueueKnows
  <2> QED  BY <1>4, <1>16, <2>3 DEF Knows
<1>18. ASSUME NEW u \in Threads, u # t PROVE Knows(u, g, m, i, j)'
  <2>1. pc'[u] = pc[u] /\ frame'[u] = frame[u] /\ op'[u] = op[u] /\ made'[u] = made[u]
    BY <1>1, <1>2, <1>18 DEF Types, Goto
  <2>2. \A k \in 1 .. NumNodes : value'[<<u, k>>] = value[<<u, k>>]  BY <1>2
  <2>3. \A b \in (n + 1) .. m : \E k \in Nat : g[b] = <<t, k>>
    BY <1>0, <1>5, <1>8, <1>11
  <2>4. Knows(u, h, n, i, j) /\ n <= m /\ i <= i /\ j <= j  BY <1>0, <1>6
  <2>5. i \in 1 .. n /\ j \in 1 .. n /\ i \in 1 .. m /\ j \in 1 .. m  BY <1>0, <1>6
  <2> QED  BY <1>9, <1>10, <1>18, <2>1, <2>2, <2>3, <2>4, <2>5, OthersKnow
<1>19. Extends(g, m, h, n, op[t].val)  BY <1>0, <1>5, <1>10, <1>11 DEF Extends
<1> QED  BY <1>1, <1>2, <1>5, <1>14, <1>15, <1>16, <1>17, <1>18, <1>19

-----------------------------------------------------------------------------
(* Calls, the initial states and the invariant. *)

\* Items depend on the linked nodes only.
LEMMA ItemsSame ==
  ASSUME NEW n \in Nat, NEW h \in [1 .. n -> Node], NEW i \in 1 .. n, NEW v, NEW w,
         \A a \in 1 .. n : v[h[a]] = w[h[a]]
  PROVE  Items(h, n, i, v) = Items(h, n, i, w)
<1>1. \A k \in 1 .. (n - i) : v[h[i + k]] = w[h[i + k]]
  <2> SUFFICES ASSUME NEW k \in 1 .. (n - i) PROVE v[h[i + k]] = w[h[i + k]]  OBVIOUS
  <2>1. i + k \in 1 .. n  OBVIOUS
  <2> QED  BY <2>1
<1> QED  BY <1>1 DEF Items

\* The call of an enqueue: its node is not linked yet.
LEMMA EnqueueStarts ==
  ASSUME LinAssumption, Types, NEW t \in Threads, NEW v \in Values,
         NEW n \in Nat, NEW h \in [1 .. n -> Node], NEW i, NEW j,
         Chain(h, n, i, j), \A u \in Threads : Knows(u, h, n, i, j),
         made[t] < NumNodes, StartEnqueue(t, 1, v, "return"),
         op' = [op EXCEPT ![t] = Push("R", v)], WatchEmpty
  PROVE  /\ Types' /\ Chain(h, n, i, j)' /\ \A u \in Threads : Knows(u, h, n, i, j)'
         /\ pc'[t] = "tail"
         /\ \A a \in 1 .. n : value'[h[a]] = value[h[a]]
<1> DEFINE x == [NoFrame EXCEPT !.q = 1, !.proc = "enqueue", !.back = "return",
                                !.node = <<t, made[t] + 1>>]
<1>1. /\ made' = [made EXCEPT ![t] = @ + 1]
      /\ value' = [value EXCEPT ![<<t, made[t] + 1>>] = v]
      /\ frame' = [frame EXCEPT ![t] = x]
      /\ Goto(t, "tail")
      /\ UNCHANGED <<head_, tail_, next>>
  BY DEF StartEnqueue
<1>2. made[t] \in 0 .. NumNodes /\ NumNodes \in Nat  BY Basics
<1>3. made[t] + 1 \in 1 .. NumNodes /\ made[t] + 1 \in (made[t] + 1) .. NumNodes  BY <1>2
<1>4. <<t, made[t] + 1>> \in Node  BY <1>3, Basics
<1>5. Unlinked(<<t, made[t] + 1>>, h, n)  BY <1>3 DEF Chain
<1>6. NodePtr(Null, 0) \in Ptrs
  <2>1. Null \in Node \cup {Null} /\ 0 \in Nat  OBVIOUS
  <2> QED  BY <2>1, PtrType
<1>7. x \in Frames  BY <1>4, <1>6 DEF NoFrame, Frames
<1>8. x.q = 1 /\ x.back = "return" /\ x.proc = "enqueue" /\ x.node = <<t, made[t] + 1>>
  BY DEF NoFrame
<1>9. pc'[t] = "tail" /\ frame'[t] = x  BY <1>1, AtThread
<1> HIDE DEF x
<1>10. made'[t] = made[t] + 1 /\ made' \in [Threads -> 0 .. NumNodes]
       /\ \A u \in Threads : u # t => made'[u] = made[u]
  BY <1>1, <1>2, <1>3 DEF Types
<1>11. value'[<<t, made[t] + 1>>] = v /\ value' \in [Node -> Values \cup {Empty}]
       /\ \A y \in Node : y # <<t, made[t] + 1>> => value'[y] = value[y]
  BY <1>1, <1>4 DEF Types
<1>12. op'[t] = Push("R", v) /\ op' \in [Threads -> QueueOperations]
       /\ \A u \in Threads : u # t => op'[u] = op[u]
  BY DEF Types, QueueOperations
<1>13. Types'
  <2>1. pc' \in [Threads -> Places] /\ frame' \in [Threads -> Frames]
    BY <1>1, <1>7 DEF Types, Goto, Places
  <2> QED  BY <1>1, <1>10, <1>11, <1>12, <2>1 DEF Types
<1>14. Chain(h, n, i, j)'
  <2>1. ASSUME NEW u \in Threads, NEW k \in (made'[u] + 1) .. NumNodes
        PROVE  Unlinked(<<u, k>>, h, n)
    <3>1. made[u] \in 0 .. NumNodes  BY Basics
    <3>2. k \in (made[u] + 1) .. NumNodes
      BY <1>2, <1>10, <3>1
    <3> QED  BY <3>2 DEF Chain
  <2> QED  BY <1>1, <2>1 DEF Chain
<1>15. Knows(t, h, n, i, j)'
  <2>1. EnqueueKnows(t, h, n, j)'
    <3>1. op'[t].kind = "push" /\ op'[t].val = v  BY <1>12 DEF Push
    <3>2. made[t] + 1 > 0  BY <1>2
    <3> QED  BY <1>5, <1>8, <1>9, <1>10, <1>11, <3>1, <3>2 DEF EnqueueKnows
  <2> QED  BY <1>8, <1>9, <2>1 DEF Knows
<1>16. ASSUME NEW u \in Threads, u # t PROVE Knows(u, h, n, i, j)'
  <2>1. pc'[u] = pc[u] /\ frame'[u] = frame[u] /\ op'[u] = op[u] /\ made'[u] = made[u]
    BY <1>1, <1>10, <1>12, <1>16 DEF Types, Goto
  <2>2. \A k \in 1 .. NumNodes : value'[<<u, k>>] = value[<<u, k>>]
    <3> SUFFICES ASSUME NEW k \in 1 .. NumNodes PROVE value'[<<u, k>>] = value[<<u, k>>]
      OBVIOUS
    <3>1. <<u, k>> \in Node /\ <<u, k>> # <<t, made[t] + 1>>  BY <1>16, Basics
    <3> QED  BY <1>11, <3>1
  <2>3. \A b \in (n + 1) .. n : \E k \in Nat : h[b] = <<t, k>>  OBVIOUS
  <2>4. i \in 1 .. n /\ j \in 1 .. n  BY DEF Chain
  <2>5. Knows(u, h, n, i, j) /\ n <= n /\ i <= i /\ j <= j /\ \A b \in 1 .. n : h[b] = h[b]
    BY <2>4
  <2> QED  BY <1>16, <2>1, <2>2, <2>3, <2>4, <2>5, OthersKnow
<1>17. ASSUME NEW a \in 1 .. n PROVE value'[h[a]] = value[h[a]]
  <2>1. h[a] \in Node /\ h[a] # <<t, made[t] + 1>>  BY <1>5 DEF Unlinked
  <2> QED  BY <1>11, <2>1
<1> QED  BY <1>9, <1>13, <1>14, <1>15, <1>16, <1>17

\* The call of a dequeue.
LEMMA DequeueStarts ==
  ASSUME LinAssumption, Types, NEW t \in Threads,
         NEW n \in Nat, NEW h \in [1 .. n -> Node], NEW i, NEW j,
         Chain(h, n, i, j), \A u \in Threads : Knows(u, h, n, i, j),
         StartDequeue(t, 1, "return"), op' = [op EXCEPT ![t] = Pop("L")], WatchEmpty
  PROVE  /\ Types' /\ Chain(h, n, i, j)' /\ \A u \in Threads : Knows(u, h, n, i, j)'
         /\ pc'[t] = "head" /\ UNCHANGED value
<1> DEFINE x == [NoFrame EXCEPT !.q = 1, !.proc = "dequeue", !.back = "return"]
<1>1. frame' = [frame EXCEPT ![t] = x] /\ Goto(t, "head")
  BY DEF StartDequeue, StartAtHead
<1>2. UNCHANGED <<head_, tail_, next, value, made>>  BY DEF StartDequeue, StartAtHead
<1>3. NodePtr(Null, 0) \in Ptrs
  <2>1. Null \in Node \cup {Null} /\ 0 \in Nat  OBVIOUS
  <2> QED  BY <2>1, PtrType
<1>4. x \in Frames  BY <1>3 DEF NoFrame, Frames
<1>5. x.q = 1 /\ x.back = "return" /\ x.proc = "dequeue"  BY DEF NoFrame
<1>6. pc'[t] = "head" /\ frame'[t] = x  BY <1>1, AtThread
<1> HIDE DEF x
<1>7. op'[t] = Pop("L") /\ op' \in [Threads -> QueueOperations]
      /\ \A u \in Threads : u # t => op'[u] = op[u]
  BY DEF Types, QueueOperations
<1>8. Types'
  <2>1. pc' \in [Threads -> Places] /\ frame' \in [Threads -> Frames]
    BY <1>1, <1>4 DEF Types, Goto, Places
  <2> QED  BY <1>2, <1>7, <2>1 DEF Types
<1>9. Chain(h, n, i, j)'  BY <1>2 DEF Chain
<1>10. Knows(t, h, n, i, j)'
  <2>1. DequeueKnows(t, h, n, i, j)'
    <3>1. op'[t].kind = "pop"  BY <1>7 DEF Pop
    <3> QED  BY <1>6, <3>1 DEF DequeueKnows
  <2> QED  BY <1>5, <1>6, <2>1 DEF Knows
<1>11. ASSUME NEW u \in Threads, u # t PROVE Knows(u, h, n, i, j)'
  <2>1. pc'[u] = pc[u] /\ frame'[u] = frame[u] /\ op'[u] = op[u] /\ made'[u] = made[u]
    BY <1>1, <1>2, <1>7, <1>11 DEF Types, Goto
  <2>2. \A k \in 1 .. NumNodes : value'[<<u, k>>] = value[<<u, k>>]  BY <1>2
  <2>3. \A b \in (n + 1) .. n : \E k \in Nat : h[b] = <<t, k>>  OBVIOUS
  <2>4. i \in 1 .. n /\ j \in 1 .. n  BY DEF Chain
  <2>5. Knows(u, h, n, i, j) /\ n <= n /\ i <= i /\ j <= j /\ \A b \in 1 .. n : h[b] = h[b]
    BY <2>4
  <2> QED  BY <1>11, <2>1, <2>2, <2>3, <2>4, <2>5, OthersKnow
<1> QED  BY <1>2, <1>6, <1>8, <1>9, <1>10, <1>11

\* At first the sentinel is the only linked node.
LEMMA InitInv ==
  LinAssumption /\ Init => Inv
<1> SUFFICES ASSUME LinAssumption, Init PROVE Inv  OBVIOUS
<1> USE DEF Init, QueueInit
<1>1. SentinelOf(1) \in Node /\ Queues = {1} /\ NumNodes \in Nat
  BY DEF LinAssumption, MSQueueAssumption, Node
<1>2. Null \in Node \cup {Null} /\ 0 \in Nat /\ SentinelOf(1) \in Node \cup {Null}  BY <1>1
<1>3. NodePtr(Null, 0) \in Ptrs /\ NodePtr(Null, 0).value = Null  BY <1>2, PtrType
<1>4. NodePtr(SentinelOf(1), 0) \in Ptrs /\ NodePtr(SentinelOf(1), 0).value = SentinelOf(1)
  BY <1>2, PtrType
<1>5. NoFrame \in Frames  BY <1>3 DEF NoFrame, Frames
<1>6. Types
  <2>1. head_ \in [{1} -> Ptrs] /\ tail_ \in [{1} -> Ptrs]  BY <1>1, <1>4
  <2>2. next \in [Node -> Ptrs] /\ value \in [Node -> Values \cup {Empty}]
        /\ made \in [Threads -> 0 .. NumNodes]
    BY <1>1, <1>3
  <2>3. pc \in [Threads -> Places] /\ frame \in [Threads -> Frames]  BY <1>5 DEF Places
  <2>4. op \in [Threads -> QueueOperations]  BY DEF QueueOperations
  <2> QED  BY <2>1, <2>2, <2>3, <2>4 DEF Types
<1> DEFINE h == [a \in 1 .. 1 |-> SentinelOf(1)]
<1>7. h \in [1 .. 1 -> Node] /\ h[1] = SentinelOf(1)  BY <1>1
<1>8. Chain(h, 1, 1, 1)
  <2>1. head_[1].value = h[1] /\ tail_[1].value = h[1]  BY <1>1, <1>4, <1>7
  <2>2. \A x \in Node : next[x].value = Null  BY <1>3
  <2>3. ASSUME NEW u \in Threads, NEW k \in (made[u] + 1) .. NumNodes
        PROVE  Unlinked(<<u, k>>, h, 1)
    <3>1. <<u, k>> # SentinelOf(1)  BY DEF LinAssumption, MSQueueAssumption, SentinelOf
    <3> QED  BY <1>7, <3>1 DEF Unlinked
  <2>4. \A a, b \in 1 .. 1 : a = b  OBVIOUS
  <2>5. 1 \in 1 .. 1 /\ 1 - 1 <= 1 /\ 1 .. (1 - 1) = {}  OBVIOUS
  <2> HIDE DEF h
  <2> QED  BY <2>1, <2>2, <2>3, <2>4, <2>5 DEF Chain
<1>9. \A u \in Threads : Knows(u, h, 1, 1, 1)  BY DEF Knows
<1>10. 1 \in Nat /\ 1 \in 1 .. 1  OBVIOUS
<1> HIDE DEF h
<1> QED  BY <1>6, <1>7, <1>8, <1>9, <1>10 DEF Inv

\* Every step of an operation keeps the invariant.
LEMMA StepInv ==
  ASSUME LinAssumption, Types, NEW t \in Threads,
         NEW n \in Nat, NEW h \in [1 .. n -> Node], NEW i \in 1 .. n, NEW j \in 1 .. n,
         Chain(h, n, i, j), \A u \in Threads : Knows(u, h, n, i, j),
         Step(t), WatchEmpty
  PROVE  /\ Types'
         /\ \E m \in Nat : \E g \in [1 .. m -> Node] : \E r, s \in 1 .. m :
              Chain(g, m, r, s)' /\ \A u \in Threads : Knows(u, g, m, r, s)'
<1>1. UNCHANGED op  BY DEF Step
<1>2. CASE LoadHead(t)  BY <1>1, <1>2, LoadHeadKeeps
<1>3. CASE LoadTail(t)  BY <1>1, <1>3, LoadTailKeeps
<1>4. CASE LoadNext(t)  BY <1>1, <1>4, LoadNextKeeps
<1>5. CASE CheckTail(t)  BY <1>1, <1>5, CheckTailKeeps
<1>6. CASE Link(t)
  <2>1. CASE next[frame[t].tail_old.value] = frame[t].next
    <3>1. Types'  BY <1>1, <1>6, <2>1, LinkWins
    <3>2. PICK m \in Nat : \E g \in [1 .. m -> Node] :
            Extends(g, m, h, n, op[t].val) /\ Chain(g, m, i, j)' /\ \A u \in Threads : Knows(u, g, m, i, j)'
      BY <1>1, <1>6, <2>1, LinkWins
    <3>3. i \in 1 .. m /\ j \in 1 .. m  BY <3>2 DEF Extends
    <3> QED  BY <3>1, <3>2, <3>3
  <2>2. CASE next[frame[t].tail_old.value] # frame[t].next
    BY <1>1, <1>6, <2>2, LinkFails
  <2> QED  BY <2>1, <2>2
<1>7. CASE Swing(t)  BY <1>1, <1>7, SwingKeeps
<1>8. CASE Help(t)  BY <1>1, <1>8, HelpKeeps
<1>9. CASE CheckHead(t)  BY <1>1, <1>9, CheckHeadKeeps
<1>10. CASE Remove(t)
  <2>1. CASE head_[1] = frame[t].head_old
    <3>1. Types' /\ i \in 1 .. (n - 1)
          /\ Chain(h, n, i + 1, j)' /\ \A u \in Threads : Knows(u, h, n, i + 1, j)'
      BY <1>1, <1>10, <2>1, RemoveWins
    <3>2. i + 1 \in 1 .. n  BY <3>1
    <3> QED  BY <3>1, <3>2
  <2>2. CASE head_[1] # frame[t].head_old
    BY <1>1, <1>10, <2>2, RemoveFails
  <2> QED  BY <2>1, <2>2
<1>11. CASE Return(t)  BY <1>1, <1>11, ReturnKeeps
<1> QED
  BY <1>2, <1>3, <1>4, <1>5, <1>6, <1>7, <1>8, <1>9, <1>10, <1>11 DEF Step, QueueStep

\* A call is one of an enqueue or of a dequeue.
LEMMA CallKinds ==
  ASSUME NEW t \in Threads, NEW o \in QueueOperations, Call(t, o)
  PROVE  /\ pc[t] = "idle"
         /\ \/ \E v \in Values : /\ o = Push("R", v) /\ made[t] < NumNodes
                                 /\ StartEnqueue(t, 1, v, "return")
                                 /\ op' = [op EXCEPT ![t] = Push("R", v)]
            \/ /\ o = Pop("L") /\ StartDequeue(t, 1, "return")
               /\ op' = [op EXCEPT ![t] = Pop("L")]
<1>1. (\E v \in Values : o = Push("R", v)) \/ o = Pop("L")  BY DEF QueueOperations
<1>2. ASSUME NEW v \in Values, o = Push("R", v)
      PROVE  made[t] < NumNodes /\ StartEnqueue(t, 1, v, "return")
  <2>1. o.kind = "push" /\ o.val = v  BY <1>2 DEF Push
  <2> QED  BY <2>1 DEF Call
<1>3. ASSUME o = Pop("L") PROVE StartDequeue(t, 1, "return")
  <2>1. o.kind = "pop"  BY <1>3 DEF Pop
  <2> QED  BY <2>1 DEF Call
<1> QED  BY <1>1, <1>2, <1>3 DEF Call

\* Every step keeps the invariant.
LEMMA NextInv == Inv /\ [Next]_linVars => Inv'
<1> SUFFICES ASSUME Inv, [Next]_linVars PROVE Inv'  OBVIOUS
<1>1. LinAssumption /\ Types /\ LinAssumption'
  BY DEF Inv, LinAssumption, MSQueueAssumption
<1>2. PICK n \in Nat : \E h \in [1 .. n -> Node] : \E i, j \in 1 .. n :
        Chain(h, n, i, j) /\ \A u \in Threads : Knows(u, h, n, i, j)
  BY DEF Inv
<1>b. PICK h \in [1 .. n -> Node], i \in 1 .. n, j \in 1 .. n :
        Chain(h, n, i, j) /\ \A u \in Threads : Knows(u, h, n, i, j)
  BY <1>2
<1>3. CASE UNCHANGED linVars
  <2>1. UNCHANGED <<head_, tail_, next, value, made, frame, pc, op, sawEmpty>>
    BY <1>3 DEF linVars, queueVars
  <2>2. Types' /\ Chain(h, n, i, j)'  BY <1>1, <1>b, <2>1 DEF Types, Chain
  <2>3. ASSUME NEW u \in Threads PROVE Knows(u, h, n, i, j)'
    BY <1>b, <2>1 DEF Knows, EnqueueKnows, DequeueKnows, NoItem
  <2> QED  BY <1>1, <2>2, <2>3 DEF Inv
<1>4. ASSUME NEW t \in Threads, Step(t), WatchEmpty PROVE Inv'
  BY <1>1, <1>b, <1>4, StepInv DEF Inv
<1>5. ASSUME NEW t \in Threads, NEW o \in QueueOperations, Call(t, o), WatchEmpty PROVE Inv'
  <2>1. CASE \E v \in Values : /\ o = Push("R", v) /\ made[t] < NumNodes
                               /\ StartEnqueue(t, 1, v, "return")
                               /\ op' = [op EXCEPT ![t] = Push("R", v)]
    <3>1. Types' /\ Chain(h, n, i, j)' /\ \A u \in Threads : Knows(u, h, n, i, j)'
      BY <1>1, <1>b, <1>5, <2>1, EnqueueStarts
    <3> QED  BY <1>1, <3>1 DEF Inv
  <2>2. CASE StartDequeue(t, 1, "return") /\ op' = [op EXCEPT ![t] = Pop("L")]
    <3>1. Types' /\ Chain(h, n, i, j)' /\ \A u \in Threads : Knows(u, h, n, i, j)'
      BY <1>1, <1>b, <1>5, <2>2, DequeueStarts
    <3> QED  BY <1>1, <3>1 DEF Inv
  <2> QED  BY <1>5, <2>1, <2>2, CallKinds
<1> QED  BY <1>3, <1>4, <1>5 DEF Next

\* The invariant holds in every behaviour.
LEMMA Invariance == LinAssumption /\ Spec => []Inv
<1>1. LinAssumption /\ Init => Inv  BY InitInv
<1>2. Inv /\ [Next]_linVars => Inv'  BY NextInv
<1> QED  BY <1>1, <1>2, PTL DEF Spec

\* The queue has its type, and its tail is the last node or the one before, and not before
\* the head: whatever the tags are, and however often they wrap.
LEMMA InvShape == Inv => QueueTypeOK /\ TailNearEnd
<1> SUFFICES ASSUME Inv PROVE QueueTypeOK /\ TailNearEnd  OBVIOUS
<1>1. LinAssumption /\ Types /\ Queues = {1}  BY DEF Inv, LinAssumption
<1>2. PICK n \in Nat : \E h \in [1 .. n -> Node] : \E i, j \in 1 .. n : Chain(h, n, i, j)
  BY DEF Inv
<1>b. PICK h \in [1 .. n -> Node], i \in 1 .. n, j \in 1 .. n : Chain(h, n, i, j)  BY <1>2
<1>3. head_[1].value = h[i] /\ tail_[1].value = h[j] /\ j \in i .. n /\ n - j <= 1
  BY <1>b DEF Chain
<1>4. QueueTypeOK
  <2>1. head_[1] \in Ptrs /\ tail_[1] \in Ptrs  BY <1>1, Basics
  <2>2. head_[1] \in [value : Node, tag : Tags] /\ tail_[1] \in [value : Node, tag : Tags]
    BY <1>3, <2>1 DEF Ptrs
  <2>3. \A t \in Threads : frame[t].q \in Queues \cup {0} /\ frame[t].node \in Node \cup {Null}
    BY <1>1 DEF Types, Frames
  <2> QED  BY <1>1, <2>2, <2>3 DEF QueueTypeOK, Types
<1>5. TailNearEnd
  <2> DEFINE p == <<head_[1].value>> \o Path(1)
  <2>1. Path(1) = Rest(h, n, i)  BY <1>1, <1>b, ContentsAre
  <2>2. Rest(h, n, i) \in Seq(Node) /\ Len(Rest(h, n, i)) = n - i
        /\ \A k \in 1 .. (n - i) : Rest(h, n, i)[k] = h[i + k]
    <3> DEFINE s == Rest(h, n, i)
    <3>1. n - i \in Nat  OBVIOUS
    <3>2. \A k \in 1 .. (n - i) : i + k \in 1 .. n  OBVIOUS
    <3>3. s \in [1 .. (n - i) -> Node]  BY <3>2 DEF Rest
    <3>4. s \in Seq(Node)  BY <3>1, <3>3, SeqDef
    <3>5. DOMAIN s = 1 .. (n - i)  BY DEF Rest
    <3>6. \A k \in 1 .. (n - i) : s[k] = h[i + k]  BY DEF Rest
    <3> HIDE DEF s
    <3>7. DOMAIN s = 1 .. Len(s) /\ Len(s) \in Nat  BY <3>4, LenProperties
    <3>8. Len(s) = n - i  BY <3>1, <3>5, <3>7
    <3> QED  BY <3>4, <3>6, <3>8 DEF s
  <2>3. <<head_[1].value>> \in Seq(Node) /\ Len(<<head_[1].value>>) = 1  BY <1>3
  <2>4. Len(p) = 1 + (n - i)
        /\ \A k \in 1 .. 1 + (n - i) : p[k] = IF k <= 1 THEN <<head_[1].value>>[k] ELSE Rest(h, n, i)[k - 1]
    <3> HIDE DEF p
    <3>1. p = <<head_[1].value>> \o Rest(h, n, i)  BY <2>1 DEF p
    <3> QED  BY <2>2, <2>3, <3>1, ConcatProperties
  <2> HIDE DEF p
  <2>5. PICK k \in 1 .. 1 + (n - i) : k = 1 + (j - i)  BY <1>3
  <2>6. p[k] = h[j]
    <3>1. CASE j = i  BY <1>3, <2>4, <2>5, <3>1
    <3>2. CASE j # i
      <4>1. k - 1 \in 1 .. (n - i) /\ i + (k - 1) = j /\ ~(k <= 1)  BY <1>3, <2>5, <3>2
      <4> QED  BY <2>2, <2>4, <4>1
    <3> QED  BY <3>1, <3>2
  <2>7. k \in DOMAIN p /\ Len(p) - k <= 1
    <3>1. p \in Seq(Node)  BY <2>1, <2>2, <2>3, ConcatProperties DEF p
    <3>2. DOMAIN p = 1 .. Len(p)  BY <3>1, LenProperties
    <3>3. k \in 1 .. Len(p)  BY <2>4, <2>5
    <3> QED  BY <1>3, <2>4, <2>5, <3>2, <3>3
  <2> QED  BY <1>1, <1>3, <2>6, <2>7 DEF TailNearEnd, p
<1> QED  BY <1>4, <1>5

\* The queue keeps its shape for any number of threads and of nodes.
THEOREM QueueShape ==
  LinAssumption /\ Spec => [](QueueTypeOK /\ TailNearEnd)
<1>1. Inv => QueueTypeOK /\ TailNearEnd  BY InvShape
<1> QED  BY <1>1, Invariance, PTL

-----------------------------------------------------------------------------
(* The refinement. *)

\* A pending dequeue that waits while the queue is empty has seen it empty.
Watched == sawEmpty = { t \in PendingPops : t \in sawEmpty \/ Contents(1) = <<>> }

\* The instance of DequeSpec has the operations of this module.
LEMMA SameOperations ==
  /\ QueueOperations \subseteq Abstract!Operations
  /\ \A v, q : /\ Abstract!AtEnd("R", v, q) = Append(q, v)
               /\ Abstract!EndOf("L", q) = Head(q)
               /\ Abstract!WithoutEnd("L", q) = Tail(q)
<1>1. QueueOperations \subseteq Abstract!Operations
  BY DEF QueueOperations, Push, Pop, Abstract!Operations, Abstract!Push, Abstract!Pop,
         Abstract!Sides
<1>2. \A v, q : Abstract!AtEnd("R", v, q) = Append(q, v)
  BY DEF Abstract!AtEnd
<1>3. \A q : Abstract!EndOf("L", q) = Head(q) /\ Abstract!WithoutEnd("L", q) = Tail(q)
  BY DEF Abstract!EndOf, Abstract!WithoutEnd
<1> QED  BY <1>1, <1>2, <1>3

\* The history variable is the one of DequeSpec.
LEMMA SameHistory == WatchEmpty => Abstract!WatchEmpty /\ Watched'
<1> SUFFICES ASSUME WatchEmpty PROVE Abstract!WatchEmpty /\ Watched'  OBVIOUS
<1>1. Abstract!WatchEmpty
  BY DEF WatchEmpty, PendingPops, Abstract!WatchEmpty, Abstract!PendingPops
<1>2. Watched'  BY DEF WatchEmpty, Watched
<1> QED  BY <1>1, <1>2

\* What DequeSpec sees of a thread, by where the thread is.
LEMMA Seen ==
  ASSUME NEW t \in Threads
  PROVE  /\ Status[t] = "idle" <=> pc[t] = "idle"
         /\ Status[t] = "done" <=> pc[t] \in {"swing", "return"}
         /\ Status[t] = "pending" <=> pc[t] \notin {"idle", "swing", "return"}
         /\ Status[t] # "done" => Reply[t] = Empty
         /\ Status[t] = "done" => Reply[t] = IF op[t].kind = "push" THEN op[t].val ELSE Item(t)
<1>1. Status[t] = CASE pc[t] = "idle" -> "idle"
                    [] pc[t] \in {"swing", "return"} -> "done" [] OTHER -> "pending"
  BY DEF Status
<1>2. Reply[t] = IF Status[t] # "done" THEN Empty
                 ELSE IF op[t].kind = "push" THEN op[t].val ELSE Item(t)
  BY DEF Reply
<1>3. CASE pc[t] = "idle"  BY <1>1, <1>2, <1>3
<1>4. CASE pc[t] \in {"swing", "return"}  BY <1>1, <1>2, <1>4
<1>5. CASE pc[t] \notin {"idle", "swing", "return"}  BY <1>1, <1>2, <1>5
<1> QED  BY <1>3, <1>4, <1>5

\* The same of the next state.
LEMMA SeenNext ==
  ASSUME NEW t \in Threads
  PROVE  /\ Status'[t] = "idle" <=> pc'[t] = "idle"
         /\ Status'[t] = "done" <=> pc'[t] \in {"swing", "return"}
         /\ Status'[t] = "pending" <=> pc'[t] \notin {"idle", "swing", "return"}
         /\ Status'[t] # "done" => Reply'[t] = Empty
         /\ Status'[t] = "done" => Reply'[t] = IF op'[t].kind = "push" THEN op'[t].val ELSE Item(t)'
<1>1. Status'[t] = CASE pc'[t] = "idle" -> "idle"
                     [] pc'[t] \in {"swing", "return"} -> "done" [] OTHER -> "pending"
  BY DEF Status
<1>2. Reply'[t] = IF Status'[t] # "done" THEN Empty
                  ELSE IF op'[t].kind = "push" THEN op'[t].val ELSE Item(t)'
  BY DEF Reply
<1>3. CASE pc'[t] = "idle"  BY <1>1, <1>2, <1>3
<1>4. CASE pc'[t] \in {"swing", "return"}  BY <1>1, <1>2, <1>4
<1>5. CASE pc'[t] \notin {"idle", "swing", "return"}  BY <1>1, <1>2, <1>5
<1> QED  BY <1>3, <1>4, <1>5

\* A thread that stays where it is, with its operation and its item, looks the same.
LEMMA LooksSame ==
  ASSUME NEW u \in Threads, pc'[u] = pc[u], op'[u] = op[u],
         pc[u] = "return" /\ op[u].kind # "push" => Item(u)' = Item(u),
         pc[u] = "swing" => op[u].kind = "push"
  PROVE  Status'[u] = Status[u] /\ Reply'[u] = Reply[u]
<1>1. Status'[u] = Status[u]  BY DEF Status
<1>2. CASE Status[u] # "done"  BY <1>1, <1>2, Seen, SeenNext
<1>3. CASE Status[u] = "done"
  <2>1. pc[u] \in {"swing", "return"}  BY <1>3, Seen
  <2>2. Reply[u] = IF op[u].kind = "push" THEN op[u].val ELSE Item(u)  BY <1>3, Seen
  <2>3. Reply'[u] = IF op[u].kind = "push" THEN op[u].val ELSE Item(u)'
    BY <1>1, <1>3, SeenNext
  <2> QED  BY <1>1, <2>1, <2>2, <2>3
<1> QED  BY <1>1, <1>2, <1>3

\* A thread that alone looks different is the one whose status and reply change.
LEMMA OneLooksDifferent ==
  ASSUME NEW t \in Threads,
         \A u \in Threads \ {t} : Status'[u] = Status[u] /\ Reply'[u] = Reply[u]
  PROVE  /\ Status' = [Status EXCEPT ![t] = Status'[t]]
         /\ Reply' = [Reply EXCEPT ![t] = Reply'[t]]
<1>1. Status = [u \in Threads |-> Status[u]] /\ Status' = [u \in Threads |-> Status'[u]]
  BY DEF Status
<1>2. Reply = [u \in Threads |-> Reply[u]] /\ Reply' = [u \in Threads |-> Reply'[u]]
  BY DEF Reply
<1>3. Status' = [Status EXCEPT ![t] = Status'[t]]
  <2> DEFINE a == Status
             b == Status'
  <2>1. a = [u \in Threads |-> a[u]] /\ b = [u \in Threads |-> b[u]]
        /\ \A u \in Threads \ {t} : b[u] = a[u]
    BY <1>1
  <2> HIDE DEF a, b
  <2>2. b = [a EXCEPT ![t] = b[t]]  BY <2>1
  <2> QED  BY <2>2 DEF a, b
<1>4. Reply' = [Reply EXCEPT ![t] = Reply'[t]]
  <2> DEFINE a == Reply
             b == Reply'
  <2>1. a = [u \in Threads |-> a[u]] /\ b = [u \in Threads |-> b[u]]
        /\ \A u \in Threads \ {t} : b[u] = a[u]
    BY <1>2
  <2> HIDE DEF a, b
  <2>2. b = [a EXCEPT ![t] = b[t]]  BY <2>1
  <2> QED  BY <2>2 DEF a, b
<1> QED  BY <1>3, <1>4

\* A linked node is not swung to by a dequeue.
LEMMA SwingPushes ==
  ASSUME NEW u \in Threads, NEW h, NEW n, NEW i, NEW j, Knows(u, h, n, i, j), pc[u] = "swing"
  PROVE  op[u].kind = "push"
BY DEF Knows, EnqueueKnows, DequeueKnows

\* A step changes no value and no operation, and its own thread's place and locals only.
LEMMA StepFrame ==
  ASSUME Types, NEW t \in Threads, Step(t)
  PROVE  /\ UNCHANGED <<value, made, op>>
         /\ \A u \in Threads \ {t} : pc'[u] = pc[u] /\ frame'[u] = frame[u]
<1>1. UNCHANGED <<value, made, op>>
  BY DEF Step, QueueStep, LoadHead, LoadTail, LoadNext, CheckTail, Link, Swing, Help, CheckHead,
         Remove, Return, queueVars
<1>2. \E l : pc' = [pc EXCEPT ![t] = l]
  <2>1. CASE LoadHead(t) \/ LoadTail(t) \/ LoadNext(t) \/ Return(t)
    BY <2>1 DEF LoadHead, LoadTail, LoadNext, Return, Goto
  <2>2. CASE CheckTail(t)  BY <2>2 DEF CheckTail, Goto
  <2>3. CASE Link(t)  BY <2>3 DEF Link, Goto
  <2>4. CASE Swing(t)  BY <2>4 DEF Swing, Leave, Goto
  <2>5. CASE Help(t)  BY <2>5 DEF Help, Goto
  <2>6. CASE CheckHead(t)  BY <2>6 DEF CheckHead, Leave, Goto
  <2>7. CASE Remove(t)  BY <2>7 DEF Remove, Leave, Goto
  <2> QED  BY <2>1, <2>2, <2>3, <2>4, <2>5, <2>6, <2>7 DEF Step, QueueStep
<1>3. UNCHANGED frame \/ \E x : frame' = [frame EXCEPT ![t] = x]
  <2>1. CASE LoadHead(t)  BY <2>1 DEF LoadHead
  <2>2. CASE LoadTail(t)  BY <2>2 DEF LoadTail
  <2>3. CASE LoadNext(t)  BY <2>3 DEF LoadNext
  <2>4. CASE Return(t)  BY <2>4 DEF Return
  <2>5. CASE CheckTail(t) \/ Link(t) \/ Swing(t) \/ Help(t) \/ CheckHead(t) \/ Remove(t)
    BY <2>5 DEF CheckTail, Link, Swing, Help, CheckHead, Remove, queueVars
  <2> QED  BY <2>1, <2>2, <2>3, <2>4, <2>5 DEF Step, QueueStep
<1>4. \A u \in Threads \ {t} : pc'[u] = pc[u]  BY <1>2 DEF Types
<1>5. \A u \in Threads \ {t} : frame'[u] = frame[u]  BY <1>3 DEF Types
<1> QED  BY <1>1, <1>4, <1>5

\* To the others nothing happens in a step of t.
LEMMA OthersLookSame ==
  ASSUME Types, NEW t \in Threads, NEW h, NEW n, NEW i, NEW j,
         \A u \in Threads : Knows(u, h, n, i, j), Step(t)
  PROVE  \A u \in Threads \ {t} : Status'[u] = Status[u] /\ Reply'[u] = Reply[u]
<1> SUFFICES ASSUME NEW u \in Threads \ {t} PROVE Status'[u] = Status[u] /\ Reply'[u] = Reply[u]
  OBVIOUS
<1>1. value' = value /\ op' = op /\ pc'[u] = pc[u] /\ frame'[u] = frame[u]  BY StepFrame
<1>2. Item(u)' = Item(u)  BY <1>1 DEF Item, NoItem
<1>3. pc[u] = "swing" => op[u].kind = "push"  BY SwingPushes
<1> QED  BY <1>1, <1>2, <1>3, LooksSame

\* A step that neither completes an operation nor ends a call is a stutter.
LEMMA QuietStep ==
  ASSUME LinAssumption, Types, NEW t \in Threads,
         NEW n \in Nat, NEW h \in [1 .. n -> Node], NEW i, NEW j, NEW s,
         Chain(h, n, i, j), \A u \in Threads : Knows(u, h, n, i, j), Chain(h, n, i, s)',
         Step(t), Watched, WatchEmpty,
         \/ pc[t] \notin {"idle", "swing", "return"} /\ pc'[t] \notin {"idle", "swing", "return"}
         \/ pc[t] = "swing" /\ pc'[t] = "return"
  PROVE  UNCHANGED Abstract!vars
<1>1. value' = value /\ op' = op  BY StepFrame
<1>2. Contents(1)' = Contents(1)
  <2>1. Contents(1) = Items(h, n, i, value)  BY ContentsAre
  <2>2. Contents(1)' = Items(h, n, i, value')  BY ContentsNext
  <2> QED  BY <1>1, <2>1, <2>2
<1>3. Status'[t] = Status[t] /\ Reply'[t] = Reply[t]
  <2>1. CASE pc[t] \notin {"idle", "swing", "return"} /\ pc'[t] \notin {"idle", "swing", "return"}
    <3>1. Status[t] = "pending" /\ Status'[t] = "pending"  BY <2>1, Seen, SeenNext
    <3> QED  BY <3>1, Seen, SeenNext
  <2>2. CASE pc[t] = "swing" /\ pc'[t] = "return"
    <3>1. Status[t] = "done" /\ Status'[t] = "done"  BY <2>2, Seen, SeenNext
    <3>2. op[t].kind = "push"  BY <2>2, SwingPushes
    <3>3. Reply[t] = op[t].val  BY <3>1, <3>2, Seen
    <3>4. Reply'[t] = op[t].val  BY <1>1, <3>1, <3>2, SeenNext
    <3> QED  BY <3>1, <3>3, <3>4
  <2> QED  BY <2>1, <2>2
<1>4. \A u \in Threads : Status'[u] = Status[u] /\ Reply'[u] = Reply[u]
  BY <1>3, OthersLookSame
<1>5. Status' = Status /\ Reply' = Reply
  <2>1. Status = [u \in Threads |-> Status[u]] /\ Status' = [u \in Threads |-> Status'[u]]
    BY DEF Status
  <2>2. Reply = [u \in Threads |-> Reply[u]] /\ Reply' = [u \in Threads |-> Reply'[u]]
    BY DEF Reply
  <2> QED  BY <1>4, <2>1, <2>2
<1>6. PendingPops' = PendingPops  BY <1>1, <1>5 DEF PendingPops
<1>7. sawEmpty' = sawEmpty  BY <1>2, <1>6 DEF Watched, WatchEmpty
<1> QED  BY <1>1, <1>2, <1>5, <1>7 DEF Abstract!vars

\* A step in which the operation of t takes effect, with the answer r.
LEMMA StepFinishes ==
  ASSUME Types, NEW t \in Threads, NEW h, NEW n, NEW i, NEW j,
         \A u \in Threads : Knows(u, h, n, i, j), Step(t),
         pc[t] \notin {"idle", "swing", "return"}, pc'[t] \in {"swing", "return"},
         NEW r, r = IF op[t].kind = "push" THEN op[t].val ELSE Item(t)'
  PROVE  Abstract!Finish(t, r)
<1>1. op' = op  BY StepFrame
<1>2. Status[t] = "pending" /\ Status'[t] = "done"  BY Seen, SeenNext
<1>3. Reply'[t] = r  BY <1>1, <1>2, SeenNext
<1>4. /\ Status' = [Status EXCEPT ![t] = Status'[t]]
      /\ Reply' = [Reply EXCEPT ![t] = Reply'[t]]
  BY OthersLookSame, OneLooksDifferent
<1> QED  BY <1>1, <1>2, <1>3, <1>4 DEF Abstract!Finish

\* An enqueue takes effect when its node is linked.
LEMMA LinkRefines ==
  ASSUME LinAssumption, Types, NEW t \in Threads,
         NEW n \in Nat, NEW h \in [1 .. n -> Node], NEW i, NEW j,
         Chain(h, n, i, j), \A u \in Threads : Knows(u, h, n, i, j),
         Link(t), next[frame[t].tail_old.value] = frame[t].next, UNCHANGED op, WatchEmpty
  PROVE  Abstract!TakePush(t)
<1>1. pc[t] = "link" /\ pc'[t] = "swing" /\ op[t].kind = "push" /\ value' = value
  BY LinkWins
<1>2. PICK m \in Nat : \E g \in [1 .. m -> Node] :
        Extends(g, m, h, n, op[t].val) /\ Chain(g, m, i, j)'
  BY LinkWins
<1>3. PICK g \in [1 .. m -> Node] : Extends(g, m, h, n, op[t].val) /\ Chain(g, m, i, j)'
  BY <1>2
<1>4. /\ m = n + 1 /\ g \in [1 .. (n + 1) -> Node] /\ \A a \in 1 .. n : g[a] = h[a]
      /\ value[g[m]] = op[t].val
  BY <1>3 DEF Extends
<1>5. i \in 1 .. n  BY DEF Chain
<1>6. value \in [Node -> Stored]  BY DEF Types, Stored
<1>7. Contents(1) = Items(h, n, i, value)  BY ContentsAre
<1>8. Contents(1)' = Items(g, n + 1, i, value)
  <2>1. Contents(1)' = Items(g, m, i, value')  BY <1>3, ContentsNext
  <2> QED  BY <1>1, <1>4, <2>1
<1>9. Items(g, n + 1, i, value) = Append(Items(h, n, i, value), value[g[n + 1]])
  BY <1>3, <1>4, <1>5, <1>6, ItemsAppend
<1>10. op[t].side = "R"
  <2>1. op[t] \in QueueOperations  BY DEF Types
  <2> QED  BY <1>1, <2>1 DEF QueueOperations, Push, Pop
<1>11. Contents(1)' = Abstract!AtEnd(op[t].side, op[t].val, Contents(1))
  <2>1. Contents(1)' = Append(Contents(1), op[t].val)  BY <1>3, <1>4, <1>7, <1>8, <1>9
  <2> QED  BY <1>10, <2>1, SameOperations
<1>12. Step(t)  BY DEF Step, QueueStep
<1>13. Abstract!Finish(t, op[t].val)  BY <1>1, <1>12, StepFinishes
<1> QED  BY <1>1, <1>11, <1>13 DEF Abstract!TakePush

\* A dequeue takes effect when the head moves on.
LEMMA RemoveRefines ==
  ASSUME LinAssumption, Types, NEW t \in Threads,
         NEW n \in Nat, NEW h \in [1 .. n -> Node], NEW i, NEW j,
         Chain(h, n, i, j), \A u \in Threads : Knows(u, h, n, i, j),
         Remove(t), head_[1] = frame[t].head_old, UNCHANGED op, WatchEmpty
  PROVE  Abstract!TakePop(t)
<1>1. /\ i \in 1 .. (n - 1) /\ Chain(h, n, i + 1, j)'
      /\ pc[t] = "remove" /\ pc'[t] = "return" /\ op[t].kind = "pop" /\ value' = value
      /\ Item(t)' = value[h[i + 1]]
  BY RemoveWins
<1>2. value \in [Node -> Stored]  BY DEF Types, Stored
<1>3. Contents(1) = Items(h, n, i, value)  BY ContentsAre
<1>4. Contents(1)' = Items(h, n, i + 1, value)
  <2>1. Contents(1)' = Items(h, n, i + 1, value')  BY <1>1, ContentsNext
  <2> QED  BY <1>1, <2>1
<1>5. /\ Contents(1) # << >> /\ Head(Contents(1)) = value[h[i + 1]]
      /\ Tail(Contents(1)) = Contents(1)'
  BY <1>1, <1>2, <1>3, <1>4, ItemsTail
<1>6. op[t].side = "L"
  <2>1. op[t] \in QueueOperations  BY DEF Types
  <2> QED  BY <1>1, <2>1 DEF QueueOperations, Push, Pop
<1>7. /\ Contents(1)' = Abstract!WithoutEnd(op[t].side, Contents(1))
      /\ Abstract!EndOf(op[t].side, Contents(1)) = value[h[i + 1]]
  BY <1>5, <1>6, SameOperations
<1>8. Step(t)  BY DEF Step, QueueStep
<1>9. op[t].kind # "push"  BY <1>1
<1>10. Abstract!Finish(t, value[h[i + 1]])  BY <1>1, <1>8, <1>9, StepFinishes
<1> QED  BY <1>1, <1>5, <1>7, <1>10 DEF Abstract!TakePop

\* A dequeue that finds nothing has seen the queue empty.
LEMMA EmptyRefines ==
  ASSUME LinAssumption, Types, NEW t \in Threads,
         NEW n \in Nat, NEW h \in [1 .. n -> Node], NEW i, NEW j,
         Chain(h, n, i, j), \A u \in Threads : Knows(u, h, n, i, j),
         CheckHead(t), pc'[t] = "return", UNCHANGED op, WatchEmpty
  PROVE  Abstract!TakeEmpty(t)
<1>1. pc[t] = "check" /\ op[t].kind = "pop" /\ NoItem(t) /\ t \in sawEmpty /\ Chain(h, n, i, j)'
  BY CheckHeadKeeps
<1>2. value' = value /\ frame' = frame  BY DEF CheckHead, queueVars
<1>3. Contents(1)' = Contents(1)
  <2>1. Contents(1) = Items(h, n, i, value)  BY ContentsAre
  <2>2. Contents(1)' = Items(h, n, i, value')  BY <1>1, ContentsNext
  <2> QED  BY <1>2, <2>1, <2>2
<1>4. Item(t)' = Empty  BY <1>1, <1>2 DEF Item, NoItem
<1>5. Step(t)  BY DEF Step, QueueStep
<1>6. op[t].kind # "push"  BY <1>1
<1>7. Abstract!Finish(t, Empty)  BY <1>1, <1>4, <1>5, <1>6, StepFinishes
<1> QED  BY <1>1, <1>3, <1>7 DEF Abstract!TakeEmpty

\* The return of an operation.
LEMMA ReturnRefines ==
  ASSUME LinAssumption, Types, NEW t \in Threads,
         NEW n \in Nat, NEW h \in [1 .. n -> Node], NEW i, NEW j,
         Chain(h, n, i, j), \A u \in Threads : Knows(u, h, n, i, j),
         Return(t), UNCHANGED op, WatchEmpty
  PROVE  Abstract!Return(t)
<1>1. value' = value /\ pc[t] = "return" /\ pc'[t] = "idle"
  BY DEF Return, Goto, Types
<1>2. Chain(h, n, i, j)'  BY ReturnKeeps
<1>3. Contents(1)' = Contents(1)
  <2>1. Contents(1) = Items(h, n, i, value)  BY ContentsAre
  <2>2. Contents(1)' = Items(h, n, i, value')  BY <1>2, ContentsNext
  <2> QED  BY <1>1, <2>1, <2>2
<1>4. Step(t)  BY DEF Step
<1>5. /\ Status' = [Status EXCEPT ![t] = Status'[t]]
      /\ Reply' = [Reply EXCEPT ![t] = Reply'[t]]
  BY <1>4, OthersLookSame, OneLooksDifferent
<1>6. Status[t] = "done" /\ Status'[t] = "idle"  BY <1>1, Seen, SeenNext
<1>7. Reply'[t] = Empty  BY <1>6, SeenNext
<1> QED  BY <1>3, <1>5, <1>6, <1>7 DEF Abstract!Return

\* Its call: what the others return stays the same, as the new node is not linked.
LEMMA CallRefines ==
  ASSUME LinAssumption, Types, NEW t \in Threads, NEW o \in QueueOperations,
         NEW n \in Nat, NEW h \in [1 .. n -> Node], NEW i, NEW j,
         Chain(h, n, i, j), \A u \in Threads : Knows(u, h, n, i, j),
         Call(t, o), WatchEmpty
  PROVE  Abstract!Call(t)
<1>1. pc[t] = "idle" /\ op' = [op EXCEPT ![t] = o]  BY DEF Call
<1>2. /\ Chain(h, n, i, j)' /\ pc'[t] \in {"head", "tail"}
      /\ \A a \in 1 .. n : value'[h[a]] = value[h[a]]
      /\ \A u \in Threads \ {t} : pc'[u] = pc[u] /\ frame'[u] = frame[u]
  <2>1. CASE \E v \in Values : /\ o = Push("R", v) /\ made[t] < NumNodes
                               /\ StartEnqueue(t, 1, v, "return")
                               /\ op' = [op EXCEPT ![t] = Push("R", v)]
    <3>1. PICK v \in Values : /\ made[t] < NumNodes /\ StartEnqueue(t, 1, v, "return")
                              /\ op' = [op EXCEPT ![t] = Push("R", v)]
      BY <2>1
    <3>2. Chain(h, n, i, j)' /\ pc'[t] = "tail" /\ \A a \in 1 .. n : value'[h[a]] = value[h[a]]
      BY <3>1, EnqueueStarts
    <3>3. \A u \in Threads \ {t} : pc'[u] = pc[u] /\ frame'[u] = frame[u]
      BY <3>1 DEF StartEnqueue, Goto, Types
    <3> QED  BY <3>2, <3>3
  <2>2. CASE StartDequeue(t, 1, "return") /\ op' = [op EXCEPT ![t] = Pop("L")]
    <3>1. Chain(h, n, i, j)' /\ pc'[t] = "head" /\ value' = value
      BY <2>2, DequeueStarts
    <3>2. \A u \in Threads \ {t} : pc'[u] = pc[u] /\ frame'[u] = frame[u]
      BY <2>2 DEF StartDequeue, StartAtHead, Goto, Types
    <3> QED  BY <3>1, <3>2
  <2> QED  BY <2>1, <2>2, CallKinds
<1>3. i \in 1 .. n  BY DEF Chain
<1>4. Contents(1)' = Contents(1)
  <2>1. Contents(1) = Items(h, n, i, value)  BY ContentsAre
  <2>2. Contents(1)' = Items(h, n, i, value')  BY <1>2, ContentsNext
  <2>3. Items(h, n, i, value') = Items(h, n, i, value)  BY <1>2, <1>3, ItemsSame
  <2> QED  BY <2>1, <2>2, <2>3
<1>5. ASSUME NEW u \in Threads \ {t} PROVE Status'[u] = Status[u] /\ Reply'[u] = Reply[u]
  <2>1. pc'[u] = pc[u] /\ frame'[u] = frame[u] /\ op'[u] = op[u]  BY <1>1, <1>2 DEF Types
  <2>2. pc[u] = "swing" => op[u].kind = "push"  BY SwingPushes
  <2>3. ASSUME pc[u] = "return", op[u].kind # "push" PROVE Item(u)' = Item(u)
    <3>1. NoItem(u) \/ \E a \in 1 .. n : frame[u].next.value = h[a]
      BY <2>3 DEF Knows, EnqueueKnows, DequeueKnows
    <3>2. NoItem(u)' = NoItem(u)  BY <2>1 DEF NoItem
    <3>3. CASE NoItem(u)  BY <3>2, <3>3 DEF Item
    <3>4. CASE \E a \in 1 .. n : frame[u].next.value = h[a]
      <4>1. value'[frame[u].next.value] = value[frame[u].next.value]  BY <1>2, <3>4
      <4> QED  BY <2>1, <3>2, <4>1 DEF Item
    <3> QED  BY <3>1, <3>3, <3>4
  <2> QED  BY <2>1, <2>2, <2>3, LooksSame
<1>6. /\ Status' = [Status EXCEPT ![t] = Status'[t]]
      /\ Reply' = [Reply EXCEPT ![t] = Reply'[t]]
  BY <1>5, OneLooksDifferent
<1>7. Status[t] = "idle" /\ Status'[t] = "pending"  BY <1>1, <1>2, Seen, SeenNext
<1>8. Reply[t] = Empty /\ Reply'[t] = Empty  BY <1>7, Seen, SeenNext
<1>9. Reply' = Reply
  <2>1. Reply = [u \in Threads |-> Reply[u]]  BY DEF Reply
  <2> QED  BY <1>6, <1>8, <2>1
<1>10. o \in Abstract!Operations  BY SameOperations
<1> QED  BY <1>1, <1>4, <1>6, <1>7, <1>9, <1>10 DEF Abstract!Call

\* Every step of a thread is a step of DequeSpec or a stutter.
LEMMA StepRefines ==
  ASSUME LinAssumption, Types, NEW t \in Threads,
         NEW n \in Nat, NEW h \in [1 .. n -> Node], NEW i \in 1 .. n, NEW j \in 1 .. n,
         Chain(h, n, i, j), \A u \in Threads : Knows(u, h, n, i, j),
         Step(t), Watched, WatchEmpty
  PROVE  [Abstract!Next]_(Abstract!vars)
<1>1. Abstract!WatchEmpty  BY SameHistory
<1>2. UNCHANGED op  BY DEF Step
<1>3. CASE LoadHead(t)
  <2>1. Chain(h, n, i, j)'  BY <1>2, <1>3, LoadHeadKeeps
  <2>2. pc[t] = "head" /\ pc'[t] = "tail"  BY <1>3 DEF LoadHead, Goto, Types
  <2> QED  BY <2>1, <2>2, QuietStep
<1>4. CASE LoadTail(t)
  <2>1. Chain(h, n, i, j)'  BY <1>2, <1>4, LoadTailKeeps
  <2>2. pc[t] = "tail" /\ pc'[t] = "next"  BY <1>4 DEF LoadTail, Goto, Types
  <2> QED  BY <2>1, <2>2, QuietStep
<1>5. CASE LoadNext(t)
  <2>1. Chain(h, n, i, j)'  BY <1>2, <1>5, LoadNextKeeps
  <2>2. pc[t] = "next" /\ pc'[t] = "check"  BY <1>5 DEF LoadNext, Goto, Types
  <2> QED  BY <2>1, <2>2, QuietStep
<1>6. CASE CheckTail(t)
  <2>1. Chain(h, n, i, j)'  BY <1>2, <1>6, CheckTailKeeps
  <2>2. pc[t] = "check" /\ pc'[t] \in {"tail", "link", "help"}
    BY <1>6 DEF CheckTail, Goto, Types
  <2> QED  BY <2>1, <2>2, QuietStep
<1>7. CASE Link(t)
  <2>1. CASE next[frame[t].tail_old.value] = frame[t].next
    <3>1. Abstract!TakePush(t)  BY <1>2, <1>7, <2>1, LinkRefines
    <3> QED  BY <1>1, <3>1 DEF Abstract!Next
  <2>2. CASE next[frame[t].tail_old.value] # frame[t].next
    <3>1. Chain(h, n, i, j)' /\ pc'[t] = "tail"  BY <1>2, <1>7, <2>2, LinkFails
    <3>2. pc[t] = "link"  BY <1>7 DEF Link
    <3> QED  BY <3>1, <3>2, QuietStep
  <2> QED  BY <2>1, <2>2
<1>8. CASE Swing(t)
  <2>1. PICK s \in 1 .. n : Chain(h, n, i, s)'  BY <1>2, <1>8, SwingKeeps
  <2>2. pc'[t] = "return"  BY <1>2, <1>8, SwingKeeps
  <2>3. pc[t] = "swing"  BY <1>8 DEF Swing
  <2> QED  BY <2>1, <2>2, <2>3, QuietStep
<1>9. CASE Help(t)
  <2>1. PICK s \in 1 .. n : Chain(h, n, i, s)'  BY <1>2, <1>9, HelpKeeps
  <2>2. pc'[t] \in {"head", "tail"}  BY <1>2, <1>9, HelpKeeps
  <2>3. pc[t] = "help"  BY <1>9 DEF Help
  <2> QED  BY <2>1, <2>2, <2>3, QuietStep
<1>10. CASE CheckHead(t)
  <2>1. Chain(h, n, i, j)' /\ pc[t] = "check" /\ pc'[t] \in {"head", "help", "remove", "return"}
    BY <1>2, <1>10, CheckHeadKeeps
  <2>2. CASE pc'[t] = "return"
    <3>1. Abstract!TakeEmpty(t)  BY <1>2, <1>10, <2>2, EmptyRefines
    <3> QED  BY <1>1, <3>1 DEF Abstract!Next
  <2>3. CASE pc'[t] # "return"
    <3>1. pc'[t] \notin {"idle", "swing", "return"}  BY <2>1, <2>3
    <3> QED  BY <2>1, <3>1, QuietStep
  <2> QED  BY <2>2, <2>3
<1>11. CASE Remove(t)
  <2>1. CASE head_[1] = frame[t].head_old
    <3>1. Abstract!TakePop(t)  BY <1>2, <1>11, <2>1, RemoveRefines
    <3> QED  BY <1>1, <3>1 DEF Abstract!Next
  <2>2. CASE head_[1] # frame[t].head_old
    <3>1. Chain(h, n, i, j)' /\ pc'[t] = "head"  BY <1>2, <1>11, <2>2, RemoveFails
    <3>2. pc[t] = "remove"  BY <1>11 DEF Remove
    <3> QED  BY <3>1, <3>2, QuietStep
  <2> QED  BY <2>1, <2>2
<1>12. CASE Return(t)
  <2>1. Abstract!Return(t)  BY <1>2, <1>12, ReturnRefines
  <2> QED  BY <1>1, <2>1 DEF Abstract!Next
<1> QED
  BY <1>3, <1>4, <1>5, <1>6, <1>7, <1>8, <1>9, <1>10, <1>11, <1>12 DEF Step, QueueStep

\* The initial states are those of DequeSpec.
LEMMA InitRefines == LinAssumption /\ Init => Abstract!Init /\ Watched
<1> SUFFICES ASSUME LinAssumption, Init PROVE Abstract!Init /\ Watched  OBVIOUS
<1>1. Inv  BY InitInv
<1>2. LinAssumption /\ head_[1] = NodePtr(SentinelOf(1), 0)
  BY DEF Init, QueueInit, LinAssumption
<1>3. pc = [t \in Threads |-> "idle"] /\ op = [t \in Threads |-> Pop("L")] /\ sawEmpty = {}
  BY DEF Init
<1>4. Status = [t \in Threads |-> "idle"]  BY <1>3 DEF Status
<1>5. Reply = [t \in Threads |-> Empty]  BY <1>4 DEF Reply
<1>6. PendingPops = {}  BY <1>4 DEF PendingPops
<1>7. Contents(1) = << >>
  <2> DEFINE h == [a \in 1 .. 1 |-> SentinelOf(1)]
  <2>1. SentinelOf(1) \in Node  BY DEF LinAssumption, Node
  <2>2. h \in [1 .. 1 -> Node] /\ h[1] = SentinelOf(1)  BY <2>1
  <2>3. \A x \in Node : next[x].value = Null  BY DEF Init, QueueInit, NodePtr
  <2>4. head_[1].value = h[1]  BY <1>2, <2>2 DEF NodePtr
  <2>5. 1 \in Nat /\ 1 \in 1 .. 1 /\ 1 .. (1 - 1) = {} /\ \A a, b \in 1 .. 1 : a = b  OBVIOUS
  <2> HIDE DEF h
  <2>6. Row(h, 1, next)  BY <2>1, <2>2, <2>3, <2>5 DEF Row
  <2>7. Path(1) = Rest(h, 1, 1)
    <3>1. PICK n \in Nat : n = 1  BY <2>5
    <3>2. h \in [1 .. n -> Node] /\ n \in 1 .. n /\ Row(h, n, next)  BY <2>2, <2>5, <2>6, <3>1
    <3>3. Behind(h[n], next) = Rest(h, n, n)  BY <1>2, <3>2, BehindIs
    <3> QED  BY <2>4, <3>1, <3>3 DEF Path
  <2>8. Path(1) = << >>  BY <2>7 DEF Rest
  <2> QED  BY <2>8 DEF Contents
<1>8. op \in [Threads -> Abstract!Operations]
  <2>1. Pop("L") \in Abstract!Operations  BY SameOperations DEF QueueOperations
  <2> QED  BY <1>3, <2>1
<1> QED  BY <1>3, <1>4, <1>5, <1>6, <1>7, <1>8 DEF Abstract!Init, Watched

\* Every step, call or stutter of MSQueueLin is one of DequeSpec.
LEMMA NextRefines ==
  Inv /\ Watched /\ [Next]_linVars => [Abstract!Next]_(Abstract!vars) /\ Watched'
<1> SUFFICES ASSUME Inv, Watched, [Next]_linVars
             PROVE  [Abstract!Next]_(Abstract!vars) /\ Watched'
  OBVIOUS
<1>1. LinAssumption /\ Types  BY DEF Inv
<1>2. PICK n \in Nat : \E h \in [1 .. n -> Node] : \E i, j \in 1 .. n :
        Chain(h, n, i, j) /\ \A u \in Threads : Knows(u, h, n, i, j)
  BY DEF Inv
<1>3. PICK h \in [1 .. n -> Node], i \in 1 .. n, j \in 1 .. n :
        Chain(h, n, i, j) /\ \A u \in Threads : Knows(u, h, n, i, j)
  BY <1>2
<1>4. CASE UNCHANGED linVars
  <2>1. UNCHANGED <<head_, next, value, frame, pc, op, sawEmpty>>
    BY <1>4 DEF linVars, queueVars
  <2>2. Contents(1)' = Contents(1)  BY <2>1 DEF Contents, Path
  <2>3. Status' = Status  BY <2>1 DEF Status
  <2>4. Reply' = Reply  BY <2>1, <2>3 DEF Reply, Item, NoItem
  <2>5. PendingPops' = PendingPops  BY <2>1, <2>3 DEF PendingPops
  <2> QED  BY <2>1, <2>2, <2>3, <2>4, <2>5 DEF Abstract!vars, Watched
<1>5. ASSUME NEW t \in Threads, Step(t), WatchEmpty
      PROVE  [Abstract!Next]_(Abstract!vars) /\ Watched'
  BY <1>1, <1>3, <1>5, StepRefines, SameHistory
<1>6. ASSUME NEW t \in Threads, NEW o \in QueueOperations, Call(t, o), WatchEmpty
      PROVE  [Abstract!Next]_(Abstract!vars) /\ Watched'
  <2>1. Abstract!Call(t)  BY <1>1, <1>3, <1>6, CallRefines
  <2> QED  BY <1>6, <2>1, SameHistory DEF Abstract!Next
<1> QED  BY <1>4, <1>5, <1>6 DEF Next

\* The queue is linearizable: it implements the queue of DequeSpec, for any number of
\* threads, of nodes and of tags that have wrapped.
THEOREM Refines == LinAssumption /\ Spec => Linearizable
<1>1. LinAssumption /\ Init => Abstract!Init /\ Watched  BY InitRefines
<1>2. Inv /\ Watched /\ [Next]_linVars => [Abstract!Next]_(Abstract!vars) /\ Watched'
  BY NextRefines
<1> QED  BY <1>1, <1>2, Invariance, PTL DEF Spec, Linearizable, Abstract!Spec
=============================================================================
