--------------------------- MODULE FCDequeProofs ---------------------------
(***************************************************************************)
(* FCDeque is a linearizable deque, for any number of threads and values:  *)
(* the refinement that module FCDeque states, proved.                      *)
(*                                                                         *)
(* A step of the combiner maps to the operation it serves.  That needs     *)
(* NotedPopsWait (what it serves still waits), RequestOK (a waiting        *)
(* request is the operation its thread has called) and Watched (a pop that *)
(* waits while the deque is empty has seen it empty).                      *)
(***************************************************************************)
EXTENDS FCDeque, TLAPS

StatusOf(o) == IF o.kind = "push" THEN IF o.side = "L" THEN "LEFT_PUSH" ELSE "RIGHT_PUSH"
               ELSE IF o.side = "L" THEN "LEFT_POP" ELSE "RIGHT_POP"

\* A request that waits belongs to the operation its thread has called.
RequestOK(t) ==
  /\ pc[t] \in {"idle", "return"} => Complete(t)
  /\ ~Complete(t) => /\ requests[t].status = StatusOf(op[t])
                     /\ op[t].kind = "push" => requests[t].value = op[t].val

Requests == \A t \in Threads : RequestOK(t)

\* The combiner is alone, and the pops of its lists wait.
Noted(t) ==
  LET l == loc[t].leftPoppers r == loc[t].rightPoppers IN
  /\ m_nLock = 1
  /\ \A u \in Threads : pc[u] = "combine" => u = t
  /\ \A k \in 1 .. Len(l) : requests[l[k]].status = "LEFT_POP" /\ l[k] < loc[t].i
  /\ \A k \in 1 .. Len(r) : requests[r[k]].status = "RIGHT_POP" /\ r[k] < loc[t].i
  /\ \A k, j \in 1 .. Len(l) : l[k] = l[j] => k = j
  /\ \A k, j \in 1 .. Len(r) : r[k] = r[j] => k = j

NotedAll == \A t \in Threads : pc[t] = "combine" => Noted(t)

Inv == TypeOK /\ Requests /\ NotedAll

-----------------------------------------------------------------------------
\* The operations are pushes of a value and pops, of either side.
LEMMA Shape ==
  ASSUME NEW o \in Operations
  PROVE  /\ o.kind \in {"push", "pop"} /\ o.side \in Sides
         /\ o.kind = "push" => o.val \in Values
         /\ o = [kind |-> o.kind, side |-> o.side, val |-> o.val]
  BY DEF Operations, Push, Pop

\* The combiner looks at a request of a thread.
LEMMA AtThread ==
  ASSUME TypeOK, NEW t \in Threads, loc[t].i <= LastRequest
  PROVE  loc[t].i \in Threads
<1>1. loc[t].i \in Nat
  BY DEF TypeOK
<1> QED  BY <1>1, FCDequeAssumption DEF LastRequest

\* The pops the combiner has noted are threads.
LEMMA AtPopper ==
  ASSUME TypeOK, NEW t \in Threads
  PROVE  /\ loc[t].leftPoppers \in Seq(Threads) /\ loc[t].rightPoppers \in Seq(Threads)
         /\ loc[t].i \in Nat
  BY DEF TypeOK

\* Every step keeps the types.
LEMMA StepTypes ==
  ASSUME TypeOK, Requests, NEW t \in Threads, Step(t)
  PROVE  TypeOK'
<1> DEFINE Locs == [i : Nat, leftPoppers : Seq(Threads), rightPoppers : Seq(Threads)]
           Reqs == [value : Values \cup {Empty}, status : Statuses]
<1>1. /\ m_deque \in Seq(Values) /\ m_nLock \in {0, 1} /\ requests \in [Threads -> Reqs]
      /\ pc \in [Threads -> {"idle", "wait", "look", "lock", "combine", "return"}]
      /\ loc \in [Threads -> Locs] /\ op \in [Threads -> Operations]
  BY DEF TypeOK
<1>2. NoLocals \in Locs
  BY DEF NoLocals
<1>3. ASSUME NEW u \in Threads, NEW v \in Values \cup {Empty}, Answer(u, v)
      PROVE  requests' \in [Threads -> Reqs]
  BY <1>1, <1>3 DEF Answer, Statuses
<1>4. CASE Wait(t)
  BY <1>1, <1>4 DEF Wait, Goto, TypeOK
<1>5. CASE IsLocked(t)
  BY <1>1, <1>5 DEF IsLocked, Goto, TypeOK
<1>6. CASE TryLock(t)
  <2>1. loc' \in [Threads -> Locs]
    BY <1>1, <1>2, <1>6 DEF TryLock
  <2> QED  BY <1>1, <1>6, <2>1 DEF TryLock, Goto, TypeOK
<1>7. CASE Combine(t)
  <2> DEFINE u == loc[t].i
  <2>1. u \in Threads /\ UNCHANGED <<m_nLock, pc, op>>
    BY <1>7, AtThread DEF Combine
  <2>2. ASSUME NEW l \in Seq(Threads), NEW r \in Seq(Threads), NextRequest(t, l, r)
        PROVE  loc' \in [Threads -> Locs]
    <3>1. [i |-> loc[t].i + 1, leftPoppers |-> l, rightPoppers |-> r] \in Locs
      BY <1>1
    <3> QED  BY <1>1, <2>2, <3>1 DEF NextRequest
  <2>3. CASE CombinePush(t, u)
    <3>1. requests[u].value \in Values
      <4>1. ~Complete(u) /\ requests[u].status \in {"LEFT_PUSH", "RIGHT_PUSH"}
        BY <2>3 DEF CombinePush, Complete
      <4>2. requests[u].status = StatusOf(op[u])
            /\ (op[u].kind = "push" => requests[u].value = op[u].val)
        BY <2>1, <4>1 DEF Requests, RequestOK
      <4>3. op[u].kind = "push" /\ op[u] \in Operations
        BY <1>1, <2>1, <4>1, <4>2 DEF StatusOf
      <4> QED  BY <4>2, <4>3, Shape
    <3>2. m_deque' \in Seq(Values)
      BY <1>1, <2>3, <3>1 DEF CombinePush
    <3>3. requests' \in [Threads -> Reqs]
      BY <1>3, <2>1, <2>3, <3>1 DEF CombinePush
    <3>4. loc' \in [Threads -> Locs]
      BY <2>2, <2>3, AtPopper DEF CombinePush
    <3> QED  BY <1>1, <2>1, <3>2, <3>3, <3>4 DEF TypeOK
  <2>4. CASE CombinePop(t, u)
    <3>1. Append(loc[t].leftPoppers, u) \in Seq(Threads)
          /\ Append(loc[t].rightPoppers, u) \in Seq(Threads)
      BY <2>1, AtPopper
    <3>2. loc' \in [Threads -> Locs]
      BY <2>2, <2>4, <3>1, AtPopper DEF CombinePop
    <3> QED  BY <1>1, <2>1, <2>4, <3>2 DEF CombinePop, TypeOK
  <2>5. CASE CombineNone(t, u)
    <3>1. loc' \in [Threads -> Locs]
      BY <2>2, <2>5, AtPopper DEF CombineNone
    <3> QED  BY <1>1, <2>1, <2>5, <3>1 DEF CombineNone, TypeOK
  <2> QED  BY <1>7, <2>3, <2>4, <2>5 DEF Combine
<1>8. CASE ServeLeft(t)
  <2> DEFINE q == loc[t].leftPoppers
  <2>1. q \in Seq(Threads) /\ q # <<>> /\ UNCHANGED <<m_nLock, pc, op>>
    BY <1>8, AtPopper DEF ServeLeft
  <2>2. Head(q) \in Threads /\ Tail(q) \in Seq(Threads)
    BY <2>1
  <2>3. loc' \in [Threads -> Locs]
    BY <1>1, <1>8, <2>2 DEF ServeLeft
  <2>4. m_deque # <<>> => Head(m_deque) \in Values /\ Tail(m_deque) \in Seq(Values)
    BY <1>1
  <2>5. m_deque' \in Seq(Values) /\ requests' \in [Threads -> Reqs]
    BY <1>1, <1>3, <1>8, <2>2, <2>4 DEF ServeLeft
  <2> QED  BY <1>1, <2>1, <2>3, <2>5 DEF TypeOK
<1>9. CASE ServeRight(t)
  <2> DEFINE q == loc[t].rightPoppers
  <2>1. q \in Seq(Threads) /\ q # <<>> /\ UNCHANGED <<m_nLock, pc, op>>
    BY <1>9, AtPopper DEF ServeRight
  <2>2. Head(q) \in Threads /\ Tail(q) \in Seq(Threads)
    BY <2>1
  <2>3. loc' \in [Threads -> Locs]
    BY <1>1, <1>9, <2>2 DEF ServeRight
  <2>4. m_deque # <<>> => m_deque[Len(m_deque)] \in Values
                          /\ SubSeq(m_deque, 1, Len(m_deque) - 1) \in Seq(Values)
    BY <1>1
  <2>5. m_deque' \in Seq(Values) /\ requests' \in [Threads -> Reqs]
    BY <1>1, <1>3, <1>9, <2>2, <2>4 DEF ServeRight
  <2> QED  BY <1>1, <2>1, <2>3, <2>5 DEF TypeOK
<1>10. CASE Unlock(t)
  <2>1. loc' \in [Threads -> Locs]
    BY <1>1, <1>2, <1>10 DEF Unlock
  <2> QED  BY <1>1, <1>10, <2>1 DEF Unlock, Goto, TypeOK
<1>11. CASE Return(t)
  BY <1>1, <1>11 DEF Return, Goto, TypeOK
<1> QED  BY <1>4, <1>5, <1>6, <1>7, <1>8, <1>9, <1>10, <1>11 DEF Step

\* So does a call.
LEMMA CallTypes ==
  ASSUME TypeOK, NEW t \in Threads, NEW o \in Operations, Call(t, o)
  PROVE  TypeOK'
<1>1. o.kind = "push" => o.val \in Values
  BY Shape
<1>2. requests[t].value \in Values \cup {Empty}
  BY DEF TypeOK
<1>3. Published(o, requests[t].value) \in [value : Values \cup {Empty}, status : Statuses]
  BY <1>1, <1>2 DEF Published, Statuses
<1> QED  BY <1>3 DEF Call, Goto, TypeOK

-----------------------------------------------------------------------------
\* A request is answered, the others are left alone.
LEMMA AnswerOne ==
  ASSUME TypeOK, NEW u \in Threads, NEW v, Answer(u, v)
  PROVE  /\ requests'[u] = [value |-> v, status |-> "COMPLETE"]
         /\ \A w \in Threads \ {u} : requests'[w] = requests[w]
  BY DEF Answer, TypeOK

\* What the combiner does to the requests: nothing, or it answers one that waits.
LEMMA CombinerAnswers ==
  ASSUME TypeOK, NotedAll, NEW t \in Threads, Combine(t) \/ ServeLeft(t) \/ ServeRight(t)
  PROVE  /\ UNCHANGED <<m_nLock, pc, op>> /\ pc[t] = "combine"
         /\ \/ UNCHANGED requests
            \/ \E u \in Threads, v \in Values \cup {Empty} : ~Complete(u) /\ Answer(u, v)
<1>1. CASE Combine(t)
  <2> DEFINE u == loc[t].i
  <2>1. u \in Threads
    BY <1>1, AtThread DEF Combine
  <2>2. requests[u].value \in Values \cup {Empty}
    BY <2>1 DEF TypeOK
  <2>3. CASE CombinePush(t, u)
    <3>1. ~Complete(u) /\ Answer(u, requests[u].value)
      BY <2>3 DEF CombinePush, Complete
    <3> QED  BY <1>1, <2>1, <2>2, <3>1 DEF Combine
  <2> QED  BY <1>1, <2>3 DEF Combine, CombinePop, CombineNone
<1>2. CASE ServeLeft(t)
  <2> DEFINE q == loc[t].leftPoppers
  <2>1. pc[t] = "combine" /\ q \in Seq(Threads) /\ q # <<>> /\ UNCHANGED <<m_nLock, pc, op>>
    BY <1>2, AtPopper DEF ServeLeft
  <2>2. Head(q) \in Threads /\ Head(q) = q[1] /\ 1 \in 1 .. Len(q)
    BY <2>1
  <2>3. ~Complete(Head(q))
    BY <2>1, <2>2 DEF NotedAll, Noted, Complete
  <2>4. m_deque # <<>> => Head(m_deque) \in Values
    BY DEF TypeOK
  <2> QED  BY <1>2, <2>1, <2>2, <2>3, <2>4 DEF ServeLeft
<1>3. CASE ServeRight(t)
  <2> DEFINE q == loc[t].rightPoppers
  <2>1. pc[t] = "combine" /\ q \in Seq(Threads) /\ q # <<>> /\ UNCHANGED <<m_nLock, pc, op>>
    BY <1>3, AtPopper DEF ServeRight
  <2>2. Head(q) \in Threads /\ Head(q) = q[1] /\ 1 \in 1 .. Len(q)
    BY <2>1
  <2>3. ~Complete(Head(q))
    BY <2>1, <2>2 DEF NotedAll, Noted, Complete
  <2>4. m_deque # <<>> => m_deque[Len(m_deque)] \in Values
    BY DEF TypeOK
  <2> QED  BY <1>3, <2>1, <2>2, <2>3, <2>4 DEF ServeRight
<1> QED  BY <1>1, <1>2, <1>3

\* Every step leaves the waiting requests what their threads have called.
LEMMA StepRequests ==
  ASSUME TypeOK, Requests, NotedAll, NEW t \in Threads, Step(t)
  PROVE  Requests'
<1> SUFFICES ASSUME NEW w \in Threads  PROVE RequestOK(w)'
  BY DEF Requests
<1>1. RequestOK(w) /\ RequestOK(t)
  BY DEF Requests
<1>2. CASE Wait(t) \/ IsLocked(t) \/ TryLock(t) \/ Unlock(t) \/ Return(t)
  <2>1. UNCHANGED <<requests, op>>
    BY <1>2 DEF Wait, IsLocked, TryLock, Unlock, Return
  <2>2. pc'[w] \in {"idle", "return"} => Complete(w)
    BY <1>1, <1>2 DEF Wait, IsLocked, TryLock, Unlock, Return, Goto, RequestOK, TypeOK
  <2> QED  BY <1>1, <2>1, <2>2 DEF RequestOK, Complete
<1>3. CASE Combine(t) \/ ServeLeft(t) \/ ServeRight(t)
  <2>1. UNCHANGED <<pc, op>>
    BY <1>3, CombinerAnswers
  <2>2. CASE UNCHANGED requests
    BY <1>1, <2>1, <2>2 DEF RequestOK, Complete
  <2>3. ASSUME NEW u \in Threads, NEW v \in Values \cup {Empty}, Answer(u, v)
        PROVE  RequestOK(w)'
    <3>1. CASE w = u
      <4>1. requests'[u] = [value |-> v, status |-> "COMPLETE"]
        BY <2>3, AnswerOne
      <4>2. requests'[w].status = "COMPLETE"
        BY <3>1, <4>1
      <4> QED  BY <4>2 DEF RequestOK, Complete
    <3>2. CASE w # u
      BY <1>1, <2>1, <2>3, <3>2, AnswerOne DEF RequestOK, Complete
    <3> QED  BY <3>1, <3>2
  <2> QED  BY <1>3, <2>2, <2>3, CombinerAnswers
<1> QED  BY <1>2, <1>3 DEF Step

\* A call publishes what its thread calls.
LEMMA CallRequests ==
  ASSUME TypeOK, Requests, NEW t \in Threads, NEW o \in Operations, Call(t, o)
  PROVE  Requests'
<1> SUFFICES ASSUME NEW w \in Threads  PROVE RequestOK(w)'
  BY DEF Requests
<1>1. CASE w = t
  BY <1>1, Shape DEF Call, Goto, RequestOK, Complete, Published, StatusOf, TypeOK
<1>2. CASE w # t
  BY <1>2 DEF Call, Goto, Requests, RequestOK, Complete, TypeOK
<1> QED  BY <1>1, <1>2

-----------------------------------------------------------------------------
\* Steps outside of the combiner.
LEMMA OutsideNoted ==
  ASSUME TypeOK, NotedAll, NEW t \in Threads,
         Wait(t) \/ IsLocked(t) \/ TryLock(t) \/ Unlock(t) \/ Return(t)
  PROVE  NotedAll'
<1>1. UNCHANGED requests
  BY DEF Wait, IsLocked, TryLock, Unlock, Return
<1>2. CASE Wait(t) \/ IsLocked(t) \/ Return(t)
  <2>1. UNCHANGED <<m_nLock, loc>> /\ \A u \in Threads : pc'[u] = "combine" => pc[u] = "combine"
    BY <1>2 DEF Wait, IsLocked, Return, Goto, TypeOK
  <2> QED  BY <1>1, <2>1 DEF NotedAll, Noted
<1>3. CASE TryLock(t) /\ m_nLock = 0
  <2>1. \A u \in Threads : pc[u] # "combine"
    BY <1>3 DEF NotedAll, Noted
  <2>2. /\ m_nLock' = 1 /\ loc'[t] = NoLocals
        /\ \A u \in Threads : pc'[u] = "combine" => u = t
    BY <1>3, <2>1 DEF TryLock, Goto, TypeOK
  <2>3. loc'[t].leftPoppers = <<>> /\ loc'[t].rightPoppers = <<>>
    BY <2>2 DEF NoLocals
  <2> QED  BY <2>2, <2>3 DEF NotedAll, Noted
<1>4. CASE TryLock(t) /\ m_nLock # 0
  <2>1. m_nLock' = 1 /\ \A u \in Threads : pc'[u] = "combine" => u # t /\ pc[u] = "combine"
    BY <1>4 DEF TryLock, Goto, TypeOK
  <2>2. \A u \in Threads \ {t} : loc'[u] = loc[u]
    BY <1>4 DEF TryLock, TypeOK
  <2> SUFFICES ASSUME NEW c \in Threads, pc'[c] = "combine"  PROVE Noted(c)'
    BY DEF NotedAll
  <2>3. loc'[c] = loc[c] /\ Noted(c)
    BY <2>1, <2>2 DEF NotedAll
  <2>4. \A u \in Threads : pc'[u] = "combine" => u = c
    BY <2>1, <2>3 DEF Noted
  <2> QED  BY <1>1, <2>1, <2>3, <2>4 DEF Noted
<1>5. CASE Unlock(t)
  <2>1. \A u \in Threads : pc'[u] # "combine"
    BY <1>5 DEF Unlock, Goto, TypeOK, NotedAll, Noted
  <2> QED  BY <2>1 DEF NotedAll
<1> QED  BY <1>2, <1>3, <1>4, <1>5

\* A call: its thread's last request is complete, so that no combiner has noted it.
LEMMA CallNoted ==
  ASSUME TypeOK, Requests, NotedAll, NEW t \in Threads, NEW o \in Operations, Call(t, o)
  PROVE  NotedAll'
<1>1. /\ UNCHANGED <<m_nLock, loc>> /\ \A u \in Threads : pc'[u] = "combine" => pc[u] = "combine"
      /\ \A u \in Threads \ {t} : requests'[u] = requests[u]
  BY DEF Call, Goto, TypeOK
<1>2. requests[t].status = "COMPLETE"
  BY DEF Call, Requests, RequestOK, Complete
<1> SUFFICES ASSUME NEW c \in Threads, pc'[c] = "combine"  PROVE Noted(c)'
  BY DEF NotedAll
<1> DEFINE l == loc[c].leftPoppers r == loc[c].rightPoppers
<1>3. Noted(c) /\ l \in Seq(Threads) /\ r \in Seq(Threads)
  BY <1>1, AtPopper DEF NotedAll
<1>4. ASSUME NEW k \in 1 .. Len(l)  PROVE requests'[l[k]].status = "LEFT_POP"
  <2>1. l[k] \in Threads /\ requests[l[k]].status = "LEFT_POP"
    BY <1>3 DEF Noted
  <2> QED  BY <1>1, <1>2, <2>1
<1>5. ASSUME NEW k \in 1 .. Len(r)  PROVE requests'[r[k]].status = "RIGHT_POP"
  <2>1. r[k] \in Threads /\ requests[r[k]].status = "RIGHT_POP"
    BY <1>3 DEF Noted
  <2> QED  BY <1>1, <1>2, <2>1
<1> QED  BY <1>1, <1>3, <1>4, <1>5 DEF Noted

\* One step of the first stage: a push is answered, or a pop noted, which waits.
LEMMA CombineNoted ==
  ASSUME TypeOK, NotedAll, NEW t \in Threads, Combine(t)
  PROVE  NotedAll'
<1> DEFINE u == loc[t].i l == loc[t].leftPoppers r == loc[t].rightPoppers
<1>1. u \in Threads /\ u \in Nat /\ l \in Seq(Threads) /\ r \in Seq(Threads)
  BY AtThread, AtPopper DEF Combine
<1>2. pc[t] = "combine" /\ UNCHANGED <<m_nLock, pc>> /\ Noted(t)
  BY DEF Combine, NotedAll
<1>3. \A c \in Threads : pc'[c] = "combine" => c = t
  BY <1>2 DEF Noted
<1> SUFFICES Noted(t)'
  BY <1>3 DEF NotedAll
<1>4. ASSUME NEW a \in Seq(Threads), NEW b \in Seq(Threads), NextRequest(t, a, b)
      PROVE  loc'[t].i = u + 1 /\ loc'[t].leftPoppers = a /\ loc'[t].rightPoppers = b
  BY <1>4 DEF NextRequest, TypeOK
<1> DEFINE Passed(q) == \A k \in 1 .. Len(q) : q[k] \in Threads /\ q[k] < u + 1 /\ q[k] # u
<1>5. Passed(l) /\ Passed(r)
  <2>1. ASSUME NEW q \in Seq(Threads), \A k \in 1 .. Len(q) : q[k] < u
        PROVE  Passed(q)
    <3>1. ASSUME NEW k \in 1 .. Len(q)  PROVE q[k] \in Threads /\ q[k] < u + 1 /\ q[k] # u
      <4>1. q[k] \in Threads /\ q[k] < u
        BY <2>1
      <4>2. q[k] \in Nat
        BY <4>1, FCDequeAssumption
      <4> QED  BY <1>1, <4>1, <4>2
    <3> QED  BY <3>1
  <2> QED  BY <1>1, <1>2, <2>1 DEF Noted
<1>6. CASE CombinePush(t, u) \/ CombineNone(t, u)
  <2>1. loc'[t].i = u + 1 /\ loc'[t].leftPoppers = l /\ loc'[t].rightPoppers = r
    BY <1>1, <1>4, <1>6 DEF CombinePush, CombineNone
  <2>2. \A w \in Threads : w # u => requests'[w] = requests[w]
    BY <1>1, <1>6, AnswerOne DEF CombinePush, CombineNone
  <2>3. /\ \A k \in 1 .. Len(l) : requests'[l[k]] = requests[l[k]]
        /\ \A k \in 1 .. Len(r) : requests'[r[k]] = requests[r[k]]
    BY <1>1, <1>5, <2>2
  <2> QED  BY <1>2, <1>3, <1>5, <2>1, <2>3 DEF Noted
<1>7. CASE CombinePop(t, u) /\ requests[u].status = "LEFT_POP"
  <2> DEFINE a == Append(l, u)
  <2>1. /\ Len(a) = Len(l) + 1 /\ a[Len(l) + 1] = u /\ a \in Seq(Threads)
        /\ \A k \in 1 .. Len(l) : a[k] = l[k]
    BY <1>1
  <2>2. NextRequest(t, a, r) /\ UNCHANGED requests
    BY <1>7 DEF CombinePop
  <2> HIDE DEF a
  <2>3. loc'[t].i = u + 1 /\ loc'[t].leftPoppers = a /\ loc'[t].rightPoppers = r
    BY <1>1, <1>4, <2>1, <2>2
  <2>4. ASSUME NEW k \in 1 .. Len(a)
        PROVE  \/ k \in 1 .. Len(l) /\ a[k] = l[k] /\ a[k] # u
               \/ k = Len(l) + 1 /\ a[k] = u
    BY <1>1, <1>5, <2>1
  <2>5. \A k \in 1 .. Len(a) : requests[a[k]].status = "LEFT_POP" /\ a[k] < u + 1
    BY <1>1, <1>2, <1>5, <1>7, <2>4 DEF Noted
  <2>6. \A k, j \in 1 .. Len(a) : a[k] = a[j] => k = j
    BY <1>2, <2>4 DEF Noted
  <2>7. \A k \in 1 .. Len(r) : r[k] < u + 1
    BY <1>5
  <2> QED  BY <1>2, <1>3, <2>2, <2>3, <2>5, <2>6, <2>7 DEF Noted
<1>8. CASE CombinePop(t, u) /\ requests[u].status = "RIGHT_POP"
  <2> DEFINE a == Append(r, u)
  <2>1. /\ Len(a) = Len(r) + 1 /\ a[Len(r) + 1] = u /\ a \in Seq(Threads)
        /\ \A k \in 1 .. Len(r) : a[k] = r[k]
    BY <1>1
  <2>2. NextRequest(t, l, a) /\ UNCHANGED requests
    BY <1>8 DEF CombinePop
  <2> HIDE DEF a
  <2>3. loc'[t].i = u + 1 /\ loc'[t].leftPoppers = l /\ loc'[t].rightPoppers = a
    BY <1>1, <1>4, <2>1, <2>2
  <2>4. ASSUME NEW k \in 1 .. Len(a)
        PROVE  \/ k \in 1 .. Len(r) /\ a[k] = r[k] /\ a[k] # u
               \/ k = Len(r) + 1 /\ a[k] = u
    BY <1>1, <1>5, <2>1
  <2>5. \A k \in 1 .. Len(a) : requests[a[k]].status = "RIGHT_POP" /\ a[k] < u + 1
    BY <1>1, <1>2, <1>5, <1>8, <2>4 DEF Noted
  <2>6. \A k, j \in 1 .. Len(a) : a[k] = a[j] => k = j
    BY <1>2, <2>4 DEF Noted
  <2>7. \A k \in 1 .. Len(l) : l[k] < u + 1
    BY <1>5
  <2> QED  BY <1>2, <1>3, <2>2, <2>3, <2>5, <2>6, <2>7 DEF Noted
<1> QED  BY <1>6, <1>7, <1>8 DEF Combine, CombinePop

\* One step of the second stage: the pop that is served leaves its list, the others wait.
LEMMA ServeNoted ==
  ASSUME TypeOK, NotedAll, NEW t \in Threads, ServeLeft(t) \/ ServeRight(t)
  PROVE  NotedAll'
<1> DEFINE l == loc[t].leftPoppers r == loc[t].rightPoppers
<1>1. l \in Seq(Threads) /\ r \in Seq(Threads)
  BY AtPopper
<1>2. pc[t] = "combine" /\ UNCHANGED <<m_nLock, pc>> /\ Noted(t)
  BY DEF ServeLeft, ServeRight, NotedAll
<1>3. \A c \in Threads : pc'[c] = "combine" => c = t
  BY <1>2 DEF Noted
<1> SUFFICES Noted(t)'
  BY <1>3 DEF NotedAll
<1>4. CASE ServeLeft(t)
  <2> DEFINE h == l[1] a == Tail(l)
  <2>1. l # <<>> /\ Head(l) = h /\ h \in Threads /\ 1 \in 1 .. Len(l)
    BY <1>1, <1>4 DEF ServeLeft
  <2>2. Len(a) = Len(l) - 1 /\ \A k \in 1 .. Len(l) - 1 : a[k] = l[k + 1]
    BY <1>1, <2>1
  <2>3. loc'[t].i = loc[t].i /\ loc'[t].leftPoppers = a /\ loc'[t].rightPoppers = r
    BY <1>4 DEF ServeLeft, TypeOK
  <2>4. \E v : Answer(h, v)
    BY <1>4, <2>1 DEF ServeLeft
  <2>5. \A w \in Threads : w # h => requests'[w] = requests[w]
    BY <2>1, <2>4, AnswerOne
  <2>6. \A k \in 1 .. Len(r) : r[k] \in Threads /\ r[k] # h
    BY <1>1, <1>2, <2>1 DEF Noted
  <2>7. \A k \in 1 .. Len(a) : k + 1 \in 1 .. Len(l) /\ a[k] = l[k + 1]
    BY <1>1, <2>2
  <2> HIDE DEF a
  <2>8. ASSUME NEW k \in 1 .. Len(a)
        PROVE  a[k] # h /\ a[k] \in Threads /\ a[k] < loc[t].i /\ requests[a[k]].status = "LEFT_POP"
    <3>1. k + 1 \in 1 .. Len(l) /\ a[k] = l[k + 1] /\ k + 1 # 1
      BY <2>7
    <3> QED  BY <1>1, <1>2, <2>1, <3>1 DEF Noted
  <2>9. ASSUME NEW k \in 1 .. Len(a), NEW j \in 1 .. Len(a), a[k] = a[j]
        PROVE  k = j
    <3>1. k + 1 \in 1 .. Len(l) /\ j + 1 \in 1 .. Len(l) /\ l[k + 1] = l[j + 1]
      BY <2>7, <2>9
    <3>2. k + 1 = j + 1
      BY <1>2, <3>1 DEF Noted
    <3> QED  BY <3>2
  <2> QED  BY <1>2, <1>3, <2>3, <2>5, <2>6, <2>8, <2>9 DEF Noted
<1>5. CASE ServeRight(t)
  <2> DEFINE h == r[1] a == Tail(r)
  <2>1. r # <<>> /\ Head(r) = h /\ h \in Threads /\ 1 \in 1 .. Len(r) /\ l = <<>>
    BY <1>1, <1>5 DEF ServeRight
  <2>2. Len(a) = Len(r) - 1 /\ \A k \in 1 .. Len(r) - 1 : a[k] = r[k + 1]
    BY <1>1, <2>1
  <2>3. loc'[t].i = loc[t].i /\ loc'[t].leftPoppers = l /\ loc'[t].rightPoppers = a
    BY <1>5 DEF ServeRight, TypeOK
  <2>4. \E v : Answer(h, v)
    BY <1>5, <2>1 DEF ServeRight
  <2>5. \A w \in Threads : w # h => requests'[w] = requests[w]
    BY <2>1, <2>4, AnswerOne
  <2>6. Len(l) = 0
    BY <2>1
  <2>7. \A k \in 1 .. Len(a) : k + 1 \in 1 .. Len(r) /\ a[k] = r[k + 1]
    BY <1>1, <2>2
  <2> HIDE DEF a
  <2>8. ASSUME NEW k \in 1 .. Len(a)
        PROVE  a[k] # h /\ a[k] \in Threads /\ a[k] < loc[t].i /\ requests[a[k]].status = "RIGHT_POP"
    <3>1. k + 1 \in 1 .. Len(r) /\ a[k] = r[k + 1] /\ k + 1 # 1
      BY <2>7
    <3> QED  BY <1>1, <1>2, <2>1, <3>1 DEF Noted
  <2>9. ASSUME NEW k \in 1 .. Len(a), NEW j \in 1 .. Len(a), a[k] = a[j]
        PROVE  k = j
    <3>1. k + 1 \in 1 .. Len(r) /\ j + 1 \in 1 .. Len(r) /\ r[k + 1] = r[j + 1]
      BY <2>7, <2>9
    <3>2. k + 1 = j + 1
      BY <1>2, <3>1 DEF Noted
    <3> QED  BY <3>2
  <2> QED  BY <1>2, <1>3, <2>3, <2>5, <2>6, <2>8, <2>9 DEF Noted
<1> QED  BY <1>4, <1>5

\* Every step keeps what the combiner has noted.
LEMMA StepNoted ==
  ASSUME TypeOK, NotedAll, NEW t \in Threads, Step(t)
  PROVE  NotedAll'
BY OutsideNoted, CombineNoted, ServeNoted DEF Step

-----------------------------------------------------------------------------
(* The invariant. *)

\* The constructor leaves nothing waiting.
LEMMA InitInv == Init => Inv
<1> SUFFICES ASSUME Init  PROVE Inv
  OBVIOUS
<1>1. Pop("L") \in Operations
  BY DEF Operations, Sides
<1>2. TypeOK
  BY <1>1 DEF Init, TypeOK, NoLocals, Statuses
<1>3. Requests
  BY DEF Init, Requests, RequestOK, Complete
<1>4. NotedAll
  BY DEF Init, NotedAll
<1> QED  BY <1>2, <1>3, <1>4 DEF Inv

\* Every step and every call keeps the invariant.
LEMMA NextInv == Inv /\ [Next]_vars => Inv'
<1> SUFFICES ASSUME Inv, [Next]_vars  PROVE Inv'
  OBVIOUS
<1>1. TypeOK /\ Requests /\ NotedAll
  BY DEF Inv
<1>2. CASE UNCHANGED vars
  BY <1>1, <1>2 DEF vars, Inv, TypeOK, Requests, RequestOK, Complete, NotedAll, Noted
<1>3. ASSUME NEW t \in Threads, Step(t)  PROVE Inv'
  BY <1>1, <1>3, StepTypes, StepRequests, StepNoted DEF Inv
<1>4. ASSUME NEW t \in Threads, NEW o \in Operations, Call(t, o)  PROVE Inv'
  BY <1>1, <1>4, CallTypes, CallRequests, CallNoted DEF Inv
<1> QED  BY <1>2, <1>3, <1>4 DEF Next

\* It says what NotedPopsWait says.
LEMMA InvNoted == Inv => NotedPopsWait
<1> SUFFICES ASSUME Inv, NEW t \in Threads, pc[t] = "combine"
             PROVE  /\ m_nLock = 1
                    /\ \A u \in Threads : pc[u] = "combine" => u = t
                    /\ LET l == loc[t].leftPoppers r == loc[t].rightPoppers IN
                       /\ \A k \in DOMAIN l : requests[l[k]].status = "LEFT_POP"
                       /\ \A k \in DOMAIN r : requests[r[k]].status = "RIGHT_POP"
                       /\ \A k \in DOMAIN l, j \in DOMAIN l : l[k] = l[j] => k = j
                       /\ \A k \in DOMAIN r, j \in DOMAIN r : r[k] = r[j] => k = j
                       /\ \A k \in DOMAIN l : l[k] < loc[t].i
                       /\ \A k \in DOMAIN r : r[k] < loc[t].i
  BY DEF NotedPopsWait
<1>1. Noted(t)
  BY DEF Inv, NotedAll
<1>2. DOMAIN loc[t].leftPoppers = 1 .. Len(loc[t].leftPoppers)
      /\ DOMAIN loc[t].rightPoppers = 1 .. Len(loc[t].rightPoppers)
  BY AtPopper DEF Inv
<1> QED  BY <1>1, <1>2 DEF Noted

\* Flat combining is exclusive: one combiner holds the lock, and the pops it has noted
\* still wait when it serves them, in doCombining with any number of threads.
THEOREM PopsWait == Spec => [](TypeOK /\ NotedPopsWait)
<1>1. Init => Inv  BY InitInv
<1>2. Inv /\ [Next]_vars => Inv'  BY NextInv
<1>3. Inv => TypeOK /\ NotedPopsWait  BY InvNoted DEF Inv
<1> QED  BY <1>1, <1>2, <1>3, PTL DEF Spec

-----------------------------------------------------------------------------
(* The refinement. *)

\* A pop that waits while the deque is empty has seen it empty.
Watched == sawEmpty = { t \in PendingPops : t \in sawEmpty \/ m_deque = <<>> }

\* The instance of DequeSpec has the operations of this module.
LEMMA SameOperations ==
  /\ Abstract!Operations = Operations
  /\ \A s, v, q : /\ Abstract!AtEnd(s, v, q) = AtEnd(s, v, q)
                  /\ Abstract!EndOf(s, q) = EndOf(s, q)
                  /\ Abstract!WithoutEnd(s, q) = WithoutEnd(s, q)
<1>1. Abstract!Operations = Operations
  BY DEF Operations, Push, Pop, Sides, Abstract!Operations, Abstract!Push, Abstract!Pop,
         Abstract!Sides
<1>2. \A s, v, q : Abstract!AtEnd(s, v, q) = AtEnd(s, v, q)
  BY DEF AtEnd, Abstract!AtEnd
<1>3. \A s, q : Abstract!EndOf(s, q) = EndOf(s, q)
  BY DEF EndOf, Abstract!EndOf
<1>4. \A s, q : Abstract!WithoutEnd(s, q) = WithoutEnd(s, q)
  BY DEF WithoutEnd, Abstract!WithoutEnd
<1> QED  BY <1>1, <1>2, <1>3, <1>4

\* An answer is what DequeSpec calls the end of an operation.
LEMMA AnswerFinishes ==
  ASSUME Inv, NEW u \in Threads, NEW v, ~Complete(u), Answer(u, v), UNCHANGED <<pc, op>>
  PROVE  Abstract!Finish(u, v)
<1>1. pc[u] # "idle"
  BY DEF Inv, Requests, RequestOK
<1>2. Complete(u)' /\ requests'[u].value = v /\ \A w \in Threads \ {u} : requests'[w] = requests[w]
  <2>1. requests'[u] = [value |-> v, status |-> "COMPLETE"]
    BY AnswerOne DEF Inv
  <2> QED  BY <2>1, AnswerOne DEF Inv, Complete
<1>3. Status[u] = "pending"
  BY <1>1 DEF Status
<1>4. Status' = [Status EXCEPT ![u] = "done"]
  <2>1. \A w \in Threads : Status'[w] = [Status EXCEPT ![u] = "done"][w]
    BY <1>1, <1>2 DEF Status, Complete
  <2> QED  BY <2>1 DEF Status
<1>5. Reply' = [Reply EXCEPT ![u] = v]
  <2>1. Reply'[u] = v
    BY <1>2, <1>3, <1>4 DEF Reply, Status
  <2>2. \A w \in Threads \ {u} : Reply'[w] = Reply[w]
    BY <1>2, <1>4 DEF Reply, Status
  <2> QED  BY <2>1, <2>2 DEF Reply
<1> QED  BY <1>3, <1>4, <1>5 DEF Abstract!Finish

\* A step that answers nobody, and neither begins nor ends a call, is a stutter.
LEMMA QuietStep ==
  ASSUME Watched, WatchEmpty, UNCHANGED <<m_deque, requests, op>>,
         \A u \in Threads : pc'[u] = "idle" <=> pc[u] = "idle"
  PROVE  UNCHANGED Abstract!vars
<1>1. Status' = Status
  BY DEF Status, Complete
<1>2. Reply' = Reply
  BY <1>1 DEF Reply
<1>3. PendingPops' = PendingPops
  BY <1>1 DEF PendingPops
<1>4. sawEmpty' = sawEmpty
  BY <1>3 DEF Watched, WatchEmpty
<1> QED  BY <1>1, <1>2, <1>4 DEF Abstract!vars

\* The history variable is the one of DequeSpec.
LEMMA SameHistory == WatchEmpty => Abstract!WatchEmpty /\ Watched'
<1> SUFFICES ASSUME WatchEmpty  PROVE Abstract!WatchEmpty /\ Watched'
  OBVIOUS
<1>1. Abstract!WatchEmpty
  BY DEF WatchEmpty, PendingPops, Abstract!WatchEmpty, Abstract!PendingPops
<1>2. Watched'
  BY DEF WatchEmpty, Watched
<1> QED  BY <1>1, <1>2

\* The call of an operation.
LEMMA CallRefines ==
  ASSUME Inv, NEW t \in Threads, NEW o \in Operations, Call(t, o)
  PROVE  Abstract!Call(t)
<1>1. pc[t] = "idle" /\ Complete(t) /\ op' = [op EXCEPT ![t] = o] /\ UNCHANGED m_deque
  BY DEF Call, Inv, Requests, RequestOK
<1>2. ~Complete(t)' /\ pc'[t] = "wait"
      /\ \A w \in Threads \ {t} : pc'[w] = pc[w] /\ requests'[w] = requests[w]
  BY Shape DEF Call, Goto, Published, Complete, Inv, TypeOK
<1>3. Status' = [Status EXCEPT ![t] = "pending"]
  <2>1. \A w \in Threads : Status'[w] = [Status EXCEPT ![t] = "pending"][w]
    BY <1>1, <1>2 DEF Status, Complete
  <2> QED  BY <2>1 DEF Status
<1>4. Reply' = Reply
  <2>1. \A w \in Threads : Reply'[w] = Reply[w]
    BY <1>1, <1>2, <1>3 DEF Reply, Status
  <2> QED  BY <2>1 DEF Reply
<1>5. Status[t] = "idle"
  BY <1>1 DEF Status
<1> QED  BY <1>1, <1>3, <1>4, <1>5, SameOperations DEF Abstract!Call

\* Its return.
LEMMA ReturnRefines ==
  ASSUME Inv, NEW t \in Threads, Return(t)
  PROVE  Abstract!Return(t)
<1>1. pc[t] = "return" /\ Complete(t) /\ UNCHANGED <<m_deque, requests, op>>
  BY DEF Return, Inv, Requests, RequestOK
<1>2. pc'[t] = "idle" /\ \A w \in Threads \ {t} : pc'[w] = pc[w]
  BY DEF Return, Goto, Inv, TypeOK
<1>3. Status' = [Status EXCEPT ![t] = "idle"]
  <2>1. \A w \in Threads : Status'[w] = [Status EXCEPT ![t] = "idle"][w]
    BY <1>1, <1>2 DEF Status, Complete
  <2> QED  BY <2>1 DEF Status
<1>4. Reply' = [Reply EXCEPT ![t] = Empty]
  <2>1. \A w \in Threads : Reply'[w] = [Reply EXCEPT ![t] = Empty][w]
    BY <1>1, <1>2, <1>3 DEF Reply, Status
  <2> QED  BY <2>1 DEF Reply
<1>5. Status[t] = "done"
  BY <1>1 DEF Status
<1> QED  BY <1>1, <1>3, <1>4, <1>5 DEF Abstract!Return

\* A push that the combiner meets takes effect.
LEMMA PushRefines ==
  ASSUME Inv, NEW t \in Threads, NEW u \in Threads, CombinePush(t, u), UNCHANGED <<pc, op>>
  PROVE  Abstract!TakePush(u)
<1>1. ~Complete(u) /\ Answer(u, requests[u].value)
  BY DEF CombinePush, Complete
<1>2. requests[u].status = StatusOf(op[u])
      /\ (op[u].kind = "push" => requests[u].value = op[u].val) /\ op[u] \in Operations
  BY <1>1 DEF Inv, Requests, RequestOK, TypeOK
<1>3. op[u].kind = "push" /\ (requests[u].status = "LEFT_PUSH" <=> op[u].side = "L")
  BY <1>2, Shape DEF CombinePush, StatusOf
<1>4. m_deque' = AtEnd(op[u].side, op[u].val, m_deque)
  BY <1>2, <1>3 DEF CombinePush, AtEnd
<1>5. Abstract!Finish(u, op[u].val)
  BY <1>1, <1>2, <1>3, AnswerFinishes
<1> QED  BY <1>3, <1>4, <1>5, SameOperations DEF Abstract!TakePush

\* A pop that waits and is answered with the value at its end, or with EMPTY.
LEMMA PopRefines ==
  ASSUME Inv, Watched, NEW u \in Threads, NEW s \in Sides,
         requests[u].status = (IF s = "L" THEN "LEFT_POP" ELSE "RIGHT_POP"),
         UNCHANGED <<pc, op>>,
         \/ m_deque # <<>> /\ Answer(u, EndOf(s, m_deque)) /\ m_deque' = WithoutEnd(s, m_deque)
         \/ m_deque = <<>> /\ Answer(u, Empty) /\ UNCHANGED m_deque
  PROVE  Abstract!TakePop(u) \/ Abstract!TakeEmpty(u)
<1>1. ~Complete(u)
  BY DEF Complete
<1>2. requests[u].status = StatusOf(op[u]) /\ op[u] \in Operations /\ pc[u] # "idle"
  BY <1>1 DEF Inv, Requests, RequestOK, TypeOK
<1>3. op[u].kind = "pop" /\ op[u].side = s
  BY <1>2, Shape DEF StatusOf, Sides
<1>4. CASE m_deque # <<>>
  <2>1. Abstract!Finish(u, EndOf(op[u].side, m_deque))
    BY <1>1, <1>3, <1>4, AnswerFinishes
  <2> QED  BY <1>3, <1>4, <2>1, SameOperations DEF Abstract!TakePop
<1>5. CASE m_deque = <<>>
  <2>1. Abstract!Finish(u, Empty)
    BY <1>1, <1>5, AnswerFinishes
  <2>2. u \in PendingPops
    BY <1>1, <1>2, <1>3 DEF PendingPops, Status
  <2>3. u \in sawEmpty
    BY <1>5, <2>2 DEF Watched
  <2> QED  BY <1>3, <1>5, <2>1, <2>3 DEF Abstract!TakeEmpty
<1> QED  BY <1>4, <1>5

\* Every step of a thread is a step of DequeSpec or a stutter.
LEMMA StepRefines ==
  ASSUME Inv, Watched, WatchEmpty, NEW t \in Threads, Step(t)
  PROVE  [Abstract!Next]_(Abstract!vars)
<1>1. Abstract!WatchEmpty
  BY SameHistory
<1>2. TypeOK /\ NotedAll
  BY DEF Inv
<1>3. CASE Wait(t) \/ IsLocked(t) \/ TryLock(t) \/ Unlock(t)
  <2>1. UNCHANGED <<m_deque, requests, op>>
        /\ \A u \in Threads : pc'[u] = "idle" <=> pc[u] = "idle"
    BY <1>2, <1>3 DEF Wait, IsLocked, TryLock, Unlock, Goto, TypeOK
  <2> QED  BY <2>1, QuietStep
<1>4. CASE Return(t)
  BY <1>1, <1>4, ReturnRefines DEF Abstract!Next
<1>5. CASE Combine(t)
  <2> DEFINE u == loc[t].i
  <2>1. u \in Threads /\ UNCHANGED <<pc, op>>
    BY <1>2, <1>5, AtThread DEF Combine
  <2>2. CASE CombinePush(t, u)
    <3>1. Abstract!TakePush(u)
      BY <2>1, <2>2, PushRefines
    <3> QED  BY <1>1, <2>1, <3>1 DEF Abstract!Next
  <2>3. CASE CombinePop(t, u) \/ CombineNone(t, u)
    <3>1. UNCHANGED <<m_deque, requests, op>>
          /\ \A w \in Threads : pc'[w] = "idle" <=> pc[w] = "idle"
      BY <2>1, <2>3 DEF CombinePop, CombineNone
    <3> QED  BY <3>1, QuietStep
  <2> QED  BY <1>5, <2>2, <2>3 DEF Combine
<1>6. CASE ServeLeft(t)
  <2> DEFINE q == loc[t].leftPoppers
  <2>1. q \in Seq(Threads) /\ q # <<>> /\ UNCHANGED <<pc, op>> /\ pc[t] = "combine"
    BY <1>2, <1>6, AtPopper DEF ServeLeft
  <2>2. Head(q) \in Threads /\ Head(q) = q[1] /\ 1 \in 1 .. Len(q)
    BY <2>1
  <2>3. requests[Head(q)].status = (IF "L" = "L" THEN "LEFT_POP" ELSE "RIGHT_POP")
    BY <1>2, <2>1, <2>2 DEF NotedAll, Noted
  <2>4. \/ m_deque # <<>> /\ Answer(Head(q), EndOf("L", m_deque))
           /\ m_deque' = WithoutEnd("L", m_deque)
        \/ m_deque = <<>> /\ Answer(Head(q), Empty) /\ UNCHANGED m_deque
    BY <1>6 DEF ServeLeft, EndOf, WithoutEnd
  <2>5. Abstract!TakePop(Head(q)) \/ Abstract!TakeEmpty(Head(q))
    BY <2>1, <2>2, <2>3, <2>4, PopRefines DEF Sides
  <2> QED  BY <1>1, <2>2, <2>5 DEF Abstract!Next
<1>7. CASE ServeRight(t)
  <2> DEFINE q == loc[t].rightPoppers
  <2>1. q \in Seq(Threads) /\ q # <<>> /\ UNCHANGED <<pc, op>> /\ pc[t] = "combine"
    BY <1>2, <1>7, AtPopper DEF ServeRight
  <2>2. Head(q) \in Threads /\ Head(q) = q[1] /\ 1 \in 1 .. Len(q)
    BY <2>1
  <2>3. requests[Head(q)].status = (IF "R" = "L" THEN "LEFT_POP" ELSE "RIGHT_POP")
    BY <1>2, <2>1, <2>2 DEF NotedAll, Noted
  <2>4. \/ m_deque # <<>> /\ Answer(Head(q), EndOf("R", m_deque))
           /\ m_deque' = WithoutEnd("R", m_deque)
        \/ m_deque = <<>> /\ Answer(Head(q), Empty) /\ UNCHANGED m_deque
    BY <1>7 DEF ServeRight, EndOf, WithoutEnd
  <2>5. Abstract!TakePop(Head(q)) \/ Abstract!TakeEmpty(Head(q))
    BY <2>1, <2>2, <2>3, <2>4, PopRefines DEF Sides
  <2> QED  BY <1>1, <2>2, <2>5 DEF Abstract!Next
<1> QED  BY <1>3, <1>4, <1>5, <1>6, <1>7 DEF Step

\* The initial states are those of DequeSpec.
LEMMA InitRefines == LinInit => Abstract!Init /\ Watched
<1> SUFFICES ASSUME LinInit  PROVE Abstract!Init /\ Watched
  OBVIOUS
<1>1. Pop("L") \in Operations
  BY DEF Operations, Sides
<1>2. Status = [t \in Threads |-> "idle"]
  BY DEF LinInit, Init, Status
<1>3. Reply = [t \in Threads |-> Empty]
  BY <1>2 DEF Reply
<1>4. PendingPops = {}
  BY <1>2 DEF PendingPops
<1> QED  BY <1>1, <1>2, <1>3, <1>4, SameOperations DEF LinInit, Init, Watched, Abstract!Init

\* Every step, call or stutter of FCDeque is one of DequeSpec.
LEMMA NextRefines ==
  Inv /\ Watched /\ [LinNext]_linVars => [Abstract!Next]_(Abstract!vars) /\ Watched'
<1> SUFFICES ASSUME Inv, Watched, [LinNext]_linVars
             PROVE  [Abstract!Next]_(Abstract!vars) /\ Watched'
  OBVIOUS
<1>1. CASE UNCHANGED linVars
  <2>1. UNCHANGED <<m_deque, requests, op, pc, sawEmpty>>
    BY <1>1 DEF linVars, vars
  <2>2. Status' = Status
    BY <2>1 DEF Status, Complete
  <2>3. Reply' = Reply /\ PendingPops' = PendingPops
    BY <2>1, <2>2 DEF Reply, PendingPops
  <2> QED  BY <2>1, <2>2, <2>3 DEF Abstract!vars, Watched
<1>2. ASSUME NEW t \in Threads, Step(t), WatchEmpty
      PROVE  [Abstract!Next]_(Abstract!vars) /\ Watched'
  BY <1>2, StepRefines, SameHistory
<1>3. ASSUME NEW t \in Threads, NEW o \in Operations, Call(t, o), WatchEmpty
      PROVE  [Abstract!Next]_(Abstract!vars) /\ Watched'
  BY <1>3, CallRefines, SameHistory DEF Abstract!Next
<1> QED  BY <1>1, <1>2, <1>3 DEF LinNext, Next

\* FCDeque is linearizable: it implements the deque of DequeSpec, whatever the number of
\* threads and the interleaving of their calls with the combiner's rounds.
THEOREM Refines == LinSpec => Linearizable
<1>1. LinInit => Inv
  BY InitInv DEF LinInit
<1>2. Inv /\ [LinNext]_linVars => Inv'
  BY NextInv DEF LinNext, linVars
<1>3. LinInit => Abstract!Init /\ Watched
  BY InitRefines
<1>4. Inv /\ Watched /\ [LinNext]_linVars => [Abstract!Next]_(Abstract!vars) /\ Watched'
  BY NextRefines
<1> QED  BY <1>1, <1>2, <1>3, <1>4, PTL DEF LinSpec, Linearizable, Abstract!Spec
=============================================================================
