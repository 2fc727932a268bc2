----------------------------- MODULE SPBuffers -----------------------------
(***************************************************************************)
(* The cyclic list of the single-producer buffers of TSQueue and TSStack   *)
(* (scal-master/src/datastructures/ts_queue_buffer.h, ts_stack_buffer.h).  *)
(* A thread registers its buffer behind the entry buffer when it inserts   *)
(* for the first time.  Buffer 0 is the entry buffer, its index -1, and    *)
(* thread 0 is the main program, which inserts nothing.                    *)
(*                                                                         *)
(* unregister_thread has no caller, so unlink_SPBuffer always returns at   *)
(* its first test and buffers stay in the list.                            *)
(***************************************************************************)
EXTENDS DequeHistory, TimeStamping, FiniteSets

CONSTANTS
  Registered,  \* the threads that have registered at the start
  Starts,      \* the random numbers of buffers a removal may skip
  NumItems     \* bound: items per thread

SPBuffersAssumption ==
  /\ Threads = 1 .. Cardinality(Threads)
  /\ Registered \subseteq Threads
  /\ Starts \subseteq 0 .. Cardinality(Threads)

entry_buffer_ == 0
SPBuffer == Threads \cup {entry_buffer_}

\* An item is named by its thread and its number; 0 is the sentinel.
Items == SPBuffer \X (0 .. NumItems)
SentinelOf(b) == <<b, 0>>
Null == <<-1, 0>>

\* Pointers carry a counter of three bits.
ItemPtr(item, aba) == [item |-> item, aba |-> aba]
NoPtr == ItemPtr(Null, 0)
get_aba_free_pointer(pointer) == pointer.item
add_next_aba(item, old, increment) == ItemPtr(item, (old.aba + increment) % 8)

VARIABLES
  spBuffers_,  \* the threads that have a buffer
  ring,        \* the next pointers of the buffers
  expected,    \* the local next of register_thread
  pc, op,      \* where each thread is, in which operation
  result       \* what it will return

ringVars == <<spBuffers_, ring, expected>>

\* The buffers registered at the start are in the order of their threads.
RingInit ==
  /\ spBuffers_ = Registered
  /\ ring = [b \in SPBuffer |->
       LET later == { r \in Registered : r > b } IN
       IF b # entry_buffer_ /\ b \notin Registered THEN b
       ELSE IF later = {} THEN entry_buffer_ ELSE CHOOSE r \in later : \A q \in later : r <= q]
  /\ expected = [t \in Threads |-> entry_buffer_]
  /\ pc = [t \in Threads |-> "idle"]
  /\ op = [t \in Threads |-> Pop("R")]
  /\ result = [t \in Threads |-> Empty]

Goto(t, l) == pc' = [pc EXCEPT ![t] = l]

\* A new buffer, with a sentinel for its only item.
CreateBuffer(t) ==
  /\ pc[t] = "create"
  /\ spBuffers_' = spBuffers_ \cup {t}
  /\ expected' = [expected EXCEPT ![t] = ring[entry_buffer_]]
  /\ Goto(t, "register")
  /\ UNCHANGED <<ring, op, result>>

LinkBuffer(t) ==
  /\ pc[t] = "register"
  /\ IF ring[entry_buffer_] = expected[t]
       THEN /\ ring' = [ring EXCEPT ![t] = expected[t], ![entry_buffer_] = t]
            /\ Goto(t, "insert")
            /\ UNCHANGED expected
       ELSE /\ expected' = [expected EXCEPT ![t] = ring[entry_buffer_]]
            /\ UNCHANGED <<ring, pc>>
  /\ UNCHANGED <<spBuffers_, op, result>>

register_thread(t) == CreateBuffer(t) \/ LinkBuffer(t)

\* The buffers a removal comes to from the entry buffer.
InRing ==
  LET n == Cardinality(SPBuffer)
      after[k \in 0 .. n] == IF k = 0 THEN entry_buffer_ ELSE ring[after[k - 1]]
  IN { after[k] : k \in 0 .. n }
=============================================================================
