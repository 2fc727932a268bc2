----------------------------- MODULE ElimTable -----------------------------
(***************************************************************************)
(* ElimTable<T> (src/deque/ElimTable.hpp) under the retry loops of         *)
(* OFDeque::doPush and doPop (src/deque/OFDeque.hpp) with Elimination =    *)
(* true, for one side of the deque.  Every thread has one entry in the     *)
(* table.  While a thread looks for the edge its operation is on offer     *)
(* there, and an opposite operation may complete it.  Before the thread    *)
(* touches the deque it withdraws the offer.  After a failed attempt it    *)
(* scans the entries of the others for a partner.                          *)
(*                                                                         *)
(* The attempt on the deque itself is one action, Attempt, which succeeds  *)
(* or fails: its steps are the subject of module OFDeque.                  *)
(***************************************************************************)
EXTENDS Integers, Sequences, FiniteSets

CONSTANTS
  N,        \* m_threadCount; threads are 0 .. N-1
  Values,   \* the values pushed
  Empty,    \* the answer of a pop that finds the deque empty
  Garbage,  \* m_value of an entry that was built from a flag alone
  Scan0,    \* m_scanCountStart
  Retries   \* bound: how often the attempts of one operation may fail

ElimTableAssumption ==
  /\ N \in Nat \ {0} /\ Scan0 \in Nat \ {0} /\ Retries \in Nat
  /\ Empty \notin Values /\ Garbage \notin Values \cup {Empty}

Threads == 0 .. N - 1

VARIABLES
  table,     \* m_pTable: an entry per thread
  contents,  \* the deque seen from this side, outermost value first
  pc,        \* where each thread is
  op,        \* its operation: the value it pushes, or Empty for a pop
  loc,       \* its locals
  reply,     \* the result of its pop
  effects,   \* auxiliary: how often its operation has taken effect
  partner,   \* auxiliary: the value of the operation it was last matched with
  missed     \* auxiliary: the threads whose operation was matched unnoticed

vars == <<table, contents, pc, op, loc, reply, effects, partner, missed>>
aux  == <<effects, partner, missed>>

-----------------------------------------------------------------------------
Flags == {"inactive", "eliminated", "push", "pop"}
Entry(f, v) == [flag |-> f, val |-> v]

Pushes(t) == op[t] # Empty

\* The entry an operation puts on offer (insertPush, insertPop), and the one it needs.
Offer(t)  == IF Pushes(t) THEN Entry("push", op[t]) ELSE Entry("pop", Garbage)
Wanted(t) == IF Pushes(t) THEN "pop" ELSE "push"

\* n and first are the loop of a scan, limit its scanCount; seen is the entry loaded
\* from the table, trying whether removePush or removePop was called from a scan.
NoLocals == [limit |-> Scan0, first |-> 0, n |-> 0, seen |-> Entry("inactive", Garbage),
             trying |-> FALSE, failed |-> 0]

Init ==
  /\ table = [t \in Threads |-> Entry("inactive", Garbage)]
  /\ contents = <<>>
  /\ pc = [t \in Threads |-> "idle"]
  /\ op = [t \in Threads |-> Empty]
  /\ loc = [t \in Threads |-> NoLocals]
  /\ reply = [t \in Threads |-> Empty]
  /\ effects = [t \in Threads |-> 0]
  /\ partner = [t \in Threads |-> Empty]
  /\ missed = {}

Goto(t, l) == pc' = [pc EXCEPT ![t] = l]

\* doPush(v) or doPop() is called.
Call(t, v) ==
  /\ pc[t] = "idle"
  /\ op' = [op EXCEPT ![t] = v]
  /\ loc' = [loc EXCEPT ![t] = NoLocals]
  /\ Goto(t, "offer")
  /\ UNCHANGED <<table, contents, reply, aux>>

\* insertPush, insertPop: at the start of the operation, after a failed attempt and
\* after a failed match.
OfferIt(t) ==
  /\ pc[t] \in {"offer", "backoff", "reoffer"}
  /\ table' = [table EXCEPT ![t] = Offer(t)]
  /\ Goto(t, CASE pc[t] = "offer"   -> "withdraw"
               [] pc[t] = "backoff" -> "start"
               [] OTHER             -> "scan")
  /\ UNCHANGED <<contents, op, loc, reply, aux>>

\* The operation was eliminated; a pop's value is v.
ElimOut(t, v) ==
  /\ Goto(t, "return")
  /\ reply' = IF Pushes(t) THEN reply ELSE [reply EXCEPT ![t] = v]

\* The load of removePush and removePop.
Withdraw(t) ==
  /\ pc[t] = "withdraw"
  /\ IF table[t].flag = "eliminated" THEN ElimOut(t, table[t].val)
     ELSE Goto(t, "exchange") /\ UNCHANGED reply
  /\ UNCHANGED <<table, contents, op, loc, aux>>

\* The flag for which the exchange of removePush and removePop reports elimination.
ReportedBy(f) == f = "inactive"

\* And their exchange.  What it returns is compared with FLAG_INACTIVE.
Exchange(t) ==
  /\ pc[t] = "exchange"
  /\ table' = [table EXCEPT ![t] = Entry("inactive", Garbage)]
  /\ IF ReportedBy(table[t].flag) THEN ElimOut(t, table[t].val)
     ELSE Goto(t, IF loc[t].trying THEN "match" ELSE "attempt") /\ UNCHANGED reply
  /\ missed' = IF table[t].flag = "eliminated" THEN missed \cup {t} ELSE missed
  /\ UNCHANGED <<contents, op, loc, effects, partner>>

\* The attempt on the deque: it takes effect, or another operation has interfered.
Attempt(t) ==
  /\ pc[t] = "attempt"
  /\ \/ /\ effects' = [effects EXCEPT ![t] = @ + 1]
        /\ contents' = IF Pushes(t) THEN <<op[t]>> \o contents
                       ELSE IF contents = <<>> THEN contents ELSE Tail(contents)
        /\ reply' = IF Pushes(t) \/ contents = <<>> THEN reply
                    ELSE [reply EXCEPT ![t] = Head(contents)]
        /\ Goto(t, "return")
        /\ UNCHANGED loc
     \/ /\ loc[t].failed < Retries
        /\ loc' = [loc EXCEPT ![t].failed = @ + 1]
        /\ Goto(t, "backoff")
        /\ UNCHANGED <<contents, reply, effects>>
  /\ UNCHANGED <<table, op, partner, missed>>

Lesser(a, b) == IF a < b THEN a ELSE b

\* tryEliminatePush, tryEliminatePop: a scan starts at a random entry.
StartScan(t) ==
  /\ pc[t] = "start"
  /\ \E s \in Threads :
       loc' = [loc EXCEPT ![t].first = s, ![t].n = 0, ![t].trying = TRUE]
  /\ Goto(t, "scan")
  /\ UNCHANGED <<table, contents, op, reply, aux>>

Scanned(t) == (loc[t].first + loc[t].n) % N

\* One entry: pass over it, try it, or end the scan and double the next one's length.
ScanEntry(t) ==
  /\ pc[t] = "scan"
  /\ IF loc[t].n < Lesser(N, loc[t].limit)
       THEN LET e == table[Scanned(t)] IN
            IF Scanned(t) # t /\ e.flag = Wanted(t)
              THEN /\ loc' = [loc EXCEPT ![t].seen = e]
                   /\ Goto(t, "withdraw")
              ELSE /\ loc' = [loc EXCEPT ![t].n = @ + 1]
                   /\ UNCHANGED pc
       ELSE /\ loc' = [loc EXCEPT ![t].limit = 2 * @, ![t].trying = FALSE]
            /\ Goto(t, "withdraw")
  /\ UNCHANGED <<table, contents, op, reply, aux>>

\* What the CAS of a match leaves in the partner's entry: a push hands over its value.
Matched(t) == Entry("eliminated", IF Pushes(t) THEN op[t] ELSE Garbage)

\* Mutant of Match: the CAS compares nothing.
MatchUnchecked(t) ==
  LET u == Scanned(t) IN
  /\ pc[t] = "match"
  /\ table' = [table EXCEPT ![u] = Matched(t)]
  /\ ElimOut(t, loc[t].seen.val)
  /\ effects' = [effects EXCEPT ![t] = @ + 1, ![u] = @ + 1]
  /\ partner' = [partner EXCEPT ![t] = op[u], ![u] = op[t]]
  /\ UNCHANGED <<contents, op, loc, missed>>

\* The CAS on the partner's entry.
Match(t) ==
  LET u == Scanned(t) IN
  /\ pc[t] = "match"
  /\ IF table[u] = loc[t].seen
       THEN /\ table' = [table EXCEPT ![u] = Matched(t)]
            /\ ElimOut(t, loc[t].seen.val)
            /\ effects' = [effects EXCEPT ![t] = @ + 1, ![u] = @ + 1]
            /\ partner' = [partner EXCEPT ![t] = op[u], ![u] = op[t]]
       ELSE /\ Goto(t, "reoffer")
            /\ UNCHANGED <<table, reply, effects, partner>>
  /\ UNCHANGED <<contents, op, loc, missed>>

Return(t) ==
  /\ pc[t] = "return"
  /\ Goto(t, "idle")
  /\ reply' = [reply EXCEPT ![t] = Empty]
  /\ effects' = [effects EXCEPT ![t] = 0]
  /\ partner' = [partner EXCEPT ![t] = Empty]
  /\ missed' = missed \ {t}
  /\ UNCHANGED <<table, contents, op, loc>>

Step(t) ==
  \/ OfferIt(t) \/ Withdraw(t) \/ Exchange(t) \/ Attempt(t)
  \/ StartScan(t) \/ ScanEntry(t) \/ Match(t) \/ Return(t)

Next == \E t \in Threads : Step(t) \/ \E v \in Values \cup {Empty} : Call(t, v)

Spec == Init /\ [][Next]_vars
-----------------------------------------------------------------------------
Words == Values \cup {Empty, Garbage}
Entries == [flag : Flags, val : Words]

\* Entries, operations and replies are what they should be; no pop answers the
\* uninitialised value of an entry.
TypeOK ==
  /\ table \in [Threads -> Entries]
  /\ contents \in Seq(Values)
  /\ pc \in [Threads -> {"idle", "offer", "backoff", "reoffer", "withdraw", "exchange",
                         "attempt", "start", "scan", "match", "return"}]
  /\ op \in [Threads -> Values \cup {Empty}]
  /\ loc \in [Threads -> [limit : Nat \ {0}, first : Threads, n : Nat, seen : Entries,
                          trying : BOOLEAN, failed : 0 .. Retries]]
  /\ reply \in [Threads -> Values \cup {Empty}]
  /\ effects \in [Threads -> Nat]
  /\ partner \in [Threads -> Values \cup {Empty}]
  /\ missed \subseteq Threads

\* No operation returns without having taken effect, on the deque or with a partner,
\* although removePush and removePop report elimination for an inactive entry.
NoneUndone == \A t \in Threads : pc[t] = "return" => effects[t] > 0

\* An operation takes effect once, unless its partner's CAS fell between the load and
\* the exchange of its own removePush or removePop.
OnceUnlessMissed == \A t \in Threads : effects[t] > 1 => t \in missed

\* A pop that was eliminated returns the value of the push it was matched with, and a
\* match is always of a push with a pop.
PartnersAgree ==
  \A t \in Threads \ missed :
    pc[t] = "return" /\ partner[t] # Empty /\ ~Pushes(t) => reply[t] = partner[t]

\* A thread that works on the deque has no offer in the table: nobody can complete the
\* operation behind its back.
NoOfferDuringAttempt ==
  \A t \in Threads : pc[t] \in {"attempt", "match"} => table[t].flag = "inactive"
=============================================================================
