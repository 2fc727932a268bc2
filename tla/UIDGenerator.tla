---------------------------- MODULE UIDGenerator ----------------------------
(***************************************************************************)
(* UIDGenerator (src/cpp_harness/DefaultHarnessTests.cpp): the values the  *)
(* acceptance tests put into a container, a count above the bits of a tid. *)
(* Width stands for the 32 bits of uint32_t.                               *)
(***************************************************************************)
EXTENDS Integers

CONSTANTS taskNum, Width

UIDAssumption == taskNum \in Nat \ {0} /\ Width \in Nat \ {0}

Tids == 0 .. taskNum - 1

UINT_MAX == 2^Width - 1

\* log2(taskNum) + 1, rounded down.
tidBits == CHOOSE b \in 1 .. Width + 1 : 2^(b - 1) <= taskNum /\ taskNum < 2^b

inc == 2^tidBits

initial(tid) == tid + inc

\* The value after prev; 0 when the counts are used up.
next(prev) ==
  LET ret == (prev + inc) % 2^Width IN
  IF ret \div inc = UINT_MAX \div inc THEN 0 ELSE ret

count(val) == val \div inc
id(val) == val % inc

\* The int32_t with the bits of val.
signed(val) == IF val >= 2^(Width - 1) THEN val - 2^Width ELSE val

\* The sign of val and of -1*val as int32_t.
Sign(val) == LET v == signed(val) IN IF v < 0 THEN -1 ELSE IF v = 0 THEN 0 ELSE 1
SignNegated(val) == Sign((2^Width - val) % 2^Width)
=============================================================================
