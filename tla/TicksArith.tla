----------------------------- MODULE TicksArith -----------------------------
(***************************************************************************)
(* Arithmetic of ticks_ms() values modulo the wrap period, shared by the  *)
(* proofs about ubutton.py and about the units' read cache: a tick value  *)
(* stored at some moment, plus the real time since, equals the current    *)
(* tick modulo the period.                                                 *)
(***************************************************************************)
EXTENDS Integers, TLAPS

\* x % P for 0 <= x < 2 * P.
LEMMA ModOnce ==
  ASSUME NEW P \in Nat, P > 0, NEW x \in 0..(2 * P - 1)
  PROVE  x % P = IF x < P THEN x ELSE x - P
  <1>1. CASE x < P
    BY <1>1
  <1>2. CASE x >= P
    <2>1. x - P \in 0..(P - 1)
      BY <1>2
    <2>2. x = (x - P) + 1 * P
      OBVIOUS
    <2>3. QED
      BY <1>2, <2>1, <2>2
  <1>3. QED
    BY <1>1, <1>2

(* The core of the wrap argument: if stored + age = now modulo P, a        *)
(* non-negative now - stored equals the age.                               *)
LEMMA WrapDiff ==
  ASSUME NEW P \in Nat, P > 0, NEW a \in 0..(P - 1), NEW h \in 0..(P - 1),
         NEW n \in 0..(P - 1), (a + h) % P = n
  PROVE  n - a >= 0 => n - a = h
  BY ModOnce

\* One tick later, stored + age + 1 = now + 1 modulo P.
LEMMA ModSucc ==
  ASSUME NEW P \in Nat, P > 0, NEW x \in 0..(2 * P - 1)
  PROVE  (x + 1) % P = ((x % P) + 1) % P
  <1>1. CASE x < P - 1
    BY <1>1, ModOnce
  <1>2. CASE x = P - 1
    BY <1>2, ModOnce
  <1>3. CASE x \in P..(2 * P - 2)
    BY <1>3, ModOnce
  <1>4. CASE x = 2 * P - 1
    <2>1. (x + 1) % P = 0
      <3>1. x + 1 = 0 + 2 * P
        BY <1>4
      <3>2. QED
        BY <3>1
    <2>2. QED
      BY <1>4, <2>1, ModOnce
  <1>5. QED
    BY <1>1, <1>2, <1>3, <1>4

=============================================================================
