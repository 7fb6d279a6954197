--------------------------- MODULE UnitCache_proofs ---------------------------
(***************************************************************************)
(* RateLimited for every window and every wrap period: the cache of ENV   *)
(* and Joystick reads the bus at most once per CacheMs + 1 ms of real     *)
(* time.  Like the debounce of ubutton.py, the argument is that the tick  *)
(* stamp plus the real time since equals ticks_ms() modulo the period, so *)
(* a positive difference is the real time itself.                         *)
(***************************************************************************)
EXTENDS UnitCache, TicksArith, TLAPS

USE CacheMsAssumption, TicksPeriodAssumption

\* The parts of the state the argument needs, with their types.
TypeInv ==
    /\ now \in 0..(TicksPeriod - 1)
    /\ stamp \in [Readers -> 0..(TicksPeriod - 1)]
    /\ readAge \in [Readers -> 0..AgeCap]

(* While a reader's read age is below its cap, its stamp plus that age is *)
(* the current tick modulo TicksPeriod.                                   *)
ClockInv ==
    \A r \in Readers :
        readAge[r] < AgeCap => (stamp[r] + readAge[r]) % TicksPeriod = now

LEMMA InitInv == Init => TypeInv /\ ClockInv
  BY DEF Init, TypeInv, ClockInv, AgeCap

\* A refresh step of r: stamp and read age of r are reset, the rest stays.
LEMMA RefreshShape ==
  ASSUME NEW r \in Readers, RefreshOk(r) \/ RefreshFail(r)
  PROVE  /\ stamp' = [stamp EXCEPT ![r] = now]
         /\ readAge' = [readAge EXCEPT ![r] = 0]
         /\ now' = now
  BY DEF RefreshOk, RefreshFail

LEMMA NextInv ==
  TypeInv /\ ClockInv /\ [Next]_vars => TypeInv' /\ ClockInv'
  <1> SUFFICES ASSUME TypeInv, ClockInv, [Next]_vars
               PROVE  TypeInv' /\ ClockInv'
    OBVIOUS
  <1> USE DEF TypeInv
  <1>1. CASE Tick
    <2>1. now' = (now + 1) % TicksPeriod /\ stamp' = stamp
      BY <1>1 DEF Tick
    <2>2. readAge' = [q \in Readers |->
                        IF readAge[q] < AgeCap THEN readAge[q] + 1 ELSE AgeCap]
      BY <1>1 DEF Tick
    <2>3. TypeInv'
      BY <2>1, <2>2 DEF AgeCap
    <2>4. ASSUME NEW q \in Readers, readAge'[q] < AgeCap
          PROVE  (stamp'[q] + readAge'[q]) % TicksPeriod = now'
      <3>0. readAge'[q] = IF readAge[q] < AgeCap THEN readAge[q] + 1
                                                  ELSE AgeCap
        BY <2>2
      <3>1. readAge[q] < AgeCap /\ readAge'[q] = readAge[q] + 1
        BY <3>0, <2>4 DEF AgeCap
      <3>2. (stamp[q] + readAge[q]) % TicksPeriod = now
        BY <3>1 DEF ClockInv
      <3>3. stamp[q] + readAge[q] \in 0..(2 * TicksPeriod - 1)
        BY <3>1 DEF AgeCap
      <3>4. (stamp[q] + readAge[q] + 1) % TicksPeriod = (now + 1) % TicksPeriod
        <4>1. TicksPeriod \in Nat /\ TicksPeriod > 0
          OBVIOUS
        <4>2. ((stamp[q] + readAge[q]) + 1) % TicksPeriod
                = (((stamp[q] + readAge[q]) % TicksPeriod) + 1) % TicksPeriod
          BY <3>3, <4>1, ModSucc
        <4>3. QED
          BY <3>2, <4>2
      <3>5. stamp'[q] + readAge'[q] = stamp[q] + readAge[q] + 1
        BY <2>1, <3>1
      <3>6. QED
        BY <2>1, <3>4, <3>5
    <2>5. QED
      BY <2>3, <2>4 DEF ClockInv
  <1>2. ASSUME NEW r \in Readers, RefreshOk(r) \/ RefreshFail(r)
        PROVE  TypeInv' /\ ClockInv'
    <2>1. /\ stamp' = [stamp EXCEPT ![r] = now]
          /\ readAge' = [readAge EXCEPT ![r] = 0]
          /\ now' = now
      BY <1>2, RefreshShape
    <2>2. TypeInv'
      BY <2>1 DEF AgeCap
    <2>3. ASSUME NEW q \in Readers, readAge'[q] < AgeCap
          PROVE  (stamp'[q] + readAge'[q]) % TicksPeriod = now'
      <3>1. CASE q = r
        BY <2>1, <3>1
      <3>2. CASE q # r
        BY <2>1, <2>3, <3>2 DEF ClockInv
      <3>3. QED
        BY <3>1, <3>2
    <2>4. QED
      BY <2>2, <2>3 DEF ClockInv
  <1>3. ASSUME NEW r \in Readers, Cached(r)
        PROVE  TypeInv' /\ ClockInv'
    <2>1. UNCHANGED <<now, stamp, readAge>>
      BY <1>3 DEF Cached
    <2>2. QED
      BY <2>1 DEF ClockInv
  <1>4. CASE UNCHANGED vars
    <2>1. UNCHANGED <<now, stamp, readAge>>
      BY <1>4 DEF vars
    <2>2. QED
      BY <2>1 DEF ClockInv
  <1>5. QED
    BY <1>1, <1>2, <1>3, <1>4 DEF Next, Get

(* A refresh happens only when the tick difference exceeds the window;   *)
(* by ClockInv that difference is the real time since the last read.      *)
LEMMA RefreshBound ==
  ASSUME TypeInv, ClockInv, NEW r \in Readers, Expired(r)
  PROVE  readAge[r] > CacheMs
  <1> USE DEF TypeInv
  <1>1. CASE readAge[r] = AgeCap
    BY <1>1 DEF AgeCap
  <1>2. CASE readAge[r] < AgeCap
    <2>1. (stamp[r] + readAge[r]) % TicksPeriod = now
      BY <1>2 DEF ClockInv
    <2>2. readAge[r] \in 0..(TicksPeriod - 1)
      BY <1>2 DEF AgeCap
    <2>3. now - stamp[r] = readAge[r]
      BY <2>1, <2>2, WrapDiff DEF Expired
    <2>4. QED
      BY <2>3 DEF Expired
  <1>3. QED
    BY <1>1, <1>2 DEF AgeCap

(* ENV's and Joystick's getters read the I2C bus of a unit at most once  *)
(* in any CacheMs + 1 ms of real time, however often they are called and *)
(* across any number of wraps of ticks_ms().                              *)
THEOREM RateLimitedHolds == Spec => RateLimited
  <1>1. Spec => [](TypeInv /\ ClockInv)
    BY InitInv, NextInv, PTL DEF Spec
  <1>2. TypeInv /\ ClockInv =>
          [\A r \in Readers :
             (RefreshOk(r) \/ RefreshFail(r)) => readAge[r] > CacheMs]_vars
    BY RefreshBound DEF RefreshOk, RefreshFail
  <1>3. QED
    BY <1>1, <1>2, PTL DEF RateLimited

=============================================================================
