--------------------------- MODULE M5Button_proofs ---------------------------
(***************************************************************************)
(* Proofs about M5Button for every value of the constants: type            *)
(* correctness, and the invariants on _event and on the tick arithmetic    *)
(* that TLC checks on MC_M5Button.                                         *)
(***************************************************************************)
EXTENDS M5Button, TicksArith, TLAPS

USE DbTimeAssumption, TicksPeriodAssumption, TimeoutsAssumption,
    MaxPendingAssumption

(* The type invariant, split into the parts each prover handles: integers *)
(* for SMT, Boolean-valued variables for Zenon, and the application record *)
TypeNum ==
    /\ pin \in {0, 1}
    /\ pending \in 0..MaxPending
    /\ now \in 0..(TicksPeriod - 1)
    /\ timeshoot \in 0..(TicksPeriod - 1)
    /\ startTicks \in 0..(TicksPeriod - 1)
    /\ timeout \in {0} \cup Timeouts
    /\ event \in Int
    /\ heldAge \in 0..HeldCap
    /\ edgeAge \in 0..EdgeCap

TypeBool ==
    /\ lastState \in BOOLEAN
    /\ wasPressedCb \in BOOLEAN /\ wasReleasedCb \in BOOLEAN
    /\ releasedForCb \in BOOLEAN
    /\ pressOwed \in BOOLEAN

AppShape ==
    /\ app \in [op : {"none", "wasPressed", "wasReleased", "releasedFor"},
                pc : {"idle", "check", "setcb", "load", "store"},
                tmp : Int]
    /\ app.pc # "idle" => app.op \in {"wasPressed", "wasReleased",
                                       "releasedFor"}

TypeInv == TypeNum /\ TypeBool /\ AppShape

\* The application's steps; each changes app and at most event, timeout
\* and one callback slot.
AppActions == wasPressed \/ wasReleased \/ releasedFor \/ releasedForCheck
              \/ releasedForSetCb \/ LoadEvent \/ StoreEvent \/ RegisterCb
              \/ clear

LEMMA InitTypeInv == Init => TypeInv
  <1> SUFFICES ASSUME Init PROVE TypeInv
    OBVIOUS
  <1>1. TypeNum
    BY DEF Init, TypeNum, EdgeCap, HeldCap
  <1>2. TypeBool
    BY Zenon DEF Init, TypeBool
  <1>3. AppShape
    BY DEF Init, AppShape, AppIdle
  <1>4. QED
    BY <1>1, <1>2, <1>3 DEF TypeInv

LEMMA NextTypeNum == TypeInv /\ [Next]_vars => TypeNum'
  <1> SUFFICES ASSUME TypeInv, [Next]_vars PROVE TypeNum'
    OBVIOUS
  <1> USE DEF TypeInv, TypeNum, AppShape
  <1>1. CASE Edge
    BY <1>1 DEF Edge
  <1>2. CASE Tick
    BY <1>2 DEF Tick, HeldCap, EdgeCap
  <1>3. CASE irq_cb
    <2>1. pending' \in 0..MaxPending /\ timeshoot' = now /\ edgeAge' = 0
          /\ UNCHANGED <<pin, now, timeout>>
      BY <1>3 DEF irq_cb
    <2>2. CASE Press
      BY <2>1, <2>2 DEF Press, SetBit, WAS_PRESSED, HeldCap, EdgeCap
    <2>3. CASE PressBounced \/ SpuriousRelease
      BY <2>1, <2>3 DEF PressBounced, SpuriousRelease, EdgeCap
    <2>4. CASE Release
      BY <2>1, <2>4 DEF Release, SetBit, RELEASED_FOR, WAS_RELEASED,
                        HeldCap, EdgeCap
    <2>5. QED
      BY <1>3, <2>2, <2>3, <2>4 DEF irq_cb
  <1>4. CASE StoreEvent
    BY <1>4 DEF StoreEvent, AppUnchangedButEvent, OpBit, WAS_PRESSED,
                WAS_RELEASED, RELEASED_FOR
  <1>5. CASE AppActions /\ ~StoreEvent
    BY <1>5 DEF AppActions, wasPressed, wasReleased, CallPoll, releasedFor,
                releasedForCheck, releasedForSetCb, LoadEvent, RegisterCb,
                clear, AppUnchangedButEvent
  <1>6. CASE UNCHANGED vars
    BY <1>6 DEF vars, handlerVars, cbVars
  <1>7. QED
    BY <1>1, <1>2, <1>3, <1>4, <1>5, <1>6 DEF Next, AppStep, AppActions

LEMMA NextTypeBool == TypeInv /\ [Next]_vars => TypeBool'
  <1> SUFFICES ASSUME TypeInv, [Next]_vars PROVE TypeBool'
    OBVIOUS
  <1> USE DEF TypeInv, TypeBool
  <1>1. CASE Edge \/ Tick
    <2>1. UNCHANGED <<lastState, pressOwed, cbVars>>
      BY <1>1 DEF Edge, Tick
    <2>2. QED
      BY <2>1, Zenon DEF cbVars
  <1>2. CASE irq_cb
    <2>1. UNCHANGED cbVars
      BY <1>2 DEF irq_cb
    <2>2. CASE Press
      BY <2>1, <2>2, Zenon DEF Press, cbVars
    <2>3. CASE PressBounced \/ SpuriousRelease
      BY <2>1, <2>3, Zenon DEF PressBounced, SpuriousRelease, cbVars
    <2>4. CASE Release
      BY <2>1, <2>4, Zenon DEF Release, cbVars
    <2>5. QED
      BY <1>2, <2>2, <2>3, <2>4 DEF irq_cb
  <1>3. CASE wasPressed \/ wasReleased
    BY <1>3, Zenon DEF wasPressed, wasReleased, CallPoll, AppUnchangedButEvent,
                       cbVars
  <1>4. CASE releasedFor \/ releasedForCheck \/ LoadEvent
    BY <1>4, Zenon DEF releasedFor, releasedForCheck, LoadEvent,
                       AppUnchangedButEvent, cbVars
  <1>5. CASE releasedForSetCb
    BY <1>5, Zenon DEF releasedForSetCb, AppUnchangedButEvent
  <1>6. CASE StoreEvent
    BY <1>6, Zenon DEF StoreEvent, AppUnchangedButEvent, cbVars
  <1>7. CASE RegisterCb
    BY <1>7, Zenon DEF RegisterCb, AppUnchangedButEvent
  <1>8. CASE clear
    BY <1>8, Zenon DEF clear, AppUnchangedButEvent, cbVars
  <1>9. CASE UNCHANGED vars
    <2>1. UNCHANGED <<lastState, pressOwed, cbVars>>
      BY <1>9 DEF vars, handlerVars
    <2>2. QED
      BY <2>1, Zenon DEF cbVars
  <1>10. QED
    BY <1>1, <1>2, <1>3, <1>4, <1>5, <1>6, <1>7, <1>8, <1>9
       DEF Next, AppStep

LEMMA NextAppShape == TypeInv /\ [Next]_vars => AppShape'
  <1> SUFFICES ASSUME TypeInv, [Next]_vars PROVE AppShape'
    OBVIOUS
  <1> USE DEF TypeInv, AppShape, TypeNum
  <1>1. CASE Edge \/ Tick \/ irq_cb \/ RegisterCb \/ clear
    BY <1>1 DEF Edge, Tick, irq_cb, RegisterCb, clear
  <1>2. ASSUME NEW op \in {"wasPressed", "wasReleased"}, CallPoll(op)
        PROVE  AppShape'
    BY <1>2 DEF CallPoll, AppIdle
  <1>3. CASE releasedFor
    <2>1. PICK t \in Timeouts, poll \in BOOLEAN :
                 app' = [op |-> "releasedFor", pc |-> IF poll THEN "check"
                                                      ELSE "setcb", tmp |-> 0]
      BY <1>3 DEF releasedFor
    <2>2. QED
      BY <2>1
  <1>4. CASE releasedForCheck
    BY <1>4 DEF releasedForCheck, AppIdle
  <1>5. CASE LoadEvent
    BY <1>5 DEF LoadEvent
  <1>6. CASE releasedForSetCb \/ StoreEvent
    <2>1. app' = AppIdle
      BY <1>6 DEF releasedForSetCb, StoreEvent
    <2>2. QED
      BY <2>1 DEF AppIdle
  <1>7. CASE UNCHANGED vars
    BY <1>7 DEF vars
  <1>8. QED
    BY <1>1, <1>2, <1>3, <1>4, <1>5, <1>6, <1>7
       DEF Next, AppStep, wasPressed, wasReleased

-----------------------------------------------------------------------------
(* EventBitsValid.  It is not inductive by itself: a query that has passed *)
(* its bit test may find, when it loads and subtracts, a value that irq_cb *)
(* has rewritten since.  What makes the subtraction safe is that the only  *)
(* rewrite that can drop the tested bit is the held-for release, and it    *)
(* leaves RELEASED_FOR set, which only releasedFor clears.                 *)
Tested(e) == HasBit(e, OpBit[app.op]) \/ HasBit(e, RELEASED_FOR)

EventInv ==
    /\ event \in EventValues
    /\ app.pc = "load" => Tested(event)
    /\ app.pc = "store" => app.tmp \in EventValues /\ Tested(app.tmp)

Bits == {WAS_PRESSED, WAS_RELEASED, RELEASED_FOR}

LEMMA EventValuesEnum == EventValues = {0, 2, 4, 6, 8, 10, 12, 14}
  BY DEF EventValues, WAS_PRESSED, WAS_RELEASED, RELEASED_FOR

\* e |= b stays a valid value, sets b and keeps every bit already set.
LEMMA SetBitValid ==
  ASSUME NEW e \in EventValues, NEW b \in Bits
  PROVE  /\ SetBit(e, b) \in EventValues
         /\ \A c \in Bits : HasBit(e, c) => HasBit(SetBit(e, b), c)
  <1>1. e \in {0, 2, 4, 6, 8, 10, 12, 14} /\ b \in {2, 4, 8}
    BY EventValuesEnum DEF Bits, WAS_PRESSED, WAS_RELEASED, RELEASED_FOR
  <1>2. QED
    BY <1>1, EventValuesEnum DEF SetBit, HasBit, Bits, WAS_PRESSED,
                                 WAS_RELEASED, RELEASED_FOR

\* e -= b stays a valid value when b, or else RELEASED_FOR, is set in e.
LEMMA SubBitValid ==
  ASSUME NEW e \in EventValues, NEW b \in Bits,
         HasBit(e, b) \/ HasBit(e, RELEASED_FOR)
  PROVE  e - b \in EventValues
  <1>1. e \in {0, 2, 4, 6, 8, 10, 12, 14} /\ b \in {2, 4, 8}
    BY EventValuesEnum DEF Bits, WAS_PRESSED, WAS_RELEASED, RELEASED_FOR
  <1>2. QED
    BY <1>1, EventValuesEnum DEF HasBit, RELEASED_FOR

LEMMA HeldForValue == RELEASED_FOR \in EventValues /\ 0 \in EventValues
                      /\ HasBit(RELEASED_FOR, RELEASED_FOR)
  BY EventValuesEnum DEF HasBit, RELEASED_FOR

LEMMA OpBitBits == \A o \in {"wasPressed", "wasReleased", "releasedFor"} :
                       OpBit[o] \in Bits
  BY DEF OpBit, Bits

LEMMA InitEventInv == Init => EventInv
  BY HeldForValue DEF Init, EventInv, AppIdle

LEMMA NextEventInv == TypeInv /\ EventInv /\ [Next]_vars => EventInv'
  <1> SUFFICES ASSUME TypeInv, EventInv, [Next]_vars PROVE EventInv'
    OBVIOUS
  <1> USE DEF EventInv
  <1>a. app.pc # "idle" => OpBit[app.op] \in Bits
    BY OpBitBits DEF TypeInv, AppShape
  <1>1. CASE Edge \/ Tick
    BY <1>1 DEF Edge, Tick, Tested
  <1>2. CASE irq_cb
    <2>1. UNCHANGED app
      BY <1>2 DEF irq_cb
    <2>2. CASE Press
      <3>1. event' = SetBit(event, WAS_PRESSED)
        BY <2>2 DEF Press
      <3>2. QED
        BY <1>a, <2>1, <3>1, SetBitValid DEF Tested, Bits
    <2>3. CASE PressBounced \/ SpuriousRelease
      BY <2>1, <2>3 DEF PressBounced, SpuriousRelease, Tested
    <2>4. CASE Release /\ ReleasedForExpired
      <3>1. event' = RELEASED_FOR
        BY <2>4 DEF Release
      <3>2. QED
        BY <2>1, <3>1, HeldForValue DEF Tested
    <2>5. CASE Release /\ ~ReleasedForExpired
      <3>1. event' = SetBit(event, WAS_RELEASED)
        BY <2>5 DEF Release
      <3>2. QED
        BY <1>a, <2>1, <3>1, SetBitValid DEF Tested, Bits
    <2>6. QED
      BY <1>2, <2>2, <2>3, <2>4, <2>5 DEF irq_cb
  <1>3. ASSUME NEW op \in {"wasPressed", "wasReleased"}, CallPoll(op)
        PROVE  EventInv'
    BY <1>3 DEF CallPoll, AppIdle, Tested
  <1>4. CASE releasedFor \/ releasedForSetCb \/ RegisterCb
    BY <1>4 DEF releasedFor, releasedForSetCb, RegisterCb, AppIdle
  <1>5. CASE releasedForCheck
    BY <1>5 DEF releasedForCheck, AppIdle, Tested, TypeInv, AppShape
  <1>6. CASE LoadEvent
    BY <1>6 DEF LoadEvent, Tested, TypeInv, AppShape
  <1>7. CASE StoreEvent
    <2>1. event' = app.tmp - OpBit[app.op] /\ app' = AppIdle
      BY <1>7 DEF StoreEvent
    <2>2. app.pc = "store"
      BY <1>7 DEF StoreEvent
    <2>3. QED
      BY <1>a, <2>1, <2>2, SubBitValid DEF Tested, AppIdle
  <1>8. CASE clear
    BY <1>8, HeldForValue DEF clear
  <1>9. CASE UNCHANGED vars
    <2>1. UNCHANGED <<event, app>>
      BY <1>9 DEF vars, handlerVars
    <2>2. QED
      BY <2>1 DEF Tested
  <1>10. QED
    BY <1>1, <1>2, <1>3, <1>4, <1>5, <1>6, <1>7, <1>8, <1>9
       DEF Next, AppStep, wasPressed, wasReleased

(* The subtract-based flag clearing of wasPressed, wasReleased and         *)
(* releasedFor keeps _event among the valid bit combinations in every      *)
(* interleaving with irq_cb, for every debounce time, clock period and     *)
(* set of timeouts.                                                        *)
THEOREM EventBitsValidHolds == Spec => []EventBitsValid
  <1>1. TypeInv /\ EventInv /\ [Next]_vars => (TypeInv /\ EventInv)'
    BY NextTypeNum, NextTypeBool, NextAppShape, NextEventInv DEF TypeInv
  <1>2. EventInv => EventBitsValid
    BY DEF EventInv, EventBitsValid
  <1>3. QED
    BY InitTypeInv, InitEventInv, <1>1, <1>2, PTL DEF Spec

-----------------------------------------------------------------------------
(* The tick arithmetic.  irq_cb and pressedFor compare ticks_ms() values   *)
(* by plain subtraction, so after a wrap a difference can be negative.     *)
(* The ghost clocks relate the stored tick values to real elapsed time:    *)
(* while the real age is below its cap, stored tick + age = now modulo     *)
(* TicksPeriod.  From that, a difference that is positive is never larger  *)
(* than the real age: the code can miss an elapsed interval across a wrap  *)
(* but never invents one.                                                  *)
ClockInv ==
    /\ lastState => \/ heldAge = HeldCap
                    \/ heldAge < HeldCap
                       /\ (startTicks + heldAge) % TicksPeriod = now
    /\ edgeAge < EdgeCap => (timeshoot + edgeAge) % TicksPeriod = now

LEMMA InitClockInv == Init => ClockInv
  BY DEF Init, ClockInv, EdgeCap

LEMMA NextClockInv == TypeInv /\ ClockInv /\ [Next]_vars => ClockInv'
  <1> SUFFICES ASSUME TypeInv, ClockInv, [Next]_vars PROVE ClockInv'
    OBVIOUS
  <1> USE DEF TypeInv, TypeNum
  <1>0. TicksPeriod \in Nat /\ TicksPeriod > 0
    OBVIOUS
  <1>1. CASE Tick
    <2>1. now' = (now + 1) % TicksPeriod /\ UNCHANGED <<startTicks, timeshoot>>
      BY <1>1 DEF Tick
    <2>2. lastState' = lastState
      BY <1>1 DEF Tick
    <2>3. lastState' => \/ heldAge' = HeldCap
                        \/ heldAge' < HeldCap
                           /\ (startTicks' + heldAge') % TicksPeriod = now'
      <3> SUFFICES ASSUME lastState
                   PROVE  \/ heldAge' = HeldCap
                          \/ heldAge' < HeldCap
                             /\ (startTicks' + heldAge') % TicksPeriod = now'
        BY <2>2
      <3>1. heldAge' = IF heldAge < HeldCap THEN heldAge + 1 ELSE heldAge
        BY <1>1, Zenon DEF Tick
      <3>2. CASE heldAge < HeldCap
        <4>1. (startTicks + heldAge) % TicksPeriod = now
          BY <3>2 DEF ClockInv
        <4>2. (startTicks + heldAge + 1) % TicksPeriod = (now + 1) % TicksPeriod
          BY <4>1, <1>0, <3>2, ModSucc DEF HeldCap
        <4>3. QED
          BY <2>1, <3>1, <3>2, <4>2 DEF HeldCap
      <3>3. CASE ~(heldAge < HeldCap)
        BY <3>1, <3>3 DEF HeldCap
      <3>4. QED
        BY <3>2, <3>3
    <2>4. edgeAge' < EdgeCap => (timeshoot' + edgeAge') % TicksPeriod = now'
      <3>1. edgeAge' = IF edgeAge < EdgeCap THEN edgeAge + 1 ELSE edgeAge
        BY <1>1 DEF Tick
      <3>2. CASE edgeAge < EdgeCap
        <4>1. (timeshoot + edgeAge) % TicksPeriod = now
          BY <3>2 DEF ClockInv
        <4>2. (timeshoot + edgeAge + 1) % TicksPeriod = (now + 1) % TicksPeriod
          BY <4>1, <1>0, <3>2, ModSucc DEF EdgeCap
        <4>3. QED
          BY <2>1, <3>1, <4>2
      <3>3. QED
        BY <3>1, <3>2
    <2>5. QED
      BY <2>3, <2>4 DEF ClockInv
  <1>2. CASE irq_cb
    <2>1. timeshoot' = now /\ edgeAge' = 0 /\ now' = now
      BY <1>2 DEF irq_cb
    <2>2. edgeAge' < EdgeCap => (timeshoot' + edgeAge') % TicksPeriod = now'
      BY <2>1
    <2>3. CASE Press
      <3>1. startTicks' = now /\ heldAge' = 0
        BY <2>3 DEF Press
      <3>2. QED
        BY <2>1, <2>2, <3>1 DEF ClockInv, HeldCap
    <2>4. CASE PressBounced \/ SpuriousRelease
      <3>1. UNCHANGED <<lastState, startTicks, heldAge>>
        BY <2>4 DEF PressBounced, SpuriousRelease
      <3>2. QED
        BY <2>1, <2>2, <3>1 DEF ClockInv
    <2>5. CASE Release
      <3>1. lastState' = FALSE
        BY <2>5 DEF Release
      <3>2. QED
        BY <2>2, <3>1 DEF ClockInv
    <2>6. QED
      BY <1>2, <2>3, <2>4, <2>5 DEF irq_cb
  <1>3. CASE Edge \/ AppStep \/ UNCHANGED vars
    <2>1. UNCHANGED <<now, lastState, startTicks, heldAge, timeshoot, edgeAge>>
      BY <1>3 DEF Edge, AppStep, wasPressed, wasReleased, CallPoll,
                  releasedFor, releasedForCheck, releasedForSetCb, LoadEvent,
                  StoreEvent, RegisterCb, clear, AppUnchangedButEvent, vars,
                  handlerVars
    <2>2. QED
      BY <2>1 DEF ClockInv
  <1>4. QED
    BY <1>1, <1>2, <1>3 DEF Next

\* From ClockInv: a positive tick difference never exceeds the real age.
LEMMA HeldDiffBound ==
  ASSUME TypeInv, ClockInv, lastState, NEW t \in 0..(TicksPeriod - 1),
         now - startTicks > t
  PROVE  heldAge > t
  <1> USE DEF TypeInv, TypeNum
  <1>1. CASE heldAge = HeldCap
    BY <1>1 DEF HeldCap
  <1>2. CASE heldAge < HeldCap /\ (startTicks + heldAge) % TicksPeriod = now
    <2>1. heldAge \in 0..(TicksPeriod - 1)
      BY <1>2 DEF HeldCap
    <2>2. now - startTicks = heldAge
      BY <1>2, <2>1, WrapDiff
    <2>3. QED
      BY <2>2
  <1>3. QED
    BY <1>1, <1>2 DEF ClockInv

LEMMA EdgeDiffBound ==
  ASSUME TypeInv, ClockInv, now - timeshoot > DbTime
  PROVE  edgeAge > DbTime
  <1> USE DEF TypeInv, TypeNum
  <1>1. CASE edgeAge = EdgeCap
    BY <1>1 DEF EdgeCap
  <1>2. CASE edgeAge < EdgeCap
    <2>1. (timeshoot + edgeAge) % TicksPeriod = now
      BY <1>2 DEF ClockInv
    <2>2. edgeAge \in 0..(TicksPeriod - 1)
      BY <1>2 DEF EdgeCap
    <2>3. now - timeshoot = edgeAge
      BY <2>1, <2>2, WrapDiff
    <2>4. QED
      BY <2>3
  <1>3. QED
    BY <1>1, <1>2 DEF EdgeCap

LEMMA AlwaysTypeClock == Spec => [](TypeInv /\ ClockInv)
  <1>1. TypeInv /\ ClockInv /\ [Next]_vars => (TypeInv /\ ClockInv)'
    BY NextTypeNum, NextTypeBool, NextAppShape, NextClockInv DEF TypeInv
  <1>2. QED
    BY InitTypeInv, InitClockInv, <1>1, PTL DEF Spec

(* pressedFor(t) answers True only when the button has really been held    *)
(* for more than t ms since the accepted press, across any number of       *)
(* wraps of ticks_ms().                                                    *)
THEOREM PressedForSoundHolds == Spec => []PressedForSound
  <1>1. TypeInv /\ ClockInv => PressedForSound
    BY HeldDiffBound, TimeoutsAssumption DEF PressedForSound, pressedFor
  <1>2. QED
    BY AlwaysTypeClock, <1>1, PTL

(* irq_cb's debounce never accepts a press less than DbTime + 1 ms of real *)
(* time after the previous edge it handled.                                *)
THEOREM DebounceWindowRespectedHolds == Spec => DebounceWindowRespected
  <1>1. TypeInv /\ ClockInv => [(irq_cb /\ Press) => edgeAge > DbTime]_vars
    BY EdgeDiffBound DEF Press
  <1>2. QED
    BY AlwaysTypeClock, <1>1, PTL DEF DebounceWindowRespected

(* A release classified as held-for by irq_cb comes more than _timeout ms  *)
(* of real time after the accepted press.                                  *)
THEOREM HeldForSoundHolds == Spec => HeldForSound
  <1>1. TypeInv /\ ClockInv =>
          [(irq_cb /\ lastState /\ ~lastState' /\ event' = RELEASED_FOR)
             => heldAge > timeout]_vars
    <2> SUFFICES ASSUME TypeInv, ClockInv, irq_cb, lastState, ~lastState',
                        event' = RELEASED_FOR
                 PROVE  heldAge > timeout
      OBVIOUS
    <2>1. Release
      BY Zenon DEF irq_cb, Press, PressBounced, SpuriousRelease
    <2>2. ~HasBit(RELEASED_FOR, WAS_RELEASED)
      BY DEF HasBit, RELEASED_FOR, WAS_RELEASED
    <2>3. HasBit(SetBit(event, WAS_RELEASED), WAS_RELEASED)
      BY DEF TypeInv, TypeNum, SetBit, HasBit, WAS_RELEASED
    <2>4. ReleasedForExpired
      BY <2>1, <2>2, <2>3 DEF Release
    <2>5. timeout \in 0..(TicksPeriod - 1)
      BY TimeoutsAssumption DEF TypeInv, TypeNum
    <2>6. QED
      BY <2>4, <2>5, HeldDiffBound DEF ReleasedForExpired
  <1>2. QED
    BY AlwaysTypeClock, <1>1, PTL DEF HeldForSound

-----------------------------------------------------------------------------
(* The three inductive invariants the runs check hold together in every   *)
(* reachable state: the variables of irq_cb and the queries stay in their *)
(* types, a query between its bit test and its store works on a value     *)
(* that still carries the bit it subtracts (or RELEASED_FOR), and the     *)
(* stored ticks_ms() values agree with the real ages modulo the period.   *)
THEOREM ButtonInvariantsHold == Spec => [](TypeInv /\ EventInv /\ ClockInv)
  <1>1. TypeInv /\ EventInv /\ ClockInv /\ [Next]_vars
          => (TypeInv /\ EventInv /\ ClockInv)'
    BY NextTypeNum, NextTypeBool, NextAppShape, NextEventInv, NextClockInv
       DEF TypeInv
  <1>2. QED
    BY InitTypeInv, InitEventInv, InitClockInv, <1>1, PTL DEF Spec

(* The type invariant of the button: the integers of irq_cb and the       *)
(* queries stay in range, the Booleans Boolean, and a thread inside a    *)
(* query has a real query name, in every reachable state.               *)
THEOREM TypeInvHolds == Spec => []TypeInv
  BY ButtonInvariantsHold, PTL

(* The stored ticks_ms() values (_startTicks while held, _timeshoot) agree *)
(* with the real time since the press and since the last edge, modulo the *)
(* wrap period, in every reachable state.                                 *)
THEOREM ClockInvHolds == Spec => []ClockInv
  BY AlwaysTypeClock, PTL

=============================================================================
