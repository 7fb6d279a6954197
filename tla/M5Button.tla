------------------------------ MODULE M5Button ------------------------------
(***************************************************************************)
(* One M5_Button of m5flow/ubutton.py together with the two contexts that  *)
(* touch it:                                                               *)
(*   - the pin interrupt handler irq_cb, run on every rising and falling   *)
(*     edge of the pin; it runs to completion and is not re-entered;       *)
(*   - the single application thread calling the query API              *)
(*     (wasPressed, wasReleased, releasedFor, clear).  The application's  *)
(*     read-and-clear of a flag is the Python sequence                     *)
(*         if (self._event & B) > 0:  self._event -= B                     *)
(*     which the interrupt may preempt between the test, the load of       *)
(*     _event and the store of the difference; each is a step here.        *)
(* The clock is utime.ticks_ms(), which wraps modulo TicksPeriod; the code *)
(* subtracts tick values with plain integer subtraction.                   *)
(* The ghost variables heldAge, edgeAge and pressOwed record real elapsed  *)
(* time and report history for the properties; no code reads them.        *)
(***************************************************************************)
EXTENDS Integers

CONSTANTS
    DbTime,       \* the dbtime argument of M5_Button.__init__ (ms)
    TicksPeriod,  \* ticks_ms() wraps to 0 after TicksPeriod - 1
    Timeouts,     \* the timeouts (ms) the application passes to releasedFor
    MaxPending    \* interrupt requests that can be queued before edges merge

ASSUME DbTimeAssumption == DbTime \in Nat
ASSUME TicksPeriodAssumption == TicksPeriod \in Nat /\ TicksPeriod \div 2 > DbTime
ASSUME TimeoutsAssumption == Timeouts \subseteq 0..(TicksPeriod - 1)
ASSUME MaxPendingAssumption == MaxPending \in Nat \ {0}

\* The bits of M5_Button._event.
WAS_PRESSED  == 2
WAS_RELEASED == 4
RELEASED_FOR == 8

\* The bit each read-and-clear query consumes.
OpBit == [wasPressed |-> WAS_PRESSED, wasReleased |-> WAS_RELEASED,
          releasedFor |-> RELEASED_FOR]

\* Ghost clocks stop counting at a cap: below the cap the age is the real
\* elapsed time, at the cap it is "the cap or more".  heldAge is exact up
\* to a full wrap period; edgeAge up to half of one, the range in which
\* wrap-safe tick subtraction (time.ticks_diff) is exact.
HeldCap == TicksPeriod
EdgeCap == TicksPeriod \div 2

VARIABLES
    pin,          \* physical level of the pin (0 = pressed, pull-up)
    pending,      \* interrupt requests not yet handled by irq_cb
    now,          \* the value ticks_ms() returns
    timeshoot,    \* self._timeshoot
    lastState,    \* self._lastState
    startTicks,   \* self._startTicks
    timeout,      \* self._timeout
    event,        \* self._event
    wasPressedCb, wasReleasedCb, releasedForCb,  \* callback slot is set
    app,          \* the application thread: [op, pc, tmp]
    heldAge,      \* ghost: ms since the accepted press, while lastState
    edgeAge,      \* ghost: ms since irq_cb last ran (capped at EdgeCap)
    pressOwed     \* ghost: a press was accepted and not reported since

handlerVars == <<pending, timeshoot, lastState, startTicks, event,
                 heldAge, edgeAge, pressOwed>>
cbVars == <<wasPressedCb, wasReleasedCb, releasedForCb>>
vars == <<pin, now, timeout, app, cbVars, handlerVars>>

AppIdle == [op |-> "none", pc |-> "idle", tmp |-> 0]

(* Python's (e & b) > 0 for a single bit b: floor division and the         *)
(* non-negative remainder give the two's-complement bit for any integer. *)
HasBit(e, b) == (e \div b) % 2 = 1

\* Python's e | b for a single bit b.
SetBit(e, b) == IF HasBit(e, b) THEN e ELSE e + b

\* pressedFor(timeout): a pure query, no state change.
pressedFor(t) == lastState /\ now - startTicks > t

-----------------------------------------------------------------------------
Init ==
    /\ pin = 1
    /\ pending = 0
    /\ now \in 0..(TicksPeriod - 1)
    /\ timeshoot = 0
    /\ lastState = FALSE
    /\ startTicks = 0
    /\ timeout = 0
    /\ event = 0
    /\ wasPressedCb = FALSE /\ wasReleasedCb = FALSE /\ releasedForCb = FALSE
    /\ app = AppIdle
    /\ heldAge = 0
    \* the button is built before ticks_ms() first wraps: tick 0 was
    \* "now" ms ago
    /\ edgeAge = IF now < EdgeCap THEN now ELSE EdgeCap
    /\ pressOwed = FALSE

-----------------------------------------------------------------------------
(* Environment: the contact changes level and the GPIO raises an interrupt *)
(* request; once MaxPending requests wait, further edges merge into them.  *)
Edge ==
    /\ pin' = 1 - pin
    /\ pending' = IF pending < MaxPending THEN pending + 1 ELSE pending
    /\ UNCHANGED <<now, timeout, app, cbVars, timeshoot, lastState,
                   startTicks, event, heldAge, edgeAge, pressOwed>>

\* One millisecond passes; ticks_ms() wraps.
Tick ==
    /\ now' = (now + 1) % TicksPeriod
    /\ heldAge' = IF lastState /\ heldAge < HeldCap THEN heldAge + 1
                  ELSE heldAge
    /\ edgeAge' = IF edgeAge < EdgeCap THEN edgeAge + 1 ELSE edgeAge
    /\ UNCHANGED <<pin, pending, timeout, app, cbVars, timeshoot,
                   lastState, startTicks, event, pressOwed>>

-----------------------------------------------------------------------------
(* irq_cb(pin).  The direction is taken from pin.value() read when the     *)
(* handler runs, not from the edge that raised the request.  Every run     *)
(* ends with self._timeshoot = ticks_ms().  The handler is short next to a *)
(* millisecond, so its ticks_ms() calls all return "now".  The callbacks   *)
(* it invokes are user code and change no state modelled here.             *)

\* Mutant: the press time stamp is not taken.
PressNoStamp ==
    /\ pin = 0
    /\ now - timeshoot > DbTime
    /\ lastState' = TRUE
    /\ startTicks' = startTicks
    /\ event' = SetBit(event, WAS_PRESSED)
    /\ heldAge' = 0
    /\ pressOwed' = TRUE

\* Mutant: the debounce test is >= instead of >.
PressEarly ==
    /\ pin = 0
    /\ now - timeshoot >= DbTime
    /\ lastState' = TRUE
    /\ startTicks' = now
    /\ event' = SetBit(event, WAS_PRESSED)
    /\ heldAge' = 0
    /\ pressOwed' = TRUE

\* pin_val == 0, debounce passed: an accepted press.
Press ==
    /\ pin = 0
    /\ now - timeshoot > DbTime
    /\ lastState' = TRUE
    /\ startTicks' = now
    /\ event' = SetBit(event, WAS_PRESSED)
    /\ heldAge' = 0
    /\ pressOwed' = TRUE

\* pin_val == 0 within the debounce window: nothing but the time stamp.
PressBounced ==
    /\ pin = 0
    /\ ~(now - timeshoot > DbTime)
    /\ UNCHANGED <<lastState, startTicks, event, heldAge, pressOwed>>

\* Mutant: the held-for test is >= instead of >.
ReleasedForExpiredEarly == timeout > 0 /\ now - startTicks >= timeout

\* The held-for test of the rising branch.
ReleasedForExpired == timeout > 0 /\ now - startTicks > timeout

\* pin_val == 1 after an accepted press: a release, held-for or plain.
(* The held-for branch runs _event |= 0x04; _event = 0; _event |= 0x08,    *)
(* leaving RELEASED_FOR alone.                                             *)
Release ==
    /\ pin = 1
    /\ lastState
    /\ lastState' = FALSE
    /\ event' = IF ReleasedForExpired THEN RELEASED_FOR
                ELSE SetBit(event, WAS_RELEASED)
    /\ heldAge' = 0
    /\ UNCHANGED <<startTicks, pressOwed>>

\* pin_val == 1 with no accepted press: nothing but the time stamp.
SpuriousRelease ==
    /\ pin = 1
    /\ ~lastState
    /\ UNCHANGED <<lastState, startTicks, event, heldAge, pressOwed>>

irq_cb ==
    /\ pending > 0
    /\ pending' = pending - 1
    /\ Press \/ PressBounced \/ Release \/ SpuriousRelease
    /\ timeshoot' = now
    /\ edgeAge' = 0
    /\ UNCHANGED <<pin, now, timeout, app, cbVars>>

-----------------------------------------------------------------------------
(* The application thread.  A query with callback=None tests the bit; when *)
(* it is set the thread goes on to load and then store _event.             *)

AppUnchangedButEvent ==
    UNCHANGED <<pin, pending, now, timeshoot, lastState, startTicks,
                heldAge, edgeAge>>

\* Mutant: the bit test before the subtraction is left out.
CallPollNoTest(op) ==
    /\ app.pc = "idle"
    /\ app' = [op |-> op, pc |-> "load", tmp |-> 0]
    /\ AppUnchangedButEvent
    /\ UNCHANGED <<timeout, event, cbVars, pressOwed>>

\* wasPressed() / wasReleased() with callback None: the bit test.
CallPoll(op) ==
    /\ app.pc = "idle"
    /\ app' = IF HasBit(event, OpBit[op])
              THEN [op |-> op, pc |-> "load", tmp |-> 0]
              ELSE AppIdle
    /\ AppUnchangedButEvent
    /\ UNCHANGED <<timeout, event, cbVars, pressOwed>>

wasPressed == CallPoll("wasPressed")
wasReleased == CallPoll("wasReleased")

\* Mutant: the seconds-to-milliseconds scaling applied to a value in ms.
releasedForScaledTwice ==
    /\ app.pc = "idle"
    /\ \E t \in Timeouts, poll \in BOOLEAN :
         /\ timeout' = t * 1000
         /\ app' = [op |-> "releasedFor", pc |-> IF poll THEN "check"
                                                  ELSE "setcb", tmp |-> 0]
    /\ AppUnchangedButEvent
    /\ UNCHANGED <<event, cbVars, pressOwed>>

\* releasedFor(t, callback): self._timeout = t * 1000, always first.
releasedFor ==
    /\ app.pc = "idle"
    /\ \E t \in Timeouts, poll \in BOOLEAN :
         /\ timeout' = t
         /\ app' = [op |-> "releasedFor", pc |-> IF poll THEN "check"
                                                  ELSE "setcb", tmp |-> 0]
    /\ AppUnchangedButEvent
    /\ UNCHANGED <<event, cbVars, pressOwed>>

\* releasedFor with callback None: the bit test.
releasedForCheck ==
    /\ app.pc = "check"
    /\ app' = IF HasBit(event, RELEASED_FOR)
              THEN [app EXCEPT !.pc = "load"] ELSE AppIdle
    /\ AppUnchangedButEvent
    /\ UNCHANGED <<timeout, event, cbVars, pressOwed>>

\* releasedFor with a callback: self._releasedFor_cb = callback.
releasedForSetCb ==
    /\ app.pc = "setcb"
    /\ releasedForCb' = TRUE
    /\ app' = AppIdle
    /\ AppUnchangedButEvent
    /\ UNCHANGED <<timeout, event, wasPressedCb, wasReleasedCb, pressOwed>>

\* self._event -= B: the load of self._event ...
LoadEvent ==
    /\ app.pc = "load"
    /\ app' = [app EXCEPT !.pc = "store", !.tmp = event]
    /\ AppUnchangedButEvent
    /\ UNCHANGED <<timeout, event, cbVars, pressOwed>>

\* ... and the store of the difference; the query then returns True.
StoreEvent ==
    /\ app.pc = "store"
    /\ event' = app.tmp - OpBit[app.op]
    /\ pressOwed' = IF app.op = "wasPressed" THEN FALSE ELSE pressOwed
    /\ app' = AppIdle
    /\ AppUnchangedButEvent
    /\ UNCHANGED <<timeout, cbVars>>

\* wasPressed(cb) / wasReleased(cb): replace the callback slot.
RegisterCb ==
    /\ app.pc = "idle"
    /\ \/ wasPressedCb' = TRUE /\ UNCHANGED <<wasReleasedCb, releasedForCb>>
       \/ wasReleasedCb' = TRUE /\ UNCHANGED <<wasPressedCb, releasedForCb>>
    /\ AppUnchangedButEvent
    /\ UNCHANGED <<app, timeout, event, pressOwed>>

\* clear(): self._event = 0.
clear ==
    /\ app.pc = "idle"
    /\ event' = 0
    /\ pressOwed' = FALSE
    /\ AppUnchangedButEvent
    /\ UNCHANGED <<app, timeout, cbVars>>

AppStep ==
    \/ wasPressed \/ wasReleased \/ releasedFor \/ releasedForCheck
    \/ releasedForSetCb \/ LoadEvent \/ StoreEvent \/ RegisterCb \/ clear

Next == Edge \/ Tick \/ irq_cb \/ AppStep

Spec == Init /\ [][Next]_vars

-----------------------------------------------------------------------------
(* Properties.                                                             *)

\* The values _event can hold if every bit is set and cleared as intended.
EventValues == {a + b + c : a \in {0, WAS_PRESSED}, b \in {0, WAS_RELEASED},
                            c \in {0, RELEASED_FOR}}

(* The read-and-clear queries clear a bit by subtracting it (_event -= B), *)
(* not by masking.  Even when irq_cb preempts them between the test, the   *)
(* load and the store, _event never goes negative and never gains a bit    *)
(* outside WAS_PRESSED, WAS_RELEASED and RELEASED_FOR.                    *)
EventBitsValid == event \in EventValues

(* pressedFor(t) is sound across the wrap of ticks_ms(): when it answers   *)
(* True the button has really been held, since the accepted press, for     *)
(* more than t ms.                                                         *)
PressedForSound == \A t \in Timeouts : pressedFor(t) => heldAge > t

(* A release that irq_cb classifies as held-for (RELEASED_FOR alone left  *)
(* in _event) comes more than _timeout ms of real time after the press.    *)
HeldForSound ==
    [][(irq_cb /\ lastState /\ ~lastState' /\ event' = RELEASED_FOR)
         => heldAge > timeout]_vars

(* The debounce of irq_cb never accepts a press less than DbTime + 1 ms    *)
(* of real time after the previous edge it handled, wrap included.         *)
DebounceWindowRespected ==
    [][(irq_cb /\ Press) => edgeAge > DbTime]_vars

(* Spec sections 3 and 5: consuming one event is exact.  The store of     *)
(* "_event -= B" in wasPressed/wasReleased/releasedFor clears exactly bit B *)
(* and keeps every other latched bit, and wasPressed() answers True only   *)
(* for a press accepted since it last answered True.                       *)
ConsumeExact ==
    [][StoreEvent =>
         /\ app.op = "wasPressed" => pressOwed
         /\ \A b \in {WAS_PRESSED, WAS_RELEASED, RELEASED_FOR} \ {OpBit[app.op]} :
               HasBit(event, b) => HasBit(event', b)]_vars

(* Spec sections 6 and 8: a press handled more than DbTime ms of real time *)
(* after the previous edge is accepted (tick arithmetic is wrap-safe).     *)
(* Wrap-safe subtraction (time.ticks_diff) is exact for intervals shorter  *)
(* than half the period, so that is the range the promise covers.         *)
QuietPressAccepted ==
    [][(irq_cb /\ pin = 0 /\ DbTime < edgeAge /\ edgeAge < EdgeCap)
         => lastState' /\ startTicks' = now]_vars

======================================================================================================================================================
