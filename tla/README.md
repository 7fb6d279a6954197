# TLA+ verification of the M5Stack MicroPython button and unit layer

This directory holds TLA+ models of the MicroPython modules of this repository
(`src/MicroPython_BUILD/.../m5flow/`, the example `boot.py`, and the firmware
tools). It has TLC configurations that check the models on small instances, and
TLAPS proofs of their main invariants for every value of the constants.

## 1. Inventory

### Components

| Component | Source | State it keeps | Operations |
|---|---|---|---|
| **InputLine** `M5_Button` | `m5flow/ubutton.py` 8–105 | `_timeshoot`, `_dbtime`, `_lastState`, `_startTicks`, `_timeout`, `_event` (bits 0x02 WAS_PRESSED, 0x04 WAS_RELEASED, 0x08 RELEASED_FOR), three callback slots | `__init__` (binds `irq_cb` to both edges), `irq_cb`, `clear`, `read`/`isPressed`/`isReleased`, `wasPressed(cb)`, `wasReleased(cb)`, `pressedFor(t)`, `releasedFor(t, cb)` |
| **InputRegistry** `Button` | `ubutton.py` 107–121 | list of `M5_Button` | `register(pin)`, `clear()` (resets `_event` and the callback slots of every button) |
| Board setup and `Speaker` | `m5flow/m5stack.py` | PWM, one-shot `Timer(8)`, volume, beat | `tone`, `_timeout_cb` (timer callback), `sing`, `set_beat`, `volume`; module-level creation of the LCD and of buttons A/B/C |
| Unit ownership | `m5flow/units.py` | `class_map` (`dht12`, `bmp280`, `adc`, `servo[port]`), `rgb_muti_port{a,b,c}` | constructors of `ENV`, `ANGLE`, `Light`, `Servo`, `RGB_Multi` and `RGB_Multi.deinit`, which take over or release a shared peripheral |
| Unit drivers | `units.py` | 100 ms read caches (`ENV.time/data`, `Joystick.time/value`), `Weigh.zero_value` | register reads and arithmetic (`ANGLE.read`, `Servo.write_us/write_angle`, `Makey.value`, `Tracker.*`) |
| Boot script | `examples_m5stack/boot.py` | `wifi_cancelled`, `w` | one straight sequence: OTA check on A, Wi-Fi connect loop cancelled by C, FTP start |
| Image builder | `firmware/esp32/makeimg.py` | `cur_offset` | concatenation of four images at fixed offsets with 0xff padding |
| Flashing tool | `Tools/MacOS/M5Burner.py` | none | menu, string substitution, `subprocess.call` |

### How the components interact

`m5stack.py` builds one `Button` registry at import and registers buttons A,
B and C (pins 39, 38, 37). Each `M5_Button.__init__` installs the bound method
`irq_cb` as the pin's handler for both edges. Two contexts then share each
button's fields:

- **interrupt context**: `irq_cb`, run on each edge. It reads the live pin
  level, applies the debounce on the falling direction, latches event bits,
  and calls the user callbacks. It is not re-entered.
- **application context**: the user program (and `boot.py`), which calls
  `wasPressed()`, `wasReleased()`, `releasedFor()`, `pressedFor()`, `clear()`
  and `Button.clear()`.

The two contexts communicate only through shared fields. There are no locks
and no interrupt masking. `units.py` instances share peripherals through the
module-level `class_map`. `Speaker` shares its PWM between `tone()` and the
timer callback.

### What is hard

- **Preemption inside read-and-clear.** The application's `if (self._event & B)
  > 0: self._event -= B` can be interrupted after the test, after the load and
  before the store (spec section 5).
- **Destructive rewrite.** The held-for branch of `irq_cb` sets `_event = 0x08`
  (spec section 9). If it lands inside the window above, the subtraction acts
  on a value it did not test.
- **Tick wrap-around.** `ticks_ms()` wraps, and every comparison in the code
  is a plain subtraction (`ubutton.py` 32, 43, 90; `units.py` 39, 248).
- **Level read instead of edge type.** Queued or merged interrupt requests see
  a later pin level.
- **Shared peripheral ownership.** A new unit object deinitialises the
  peripheral that an older live object still uses.
- **Timer callback against a new request** in `Speaker.tone`.
- **Construction order.** `M5_Button.__init__` arms the interrupt before it
  creates the fields the handler uses.
- **Boot sequence paths** (`w` unbound when there is no Wi-Fi configuration)
  and a connect loop with no timeout.

### What makes each component correct

- InputLine:
  - `_event` only ever holds combinations of the three bits.
  - Consuming an event clears only its own bit.
  - Each press is reported once.
  - The debounce, the held-for test and `pressedFor` never overstate the
    elapsed time, across wraps.
  - A press after a quiet interval longer than the debounce window is accepted.
- InputRegistry: a press handled on a registered line is latched, also while
  `register()` is still building it. After `clear()` no flags and no callbacks
  remain, and the held state is untouched.
- Ownership: no object uses a peripheral that someone else has deinitialised.
- Speaker: a tone is not cut short by the previous tone's timer.
- Boot: every path reaches FTP start or a cancelled boot without an error.

`PROJECT.json` lists every hazard at its line, with the properties that cover
it.

## 2. Modules and what they model

| Module | Models | Proof module |
|---|---|---|
| `M5Button` | one `M5_Button`: `irq_cb`, the query API, a wrapping clock | `M5Button_proofs` |
| `ButtonRegistry` | `Button.register`/`Button.clear` over several lines, with `M5_Button.__init__` step by step | none |
| `Boot` | `boot.py` | `Boot_proofs` |
| `UnitCache` | the 100 ms read cache of `ENV` and `Joystick` (`units.py`) | `UnitCache_proofs` |
| `UnitsOwnership` | `class_map['adc']`, `class_map['servo']`, `rgb_muti_port*` (`units.py`) | `UnitsOwnership_proofs` |
| `PinOwnership` | the abstract promise of the ADC and servo registries: exclusive pin ownership | (refined in `UnitsOwnership_proofs`) |
| `M5Speaker` | `Speaker.tone`, `_timeout_cb` and the one-shot timer (`m5stack.py`) | `M5Speaker_proofs` |
| `MakeImg` | the loop of `makeimg.py` | `MakeImg_proofs` |
| `TicksArith` | lemmas on `%` for wrap-safe tick arithmetic | itself |

Each `MC_*` module gives the constants of one instance. Each `.cfg` names the
properties of one run. `PROJECT.json` maps every definition to the source lines
it translates. It also lists the findings, the hazards and the properties that
cover them, and one mutant per property of each passing run: a plausible bug
in a mapped definition, which TLC must catch.

## 3. `M5Button.tla` (`ubutton.py` 8–105)

**Constants**

| Constant | Meaning |
|---|---|
| `DbTime` | `dbtime` |
| `TicksPeriod` | the wrap period of `ticks_ms()` |
| `Timeouts` | the values the application passes to `releasedFor`, in ms |
| `MaxPending` | interrupt requests that can wait before further edges merge into them |

**Variables**

- `timeshoot`, `lastState`, `startTicks`, `timeout` and `event` are the fields
  of the same names.
- `wasPressedCb`, `wasReleasedCb` and `releasedForCb` record whether each
  callback slot is set.
- `pin` is the physical level, `pending` counts the interrupt requests not yet
  handled, and `now` is what `ticks_ms()` returns.
- `app` is the application thread's position inside a query.
- Ghosts: `heldAge` and `edgeAge` are the real ms since the press and since
  the last handled edge, and `pressOwed` records that a press has been latched
  and not yet reported. No code reads them. The ages stop at a cap.
  `heldAge` stops at a full period and `edgeAge` at half a period
  (`EdgeCap`), the range in which `ticks_diff` is exact. Below its cap, an
  age is the real elapsed time.

**Actions**

- `Edge` is the environment: a level change plus an interrupt request.
- `Tick` is one millisecond; `now` wraps.
- `irq_cb` is the whole handler, with four alternatives, each a named action:
  - `Press`: level 0 and outside the window;
  - `PressBounced`: level 0 inside the window;
  - `Release`: level 1 after a press. The held-for branch
    (`ReleasedForExpired`) leaves exactly `RELEASED_FOR`.
  - `SpuriousRelease`: level 1 without a press.

  Every run of the handler ends by setting `_timeshoot`. Its `ticks_ms()`
  calls all return `now`, because the handler runs in far less than a ms. The
  callbacks it invokes are user code.
- The application side:
  - `wasPressed` and `wasReleased` (`CallPoll`) perform the bit test of lines
    69/80. `releasedFor` stores `_timeout` (line 97) and then either tests the
    bit (`releasedForCheck`) or sets the slot (`releasedForSetCb`).
  - `LoadEvent` and `StoreEvent` are the two halves of `self._event -= B`.
  - `RegisterCb` is the callback branch of `wasPressed`/`wasReleased`, and
    `clear` is `M5_Button.clear`.
  - `releasedFor` takes its timeout in ms: the `* 1000` scaling from seconds
    is abstracted.

**Preemption points.** The application thread can be preempted between any two
of its steps. This is the scheduling model of spec section 5. It is also
reachable under MicroPython's scheduled (soft) IRQs, which run pending handlers
at the branch after the bit test.

### Runs

| Run | Checks | Shows |
|---|---|---|
| `button_safety` (`MC_M5Button_proofs.cfg`, pass) | `EventBitsValid`, `PressedForSound`, `HeldForSound`, `DebounceWindowRespected`, and the proof invariants `TypeInv`, `EventInv`, `ClockInv` | The subtract-based clearing never produces a negative value or a foreign bit, even when preempted. The tick comparisons can miss elapsed time across a wrap but never invent it. The inductive invariants of the proofs hold on the instance. |
| `button_consume_race` (`MC_M5Button_ConsumeExact.cfg`, violation) | `ConsumeExact` | An interrupt between the bit test, the load and the store of `_event -= B` breaks exact consumption in two ways. A held-for release after `wasPressed`'s test turns `_event` from 0x08 into 0x06, so the same press is reported twice. A release latched between the load and the store is lost. |
| `button_tick_wrap` (`MC_M5Button_QuietPressAccepted.cfg`, violation) | `QuietPressAccepted` | After `ticks_ms()` wraps, a press that comes more than `dbtime` ms after the previous edge is rejected as a bounce. The edge is stamped at tick 5 of the 8 ms period, and the press comes 3 ms later at tick 0: `0 - 5 = -5` is not `> 2`. The promise covers intervals under half a period, where `ticks_diff` is exact. The same run with `ticks_diff` in both tests of `irq_cb` finds no violation, so the failure comes from the plain subtraction and not from the model. |

The two violations are findings against spec sections 3, 5 and 6.

**Bounds** (`MC_M5Button.tla`):

- `DbTime = 2` separates an accepted press from a bounce by more than one tick.
- `TicksPeriod = 8` makes wrap-around happen within about 8 steps, while still
  leaving room for a held-for timeout.
- `Timeouts = {0, 3}` gives a disabled timeout and one shorter than the
  period.
- `MaxPending = 2` lets two requests queue, so that two handler runs can read
  the same level, and lets further edges merge.

The instance has 8.2 million distinct states and takes about two minutes.
Every action and every `irq_cb` alternative fires. No fairness is assumed:
every property is a safety property. The clock always ticks, so there is no
deadlock.

### Proofs (`M5Button_proofs.tla`)

These hold for all constants satisfying the `ASSUME`s: `DbTime \in Nat`,
`TicksPeriod \div 2 > DbTime`, `Timeouts \subseteq 0..TicksPeriod-1`,
`MaxPending \in Nat \ {0}`.

- `TypeInvHolds`: `Spec => []TypeInv`. `TypeInv` splits
  the type into integer, Boolean and record parts. `AppShape` adds that a
  thread inside a query has a real query name, so that `OpBit[app.op]` is
  defined.
- `EventBitsValidHolds`: `Spec => []EventBitsValid`. The invariant is not
  inductive by itself: a query that has passed its test may load a value that
  `irq_cb` has rewritten since. `EventInv` adds that while loading, the value
  has the tested bit or `RELEASED_FOR` (`Tested`). The only rewrite that drops
  a tested bit is the held-for release, which sets `RELEASED_FOR`, and only
  `releasedFor` clears that. The same holds for the loaded copy while storing.
  The lemmas `SetBitValid`, `SubBitValid` and `HeldForValue` state what `|=`
  and `-=` do to the eight valid values.
- `PressedForSoundHolds`, `DebounceWindowRespectedHolds`,
  `HeldForSoundHolds`. These rest on `ClockInv`: while a ghost age is below its
  cap, stored tick + age = `now` modulo `TicksPeriod`. The lemma `WrapDiff`
  (from `ModOnce`) turns that into "a non-negative difference equals the age".
  So a positive tick difference never exceeds the real elapsed time.
- `ButtonInvariantsHold`: `Spec => [](TypeInv /\ EventInv /\ ClockInv)`,
  the three inductive invariants the run checks, stated as one result. Its
  step lemma is the conjunction of the step lemmas above. `EventInv` and
  `ClockInv` each need `TypeInv` in the pre-state. `TypeInvHolds` and
  `ClockInvHolds` state two of them alone.

Each invariant was first checked by TLC (`button_safety`) and then proved.


## 4. `ButtonRegistry.tla` (`ubutton.py` 10–50, 107–121)

The registry is a list of lines, each on its own pin. `n` is `len(self.button)`.
Per line the model keeps:

- `stage`: how far `M5_Button.__init__` has got;
- `held`: `_lastState`;
- `event`: the set bits of `_event`;
- `cb`: the callback slots that are set.

The ghost `owed` records an accepted press that is not yet superseded. `app`
is the application thread, inside `register()` or `clear()` or idle.

Timing is abstracted. Whether a falling edge passes the debounce and whether a
release is held-for are free choices here; `M5Button` models the timing. A
bounced or spurious edge only writes `_timeshoot` and is left out.

**Actions**

- `register()` runs the constructor as the steps the handler can tell apart:
  - `Bind` (lines 10–13, the interrupt is armed);
  - `InitTimes` (14–18);
  - `InitState` (19–23);
  - `InitEvent` (24);
  - `Append` (113–114).
- `IrqPress` and `IrqRelease` are `irq_cb` on a bound line. An attribute that
  does not exist yet raises `AttributeError`, which ends the handler; the
  stores made before it stay. Before `InitTimes` a press changes nothing. After
  it, `_lastState = True` creates the attribute, and `_event |= 0x02` raises
  until `InitEvent`.
- `Clear`, `ClearEvent` (line 118) and `ClearCbs` (119–121) are the loop of
  `Button.clear`, one step per store group. `irq_cb` can run between any two.
- `SetCb` is the callback branch of `wasPressed`/`wasReleased`/`releasedFor`.

The read-and-clear queries and their race with `irq_cb` are left to `M5Button`.

| Run | Checks | Shows |
|---|---|---|
| `registry_construction_race` (`MC_ButtonRegistry_PressLatched.cfg`, violation) | `PressLatched` | A press handled after line 18 and before line 24 of `M5_Button.__init__` is accepted but never latched (finding, `spec_code_divergence` at line 13). |

The trace is `Bind`, `InitTimes`, `InitState`, `IrqPress`, `InitEvent`.
`MaxLines = 2` lets `clear()` loop and lets an edge on one line come during the
construction of the next. The whole instance has 33,203 states.

The other interleaving of the registry is reachable here but judged by no
property: an edge between `ClearEvent` and `ClearCbs` latches a bit and calls
a callback that `clear()` is about to unset (hazard at line 118). The spec does
not say whether `clear_all` is atomic with respect to edges.

## 5. `Boot.tla` (`examples_m5stack/boot.py` 13–42)

`pc` is the statement the script runs next. `aPressed` and `cPressed` are the
live pin levels that `isPressed()` reads; the user changes them at any time
(`User`). `hasWifiConfig` is the NVS test of line 22, chosen in `Init`.
`wDefined` records whether the name `w` is bound, and `connected` is the
answer of `w.isconnected()`. `WifiAssociate` is the driver associating after
`w.connect()`.

One action per statement group: `CheckA` (13–15, with `set_bootpart`
succeeding or failing), `CheckC` (17–22), `Connect` (24–30), `WaitLoop` (one
iteration of 31–33, or its exit), `Ifconfig` (35–40; with `w` unbound it ends
in `nameError`), and `Finish` (42).

Fairness (`LiveSpec`): weak fairness of the script steps, because the
interpreter keeps executing them, and weak fairness of `WifiAssociate`,
which is the assumption that the AP is in range and accepts the stored
credentials. The user owes nothing. Without that assumption the loop has no
timeout and only C ends it (hazard at line 31).

| Run | Checks | Shows |
|---|---|---|
| `boot_ftp_and_end` (`Boot.cfg`, pass) | `FtpOnlyWhenConnected`, `BootEnds` | FTP starts only on an associated station. Once the AP answers, boot ends whatever the user does on C. |

The state space is small (108 states): two buttons, the config bit and the
association. It is complete, and every path of the script is explored.

The model also contains the defect of line 36. Without a stored configuration
and with C released, `w` is never bound, and `w.ifconfig()` raises NameError;
the model's `nameError` end state is that exception. It is a plain path of a
sequential script that a single run of `boot.py` on a device with an empty NVS
shows, so no run is spent on it.

**Proof** (`Boot_proofs.tla`). `FtpOnlyWhenConnectedHolds` proves
`Spec => []FtpOnlyWhenConnected`. The invariant is not inductive by itself,
because it says nothing before line 38. The strengthening `IInv` adds four
facts:

- `w` is unbound before line 26 runs;
- the driver reports a link only on a bound `w`;
- the connect loop runs on a bound `w`;
- at line 35, an uncancelled script with `w` bound is connected.

The last fact holds because the loop is left only by association or by C.
TLC checked `IInv` on the full state space before the proof.

## 6. `UnitCache.tla` (`units.py` 17–54, 246–275)

Every getter of `ENV` (`pressure`, `temperature`, `humidity`) and of
`Joystick` (`X`, `Y`, `Press`) runs the same code. If
`ticks_ms() - self.time > 100`, it stamps `self.time` and reads the bus; then
it indexes the cached tuple. `Readers = {"env", "joy"}`.

- **State.** `stamp` is `self.time` and `data` is `self.data`/`self.value`
  (`None` until a read succeeds). `now` is `ticks_ms()`, wrapping at
  `TicksPeriod`.
- **Ghosts.** `readAge` and `dataAge` are the real time since the last bus
  read attempt and since the cached value was read. `got` is the outcome of
  the last getter call: the value indexed with its age, or `OSError` raised.
  `got` makes a cached read a visible step.
- **Actions.** `Tick`, and per reader `Get`, which is one of three outcomes:
  - `RefreshOk`;
  - `RefreshFail`, a failed bus read after the stamp. `ENV` raises; the bare
    `except` of `Joystick` indexes the old value.
  - `Cached`.

  A failing bus exists only when the constant `BusCanFail` is TRUE.

| Run | Checks | Shows |
|---|---|---|
| `cache_rate_limit` (`MC_UnitCache.cfg`, pass) | `RateLimited` | The cache never reads a unit's bus twice within `CacheMs` ms of real time, across any wrap of `ticks_ms()`. |
| `cache_reading` (`MC_UnitCache_CachedReadingValid.cfg`, violation) | `CachedReadingValid` | A getter indexes `None` right after construction or after a failed first read, and returns a stale tuple after a wrap (two findings, `units.py` 254 and 39). |

Bounds: `CacheMs = 2` and `TicksPeriod = 6`, so the clock wraps within two
windows. The stale-after-wrap path violates `CachedReadingValid` also with
`BusCanFail = FALSE`.

**Proof** (`UnitCache_proofs.tla`). `RateLimitedHolds` proves
`Spec => RateLimited` for every `CacheMs` and every `TicksPeriod > CacheMs + 1`.
It uses the same argument as the button: `ClockInv` says that while a read age
is below its cap, stamp + age = `now` modulo the period. `WrapDiff` then makes
a positive difference the real time itself (`RefreshBound`). The action
property follows from `[](TypeInv /\ ClockInv)` by `PTL`.

## 7. `UnitsOwnership.tla` (`units.py` 11–15, 101–112, 144–155, 177–238, 277–286)

The unit objects are model values in `Objs`. `kind[o]` is the class `o` was
built as, `port[o]` its port, and `hw[o]` its driver, which is `"none"`,
`"live"` or `"dead"`. `adcOwner`, `servoOwner[p]` and `rgbOwner[p]` are
`class_map['adc']`, `class_map['servo'][pin]` and `rgb_muti_port{a,b,c}`.

Actions:

- Constructors. `NewAngle`/`NewLight` (through `NewAdc`), `NewServo(o, p)` and
  `NewRgb(o, p)` each release the driver the registry records (`Release`),
  make their own and record it.
- Deinit. `AngleDeinit` releases the ADC and leaves `class_map` alone.
  `RgbDeinit` releases its Neopixel and sets the port's global to `None`,
  whoever it records.

| Run | Checks | Shows |
|---|---|---|
| `units_registry` (`MC_UnitsOwnership.cfg`, pass) | `RegistryCurrent`, `PinOwnershipSpec` | `class_map` always records the one live ADC and the one live PWM of each servo pin, so a new ANGLE, Light or Servo never leaves two ADC or two servo PWM drivers on a pin. The registries implement `PinOwnership`. Pin 26 (`PORTB[0]`) is outside this abstraction. `Light` opens it as a digital input (line 286), `Servo(PORTB)` as a PWM (line 154) and `RGB_Multi(PORTB)` as a Neopixel (line 194), and none of these checks the others. |
| `units_rgb_registry` (`MC_UnitsOwnership_Rgb.cfg`, violation) | `RgbRegistryCurrent` | `x = RGB_Multi(p); y = RGB_Multi(p); x.deinit()` clears the global while `y` is live; a third `RGB_Multi(p)` leaves two drivers on the pin (finding, line 236). |

Three objects are enough for the replaced object to deinit after its successor
and for a third to be built. The objects are interchangeable, so the runs use
symmetry. Each object is built at most once, so the runs end. That end is not
a deadlock of the code (`CHECK_DEADLOCK FALSE`).

**Proof** (`UnitsOwnership_proofs.tla`). `RegistryCurrentHolds` proves
`Spec => []RegistryCurrent` for every finite set of objects.
`RegistryCurrent` alone is not inductive: a constructor releases only the
recorded object, so the proof needs the following, in `IInv`:

- an object not yet built holds no driver (`FreeNotLive`);
- a registry slot records an object of its own class (`OwnersBuilt`).

The lemma `ReleaseShape` states what `Release` does to `hw`.

**Refinement.** `PinOwnership.tla` states what the ADC and servo registries
promise, without the registries:

- each pin has a set of `holders`, the objects with a live driver on it;
- `Take(o, pin)`: a fresh object constructed on a pin becomes its only holder;
- `Drop(o, pin)`: a holder gives its pin up;
- nothing else changes a pin's holders.

So a driver is never ended by work on another pin, and never revives.

`UnitsOwnership` maps onto it with `Abs == INSTANCE PinOwnership WITH ...`:

- `holders["adc"]` is `LiveAdc`;
- `holders[p]` is `LiveOn("servo", p)`;
- `used` is the set of objects built as ANGLE, Light or Servo.

`NewAngle`, `NewLight` and `NewServo` map to `Take`. `AngleDeinit` of a live
ADC maps to `Drop`. The RGB actions, and a deinit of an ADC already released,
are stutters.

The run checks `PinOwnershipSpec == Abs!Spec` as a property.
`PinOwnershipRefined` proves `Spec => PinOwnershipSpec` in
`UnitsOwnership_proofs.tla`. The proof has two parts:

- `InitRefines` shows `Init => Abs!Init`;
- `NextRefines` shows that each step, under `IInv`, is an abstract step or a
  stutter.

The refinement needs one more fact in `OwnersBuilt` than `RegistryCurrent`
did: the servo recorded for a port was built on that port. Without it, a
Servo on one port could release a driver live on another.

The mutant `NewServoNoRecord` creates a servo PWM without recording it. TLC
finds that it breaks the refinement: a later Servo on the same port leaves two
holders.

## 8. `M5Speaker.tla` (`m5stack.py` 19–53)

- **State.** `sounding` is PWM duty # 0. `tRun`, `tPeriod` and `tElapsed` are
  the one-shot `Timer`. `pc`, `dur`, `timed` and `sleepLeft` locate the
  application inside `tone()`. The ghosts `noteAge` and `noteDur` are the age
  and the requested length of the note playing.
- **Actions.**
  - `Tick` is one model ms.
  - `TimeoutCb` is `_timeout_cb`. It is scheduled, so it runs between two
    statements of `tone()` or during its sleeps. A due timer must fire before
    time goes on.
  - `Tone` (`pwm.init`), then one of two paths. With `timer=True`, `ToneArm`
    (period or init, then `sleep_ms(duration - 15)`) and `ToneReturn`. With
    `timer=False`, `ToneSilence`.
  - `Timer.period()` on a running timer may restart the count or keep it. That
    behaviour is outside this repository, so `SetPeriod` allows both.
- **Fairness.** Weak fairness of `Tick`, `TimeoutCb` and `ToneStep`, because
  time passes, MicroPython runs a due scheduled callback, and the interpreter
  runs `tone()` to its end. The application owes no further call of `tone()`.

| Run | Checks | Shows |
|---|---|---|
| `speaker_silence` (`MC_M5Speaker.cfg`, pass) | `SilencerPending`, `EventuallySilent`, `ToneLeadBounded` | Once the program stops calling `tone()`, the speaker falls silent for good, under either behaviour of `Timer.period()`. |
| `speaker_note_cut` (`MC_M5Speaker_NoteLastsDuration.cfg`, violation) | `NoteLastsDuration` | A timer still pending from the constructor's 10 ms arm or from an earlier timed tone silences a `tone(timer=False)` before its duration (finding, line 46). |

Bounds: one model ms is 5 ms. The lead of 15 ms is 3, the constructor period
is 2, and the durations are 2 (shorter than the lead) and 6.

`SilencerPending` is the safety half of `EventuallySilent`. A sounding PWM has
one of two things pending:

- a running one-shot timer;
- a `tone()` still at `arm` or `sleepAll`, so one that will arm the timer or
  silence the PWM itself.

**Proof** (`M5Speaker_proofs.tla`). `SilencerPendingHolds` proves
`Spec => []SilencerPending` for every lead, period and duration set. The
invariant is inductive as it stands, for three reasons:

- `ToneArm` leaves the timer running on both of its branches;
- the timer stops only in `_timeout_cb`, which silences the PWM in the same
  step;
- `tone()` returns from `sleepLead` only with the timer still running or the
  note already ended.

The liveness half, that the pending silencer acts, needs fairness and stays
with TLC.

`ToneLeadBounded` is an action property about the lead of line 44. When
`tone(timer=True)` returns, the timer that ends its note has at most `Lead` ms
left. So the note ends no more than 15 ms after the call returns. This holds
whichever way `Timer.period()` treats a running count, and whether or not the
timer was running before.

The mutant `ToneArmShortSleep` sleeps one model ms less. TLC finds it returns
with `Lead + 1` left.

`ToneLeadBoundedHolds` proves the property from the inductive invariant
`LeadInv`. While `tone()` sleeps its lead with the timer running, the timer's
remaining time is at most `Lead + sleepLeft`. The reasons:

- `ToneArm` sets the period to the duration and the sleep to duration − Lead;
- it either restarts the count or keeps it, and neither adds time;
- each `Tick` takes one ms off both;
- only `ToneArm` changes the period.

`TickArith` and `ArmArith` isolate the two arithmetic facts.

## 9. `MakeImg.tla` (`makeimg.py` 3–28)

Bytes are abstracted to lengths.

- **State.** `size[j]` is the length of input `j`, `i` the loop index, `cur`
  `cur_offset`, `out` the bytes written and `at[j]` where image `j` was
  written.
- **Actions.** `WriteImage` is one loop iteration: the assertion, the padding,
  the sync to the offset and the append. `Finish` is the end of the loop.
- **Property.** `LayoutCorrect` says that every image lands at its flash
  offset less `OFFSET_BOOTLOADER`, that the assertion fires exactly on an image
  longer than its gap, and that a finished file ends with the last image.

| Run | Checks | Shows |
|---|---|---|
| `makeimg_layout` (`MC_MakeImg.cfg`, pass) | `LayoutCorrect` | `makeimg.py` builds the reference layout or stops at the assertion exactly when an image overruns its gap. |

The instance takes the real offsets in KiB and lengths that fill a gap
exactly, overrun it by one, or are small.

**Proof** (`MakeImg_proofs.tla`). `LayoutCorrectHolds` proves
`Spec => []LayoutCorrect` for every increasing offset table and every set of
lengths. The strengthening `IInv` states two facts:

- `cur_offset` is the end of the last image written (`End(i)`);
- `out = cur_offset - OFFSET_BOOTLOADER`.

Then the padding of the next image is exactly its offset less that end.
`PadArith` isolates the one arithmetic identity.

## 10. What is proved, and what only TLC checks

Proved by TLAPS:

- for every value of the constants allowed by the `ASSUME`s:
  `EventBitsValidHolds`, `PressedForSoundHolds`,
  `DebounceWindowRespectedHolds`, `HeldForSoundHolds`, `ButtonInvariantsHold`,
  `RateLimitedHolds`, `RegistryCurrentHolds`, `LayoutCorrectHolds`,
  `FtpOnlyWhenConnectedHolds`, `SilencerPendingHolds`, `ToneLeadBoundedHolds`,
  `TypeInvHolds`, `ClockInvHolds`;
- the refinement `PinOwnershipRefined` (`units.py` implements
  `PinOwnership`);
- the `TicksArith` lemmas.

Each of these properties is also a property of a passing run.

Only TLC checks the following:

- Liveness (`BootEnds`, `EventuallySilent`) and anything that uses `ENABLED`.
  The prover has no fairness reasoning for them. Their safety halves are
  proved: `FtpOnlyWhenConnectedHolds` and `SilencerPendingHolds`.
- Induction over data. The library's induction theorems take an operator
  parameter, which the installed provers cannot instantiate. No model here
  needs one: the loops are modelled as actions, and their invariants are
  proved step by step.
- The violation runs. They are counterexamples on an instance, and that is all
  they need to be.

Not yet done: an abstract `ButtonEvents` specification (an atomic latch and
consume) with `M5Button` shown to refine it. The refinement fails for the code
as written, as `button_consume_race` shows. It would hold only for
callback-only use.

## 11. Not modelled, and why

- **The rest of the unit drivers.** `PIR`, `Makey`, `Weigh`, `Tracker`, the
  `ANGLE.read` and `Servo.write_*` arithmetic and the `RGB` setters are single
  register reads and writes, with arithmetic on their results. They keep no
  state across calls, except `Weigh.zero_value`, which is set once by
  `zero()`. Their control flow is what a unit test covers.
- **The rest of `m5stack.py`.** The board setup is a straight sequence that
  creates the LCD, the speaker and buttons A/B/C. `Speaker.sing`,
  `set_beat` and `volume` are arithmetic on their arguments. `sing` is modelled
  through `Tone`.
- **`M5Burner.py`** is interactive I/O around `subprocess.call`.
- **LCD, network and NVS** are external collaborators.
