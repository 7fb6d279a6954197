--------------------------- MODULE ButtonRegistry ---------------------------
(***************************************************************************)
(* The Button class of m5flow/ubutton.py (the registry of M5_Button lines) *)
(* together with the irq_cb of each line it creates.  register() runs     *)
(* M5_Button.__init__, which binds irq_cb to the pin (line 13) before it   *)
(* creates the attributes irq_cb reads and writes (lines 14-24): an edge  *)
(* handled in between finds some of them missing.  clear() loops over the *)
(* lines with four stores each, and irq_cb may run between any two.       *)
(* Each line is on its own pin.  Timing is abstracted: whether a falling  *)
(* edge passes the debounce and whether a release is held-for are free    *)
(* choices here (M5Button models them); a bounced or spurious edge only   *)
(* writes _timeshoot and is left out.  The read-and-clear queries of one  *)
(* line, and their race with irq_cb, are M5Button's.                     *)
(***************************************************************************)
EXTENDS Naturals

CONSTANT MaxLines  \* the number of register() calls the application makes

Lines == 1..MaxLines

\* The bits of _event, and the callback slots named after them.
Bits == {"pressed", "released", "releasedFor"}

(* How far M5_Button.__init__ has got: "none" not begun, "bound" line 13  *)
(* done, "timed" lines 14-18 done (_timeshoot and _dbtime exist),         *)
(* "stated" lines 19-23 done, "built" line 24 done (_event exists).        *)
Stages == {"none", "bound", "timed", "stated", "built"}

VARIABLES
    n,      \* len(self.button)
    stage,  \* stage[i]: the construction stage of line i
    held,   \* held[i]: _lastState (FALSE also while it does not exist)
    event,  \* event[i]: the set bits of _event ({} while it does not exist)
    cb,     \* cb[i]: the callback slots that are set
    app,    \* the application thread: [op, line, pc]
    owed    \* ghost: owed[i], a press irq_cb accepted is not yet superseded

vars == <<n, stage, held, event, cb, app, owed>>

AppIdle == [op |-> "none", line |-> 0, pc |-> "idle"]

\* Button.__init__ (lines 107-109): self.button = [].
Init ==
    /\ n = 0
    /\ stage = [i \in Lines |-> "none"]
    /\ held = [i \in Lines |-> FALSE]
    /\ event = [i \in Lines |-> {}]
    /\ cb = [i \in Lines |-> {}]
    /\ app = AppIdle
    /\ owed = [i \in Lines |-> FALSE]

-----------------------------------------------------------------------------
(* register(button), lines 111-114: M5_Button(button) step by step, then   *)
(* self.button.append.  The line under construction is n + 1.             *)

\* Lines 10-13: Pin(pin), then pin.init(..., handler=self.irq_cb, ...).
Bind ==
    /\ app.pc = "idle" /\ n < MaxLines
    /\ app' = [op |-> "register", line |-> n + 1, pc |-> "init"]
    /\ stage' = [stage EXCEPT ![n + 1] = "bound"]
    /\ UNCHANGED <<n, held, event, cb, owed>>

\* Lines 14-18: the three callback slots None, _timeshoot = 0, _dbtime.
InitTimes ==
    /\ app.op = "register" /\ stage[app.line] = "bound"
    /\ stage' = [stage EXCEPT ![app.line] = "timed"]
    /\ cb' = [cb EXCEPT ![app.line] = {}]
    /\ UNCHANGED <<n, held, event, app, owed>>

\* Lines 19-23: _lastState = False, _startTicks = 0, _timeout = 0, names.
InitState ==
    /\ app.op = "register" /\ stage[app.line] = "timed"
    /\ stage' = [stage EXCEPT ![app.line] = "stated"]
    /\ held' = [held EXCEPT ![app.line] = FALSE]
    /\ UNCHANGED <<n, event, cb, app, owed>>

\* Line 24: _event = 0.
InitEvent ==
    /\ app.op = "register" /\ stage[app.line] = "stated"
    /\ stage' = [stage EXCEPT ![app.line] = "built"]
    /\ event' = [event EXCEPT ![app.line] = {}]
    /\ UNCHANGED <<n, held, cb, app, owed>>

\* Lines 113-114: append the new line and return it.
Append ==
    /\ app.op = "register" /\ stage[app.line] = "built"
    /\ n' = n + 1
    /\ app' = AppIdle
    /\ UNCHANGED <<stage, held, event, cb, owed>>

-----------------------------------------------------------------------------
(* irq_cb of line i, bound once stage[i] # "none".  A missing attribute   *)
(* raises AttributeError, which ends the handler: the stores done before  *)
(* it stay.                                                               *)

(* Lines 31-37, a falling edge past the debounce.  _timeshoot and _dbtime *)
(* are read first: before "timed" the handler raises at once and changes  *)
(* nothing.  _lastState = True and _startTicks are stores that create the *)
(* attributes; "_event |= 0x02" raises while _event does not exist.       *)
IrqPress(i) ==
    /\ stage[i] \in {"timed", "stated", "built"}
    /\ held' = [held EXCEPT ![i] = TRUE]
    /\ event' = IF stage[i] = "built"
                THEN [event EXCEPT ![i] = @ \cup {"pressed"}] ELSE event
    /\ owed' = [owed EXCEPT ![i] = TRUE]
    /\ UNCHANGED <<n, stage, cb, app>>

(* Lines 39-50, a rising edge with _lastState True: _lastState = False,   *)
(* then "_event |= 0x04" (raises while _event does not exist), then the   *)
(* held-for test, whose branch replaces _event by RELEASED_FOR alone.     *)
IrqRelease(i) ==
    /\ stage[i] # "none" /\ held[i]
    /\ held' = [held EXCEPT ![i] = FALSE]
    /\ \/ /\ stage[i] # "built"
          /\ UNCHANGED <<event, owed>>
       \/ /\ stage[i] = "built"
          /\ event' = [event EXCEPT ![i] = @ \cup {"released"}]
          /\ UNCHANGED owed
       \/ /\ stage[i] = "built"
          /\ event' = [event EXCEPT ![i] = {"releasedFor"}]
          /\ owed' = [owed EXCEPT ![i] = FALSE]
    /\ UNCHANGED <<n, stage, cb, app>>

-----------------------------------------------------------------------------
\* wasPressed(cb), wasReleased(cb), releasedFor(t, cb) on a registered line.
SetCb(i, b) ==
    /\ app.pc = "idle" /\ i \in 1..n
    /\ cb' = [cb EXCEPT ![i] = @ \cup {b}]
    /\ UNCHANGED <<n, stage, held, event, app, owed>>

\* clear(), lines 116-117: the loop starts at the first line.
Clear ==
    /\ app.pc = "idle" /\ n > 0
    /\ app' = [op |-> "clear", line |-> 1, pc |-> "event"]
    /\ UNCHANGED <<n, stage, held, event, cb, owed>>

\* Line 118: i._event = 0.
ClearEvent ==
    /\ app.op = "clear" /\ app.pc = "event"
    /\ event' = [event EXCEPT ![app.line] = {}]
    /\ owed' = [owed EXCEPT ![app.line] = FALSE]
    /\ app' = [app EXCEPT !.pc = "cbs"]
    /\ UNCHANGED <<n, stage, held, cb>>

\* Lines 119-121: the three callback slots None (irq_cb changes none of
\* them); then the next line, or the loop ends.
ClearCbs ==
    /\ app.op = "clear" /\ app.pc = "cbs"
    /\ cb' = [cb EXCEPT ![app.line] = {}]
    /\ app' = IF app.line < n THEN [app EXCEPT !.line = @ + 1, !.pc = "event"]
              ELSE AppIdle
    /\ UNCHANGED <<n, stage, held, event, owed>>

Next ==
    \/ Bind \/ InitTimes \/ InitState \/ InitEvent \/ Append
    \/ Clear \/ ClearEvent \/ ClearCbs
    \/ \E i \in Lines : IrqPress(i) \/ IrqRelease(i) \/ \E b \in Bits : SetCb(i, b)

Spec == Init /\ [][Next]_vars

-----------------------------------------------------------------------------
(* Spec sections 4.1 and 7: an edge on a line whose handler is bound is    *)
(* handled, and an accepted press sets WAS_PRESSED, which stays latched    *)
(* until clear() or a held-for release supersedes it.  So on every line    *)
(* register() has finished building, an accepted press is latched.        *)
PressLatched ==
    \A i \in Lines : stage[i] = "built" /\ owed[i] => "pressed" \in event[i]

=============================================================================
