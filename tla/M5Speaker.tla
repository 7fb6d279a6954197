----------------------------- MODULE M5Speaker -----------------------------
(***************************************************************************)
(* m5stack.py Speaker: a PWM on pin 25 and a one-shot machine.Timer whose *)
(* callback _timeout_cb silences the PWM.  tone() starts the note, then   *)
(* either arms the timer for `duration` and sleeps duration - 15 ms (the  *)
(* timer ends the note), or sleeps the whole duration and silences the    *)
(* PWM itself.  The timer callback is scheduled: it runs in the main      *)
(* thread between two statements of tone() or during its sleeps.  Time    *)
(* is counted in model milliseconds; `sounding` is duty # 0.              *)
(***************************************************************************)
EXTENDS Naturals

CONSTANTS
    Lead,        \* the 15 of "time.sleep_ms(duration - 15)"
    InitPeriod,  \* the period=10 the constructor arms the timer with
    Durations    \* the durations tone() and sing() are called with

ASSUME LeadAssumption == Lead \in Nat
ASSUME InitPeriodAssumption == InitPeriod \in Nat \ {0}
ASSUME DurationsAssumption == Durations \subseteq Nat \ {0} /\ Durations # {}

\* Ghost ages saturate one past the longest interval a property compares.
MaxDur == CHOOSE d \in Durations \cup {InitPeriod} :
              \A e \in Durations \cup {InitPeriod} : e <= d
AgeCap == MaxDur + 1

VARIABLES
    sounding,   \* the PWM duty is not 0
    tRun,       \* the one-shot timer is running (isrunning())
    tPeriod,    \* its period
    tElapsed,   \* ms since it was started
    pc,         \* where the application is: "idle", or inside tone()
    dur,        \* the duration argument of the tone() in progress
    timed,      \* its timer argument
    sleepLeft,  \* ms left of the time.sleep_ms() in progress
    noteAge,    \* ghost: ms since the last pwm.init started a note
    noteDur     \* ghost: the duration asked for that note

vars == <<sounding, tRun, tPeriod, tElapsed, pc, dur, timed, sleepLeft,
          noteAge, noteDur>>

appVars == <<pc, dur, timed, sleepLeft>>
timerVars == <<tRun, tPeriod, tElapsed>>

\* Speaker.__init__ (lines 19-25): duty 0, the timer armed with period 10.
Init ==
    /\ sounding = FALSE
    /\ tRun = TRUE /\ tPeriod = InitPeriod /\ tElapsed = 0
    /\ pc = "idle" /\ dur = InitPeriod /\ timed = TRUE /\ sleepLeft = 0
    /\ noteAge = AgeCap /\ noteDur = InitPeriod

\* The timer is due: the scheduled callback must run before time goes on.
Due == tRun /\ tElapsed >= tPeriod

\* One millisecond passes: the timer and the sleep in progress advance.
Tick ==
    /\ ~Due
    /\ tElapsed' = IF tRun THEN tElapsed + 1 ELSE tElapsed
    /\ sleepLeft' = IF sleepLeft > 0 THEN sleepLeft - 1 ELSE 0
    /\ noteAge' = IF noteAge < AgeCap THEN noteAge + 1 ELSE AgeCap
    /\ UNCHANGED <<sounding, tRun, tPeriod, pc, dur, timed, noteDur>>

\* _timeout_cb (lines 27-31): duty(0), sleep 1 ms, freq(1), stop().
TimeoutCb ==
    /\ Due
    /\ sounding' = FALSE
    /\ tRun' = FALSE
    /\ UNCHANGED <<tPeriod, tElapsed, pc, dur, timed, sleepLeft, noteAge,
                   noteDur>>

\* Lines 33-38 (and sing, lines 52-53): pwm.init(freq, duty) starts the
\* note; duration = max(0, duration).
Tone ==
    /\ pc = "idle"
    /\ \E d \in Durations, t \in BOOLEAN :
         /\ dur' = d /\ timed' = t
         /\ noteDur' = d
         /\ pc' = IF t THEN "arm" ELSE "sleepAll"
         /\ sleepLeft' = IF t THEN 0 ELSE d
    /\ sounding' = TRUE
    /\ noteAge' = 0
    /\ UNCHANGED timerVars

\* Timer.period(d) on a running timer: whether the driver restarts the
\* count is outside this repository, so both outcomes are allowed.
SetPeriod(d) ==
    /\ tPeriod' = d
    /\ tElapsed' \in {0, tElapsed}
    /\ UNCHANGED tRun

\* Timer.init(period=d, mode=ONE_SHOT, callback=_timeout_cb).
Arm(d) ==
    /\ tRun' = TRUE /\ tPeriod' = d /\ tElapsed' = 0

\* Mutant: the else branch of line 42 is lost, a stopped timer is not armed.
ToneArmNoInit ==
    /\ pc = "arm"
    /\ IF tRun THEN SetPeriod(dur) ELSE UNCHANGED timerVars
    /\ pc' = "sleepLead"
    /\ sleepLeft' = IF dur > Lead THEN dur - Lead ELSE 0
    /\ UNCHANGED <<sounding, dur, timed, noteAge, noteDur>>

\* Mutant: the lead is off by one, tone() sleeps duration - 16 ms.
ToneArmShortSleep ==
    /\ pc = "arm"
    /\ IF tRun THEN SetPeriod(dur) ELSE Arm(dur)
    /\ pc' = "sleepLead"
    /\ sleepLeft' = IF dur > Lead + 1 THEN dur - Lead - 1 ELSE 0
    /\ UNCHANGED <<sounding, dur, timed, noteAge, noteDur>>

\* Lines 39-44: if isrunning() change the period, else arm the timer;
\* then time.sleep_ms(duration - 15), which does not wait when negative.
ToneArm ==
    /\ pc = "arm"
    /\ IF tRun THEN SetPeriod(dur) ELSE Arm(dur)
    /\ pc' = "sleepLead"
    /\ sleepLeft' = IF dur > Lead THEN dur - Lead ELSE 0
    /\ UNCHANGED <<sounding, dur, timed, noteAge, noteDur>>

\* The sleep of line 44 ends and tone() returns.
ToneReturn ==
    /\ pc = "sleepLead" /\ sleepLeft = 0
    /\ pc' = "idle"
    /\ UNCHANGED <<sounding, timerVars, dur, timed, sleepLeft, noteAge,
                   noteDur>>

\* Lines 46-49: after time.sleep_ms(duration), duty(0), 1 ms, freq(1).
ToneSilence ==
    /\ pc = "sleepAll" /\ sleepLeft = 0
    /\ sounding' = FALSE
    /\ pc' = "idle"
    /\ UNCHANGED <<timerVars, dur, timed, sleepLeft, noteAge, noteDur>>

\* The statements of tone() after its start.
ToneStep == ToneArm \/ ToneReturn \/ ToneSilence

Next == Tick \/ TimeoutCb \/ Tone \/ ToneStep

\* Time passes, the interpreter runs tone() to its end and runs a due
\* scheduled callback; the application owes no further call of tone().
Fairness ==
    /\ WF_vars(Tick) /\ WF_vars(TimeoutCb) /\ WF_vars(ToneStep)

Spec == Init /\ [][Next]_vars /\ Fairness

-----------------------------------------------------------------------------
(* A note ends when the program stops playing: once the application calls *)
(* tone()/sing() no more, the speaker eventually falls silent for good,   *)
(* whether the last note was ended by _timeout_cb or by tone() itself,    *)
(* and whichever way Timer.period() treats a running count.               *)
EventuallySilent == <>[](pc = "idle") => <>[](~sounding)

(* No note is cut short: the PWM is silenced only once the note it plays *)
(* has sounded for the duration tone() was asked for.                     *)
NoteLastsDuration ==
    [][sounding /\ ~sounding' => noteAge >= noteDur]_vars

(* A sounding speaker always has its silencer pending: either the one-shot *)
(* timer is running (its _timeout_cb will set duty 0) or tone() has yet   *)
(* to arm it or to silence the PWM itself.  A tone() that returns leaves  *)
(* no note sounding without a running timer, whatever the timer's state   *)
(* when it was called.                                                    *)
SilencerPending == sounding => tRun \/ pc \in {"arm", "sleepAll"}

(* The lead of line 44: when tone(timer=True) returns, the one-shot timer *)
(* it armed has at most Lead ms left to run, so the note ends no more     *)
(* than the 15 ms lead after the call, whichever way Timer.period()       *)
(* treats a running count and whether the timer was running before.       *)
ToneLeadBounded ==
    [][ToneReturn /\ tRun => tPeriod - tElapsed <= Lead]_vars

=============================================================================
