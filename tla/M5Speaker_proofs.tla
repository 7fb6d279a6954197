--------------------------- MODULE M5Speaker_proofs ---------------------------
(***************************************************************************)
(* SilencerPending for every lead, initial period and set of durations.  *)
(* It is inductive as it stands: a note starts only in tone(), which then *)
(* is at "arm" or "sleepAll"; ToneArm leaves the timer running on both of *)
(* its branches; and the timer stops only in _timeout_cb, which silences  *)
(* the PWM in the same step.                                              *)
(***************************************************************************)
EXTENDS M5Speaker, TLAPS

LEMMA InitSilencer == Init => SilencerPending
  BY DEF Init, SilencerPending

LEMMA NextSilencer == SilencerPending /\ [Next]_vars => SilencerPending'
  <1> SUFFICES ASSUME SilencerPending, [Next]_vars PROVE SilencerPending'
    OBVIOUS
  <1>1. CASE Tick
    BY <1>1 DEF Tick, SilencerPending
  <1>2. CASE TimeoutCb
    BY <1>2 DEF TimeoutCb, SilencerPending
  <1>3. CASE Tone
    BY <1>3 DEF Tone, SilencerPending
  <1>4. CASE ToneArm
    <2>1. tRun'
      BY <1>4 DEF ToneArm, SetPeriod, Arm
    <2>2. QED
      BY <2>1 DEF SilencerPending
  <1>5. CASE ToneReturn
    BY <1>5 DEF ToneReturn, SilencerPending, timerVars
  <1>6. CASE ToneSilence
    BY <1>6 DEF ToneSilence, SilencerPending
  <1>7. CASE UNCHANGED vars
    BY <1>7 DEF vars, SilencerPending
  <1>8. QED
    BY <1>1, <1>2, <1>3, <1>4, <1>5, <1>6, <1>7 DEF Next, ToneStep

(* The Speaker never leaves a note sounding with nothing to end it: in  *)
(* every reachable state a sounding PWM has a running one-shot timer or *)
(* a tone() that will arm it or silence the PWM itself.                  *)
THEOREM SilencerPendingHolds == Spec => []SilencerPending
  BY InitSilencer, NextSilencer, PTL DEF Spec

-----------------------------------------------------------------------------
(* ToneLeadBounded.  While tone() sleeps its lead the timer's remaining   *)
(* time and the sleep left shrink together, one ms per Tick; ToneArm     *)
(* starts the sleep at duration - Lead with at most duration to run.      *)

TypeInv ==
    /\ tRun \in BOOLEAN
    /\ tPeriod \in Nat /\ tElapsed \in Nat /\ sleepLeft \in Nat
    /\ dur \in Nat

LeadInv == pc = "sleepLead" /\ tRun => tPeriod - tElapsed <= Lead + sleepLeft

LEMMA InitLead == Init => TypeInv /\ LeadInv
  BY InitPeriodAssumption DEF Init, TypeInv, LeadInv

\* One ms of the sleep and of the timer.
LEMMA TickArith ==
  ASSUME NEW p \in Nat, NEW e \in Nat, NEW l \in Nat, NEW s \in Nat,
         p - e <= l + s
  PROVE  p - (e + 1) <= l + (IF s > 0 THEN s - 1 ELSE 0)
  OBVIOUS

\* The sleep ToneArm starts covers the period it sets, less the lead.
LEMMA ArmArith ==
  ASSUME NEW d \in Nat, NEW l \in Nat, NEW e \in Nat
  PROVE  d - e <= l + (IF d > l THEN d - l ELSE 0)
  OBVIOUS

LEMMA NextLead == TypeInv /\ LeadInv /\ [Next]_vars => (TypeInv /\ LeadInv)'
  <1> SUFFICES ASSUME TypeInv, LeadInv, [Next]_vars PROVE (TypeInv /\ LeadInv)'
    OBVIOUS
  <1>0. Lead \in Nat /\ Durations \subseteq Nat
    BY LeadAssumption, DurationsAssumption
  <1>1. CASE Tick
    <2>1. TypeInv'
      BY <1>1 DEF Tick, TypeInv
    <2>2. LeadInv'
      <3> SUFFICES ASSUME pc' = "sleepLead", tRun' PROVE tPeriod' - tElapsed' <= Lead + sleepLeft'
        BY DEF LeadInv
      <3>1. pc = "sleepLead" /\ tRun /\ tPeriod' = tPeriod
            /\ tElapsed' = tElapsed + 1
            /\ sleepLeft' = IF sleepLeft > 0 THEN sleepLeft - 1 ELSE 0
        BY <1>1 DEF Tick
      <3>2. tPeriod - tElapsed <= Lead + sleepLeft
        BY <3>1 DEF LeadInv
      <3>3. tPeriod \in Nat /\ tElapsed \in Nat /\ sleepLeft \in Nat
        BY DEF TypeInv
      <3>4. QED
        BY ONLY <3>1, <3>2, <3>3, <1>0, TickArith
    <2>3. QED
      BY <2>1, <2>2
  <1>2. CASE TimeoutCb
    BY <1>2 DEF TimeoutCb, TypeInv, LeadInv
  <1>3. CASE Tone
    BY <1>3, <1>0 DEF Tone, TypeInv, LeadInv, timerVars
  <1>4. CASE ToneArm
    <2>1. /\ pc' = "sleepLead" /\ dur' = dur
          /\ sleepLeft' = IF dur > Lead THEN dur - Lead ELSE 0
          /\ tPeriod' = dur /\ tElapsed' \in {0, tElapsed} /\ tRun' \in BOOLEAN
      BY <1>4 DEF ToneArm, SetPeriod, Arm, TypeInv
    <2>2. TypeInv'
      BY <2>1, <1>0 DEF TypeInv
    <2>3. tElapsed' \in Nat /\ dur \in Nat
      BY <2>1 DEF TypeInv
    <2>4. tPeriod' - tElapsed' <= Lead + sleepLeft'
      BY ONLY <2>1, <2>3, <1>0, ArmArith
    <2>5. QED
      BY <2>2, <2>4 DEF LeadInv
  <1>5. CASE ToneReturn
    BY <1>5 DEF ToneReturn, TypeInv, LeadInv, timerVars
  <1>6. CASE ToneSilence
    BY <1>6 DEF ToneSilence, TypeInv, LeadInv, timerVars
  <1>7. CASE UNCHANGED vars
    BY <1>7 DEF vars, TypeInv, LeadInv
  <1>8. QED
    BY <1>1, <1>2, <1>3, <1>4, <1>5, <1>6, <1>7 DEF Next, ToneStep

(* tone(timer=True) returns with at most Lead ms left on the timer that  *)
(* ends its note, for every lead, initial period and set of durations.   *)
THEOREM ToneLeadBoundedHolds == Spec => ToneLeadBounded
  <1>1. Spec => [](TypeInv /\ LeadInv)
    BY InitLead, NextLead, PTL DEF Spec
  <1>2. TypeInv /\ LeadInv => [ToneReturn /\ tRun => tPeriod - tElapsed <= Lead]_vars
    <2> SUFFICES ASSUME TypeInv, LeadInv, ToneReturn, tRun
                 PROVE  tPeriod - tElapsed <= Lead
      BY DEF vars
    <2>1. pc = "sleepLead" /\ sleepLeft = 0
      BY DEF ToneReturn
    <2>2. tPeriod - tElapsed <= Lead + sleepLeft
      BY <2>1 DEF LeadInv
    <2>3. QED
      BY <2>1, <2>2, LeadAssumption DEF TypeInv
  <1>3. QED
    BY <1>1, <1>2, PTL DEF ToneLeadBounded

=============================================================================
