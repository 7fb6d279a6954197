------------------------ MODULE UnitsOwnership_proofs ------------------------
(***************************************************************************)
(* RegistryCurrent for every set of objects: class_map records the one    *)
(* live ADC and, for each port, the one live servo PWM.  A constructor    *)
(* releases the driver its registry records and records its own; by the   *)
(* invariant every other live driver of that pin is the one released.     *)
(***************************************************************************)
EXTENDS UnitsOwnership, TLAPS

USE ObjsAssumption

Kinds == {"free", "angle", "light", "servo", "rgb"}
Slot == Objs \cup {None}

TypeInv ==
    /\ kind \in [Objs -> Kinds]
    /\ port \in [Objs -> Ports]
    /\ hw \in [Objs -> {"none", "live", "dead"}]
    /\ adcOwner \in Slot
    /\ servoOwner \in [Ports -> Slot]
    /\ rgbOwner \in [Ports -> Slot]

(* An object not yet constructed holds no driver.                         *)
FreeNotLive == \A o \in Objs : kind[o] = "free" => hw[o] = "none"

(* A registry slot records an object of its own class, and the servo      *)
(* class_map records for a port was built on that port.                  *)
OwnersBuilt ==
    /\ adcOwner # None => kind[adcOwner] \in {"angle", "light"}
    /\ \A p \in Ports : servoOwner[p] # None =>
                         kind[servoOwner[p]] = "servo" /\ port[servoOwner[p]] = p
    /\ \A p \in Ports : rgbOwner[p] # None => kind[rgbOwner[p]] = "rgb"

IInv == TypeInv /\ FreeNotLive /\ OwnersBuilt /\ RegistryCurrent

LEMMA InitIInv == Init => IInv
  <1> SUFFICES ASSUME Init PROVE IInv
    OBVIOUS
  <1> USE DEF Init
  <1>1. TypeInv
    BY DEF TypeInv, Ports, Slot, Kinds
  <1>2. FreeNotLive
    BY DEF FreeNotLive
  <1>3. OwnersBuilt
    BY DEF OwnersBuilt
  <1>4. RegistryCurrent
    BY DEF RegistryCurrent, LiveAdc, LiveOn
  <1>5. QED
    BY <1>1, <1>2, <1>3, <1>4 DEF IInv

\* Release only turns a driver dead.
LEMMA ReleaseShape ==
  ASSUME TypeInv, NEW s \in Slot
  PROVE  /\ Release(s) \in [Objs -> {"none", "live", "dead"}]
         /\ \A q \in Objs : Release(s)[q] = "live" => hw[q] = "live" /\ q # s
         /\ \A q \in Objs : q # s => Release(s)[q] = hw[q]
  BY DEF Release, TypeInv, Slot

LEMMA NextIInv == IInv /\ [Next]_vars => IInv'
  <1> SUFFICES ASSUME IInv, [Next]_vars PROVE IInv'
    OBVIOUS
  <1> USE DEF IInv, TypeInv, FreeNotLive, OwnersBuilt, RegistryCurrent,
              LiveAdc, LiveOn
  <1>1. ASSUME NEW o \in Objs, NEW cls \in {"angle", "light"}, NEW
        p \in Ports, NewAdc(o, cls) PROVE IInv'
    <2>1. /\ kind' = [kind EXCEPT ![o] = cls]
          /\ hw' = [Release(adcOwner) EXCEPT ![o] = "live"]
          /\ adcOwner' = o
          /\ UNCHANGED <<port, servoOwner, rgbOwner>>
          /\ kind[o] = "free"
      BY <1>1 DEF NewAdc
    <2>2. \A q \in Objs : Release(adcOwner)[q] = "live" =>
                            hw[q] = "live" /\ q # adcOwner
      BY ReleaseShape
    <2>3. Release(adcOwner) \in [Objs -> {"none", "live", "dead"}]
      BY ReleaseShape
    <2>9. \A q \in Objs : q # adcOwner => Release(adcOwner)[q] = hw[q]
      BY ReleaseShape
    <2>4. TypeInv'
      BY <2>1, <2>3 DEF Slot, Kinds, Ports
    <2>5. FreeNotLive' /\ OwnersBuilt'
      <3>1. FreeNotLive'
        BY <2>1, <2>9
      <3>2. OwnersBuilt'
        <4>1. adcOwner' # None => kind'[adcOwner'] \in {"angle", "light"}
          BY <2>1
        <4>2. \A pp \in Ports : servoOwner'[pp] # None =>
                                  /\ kind'[servoOwner'[pp]] = "servo"
                                  /\ port'[servoOwner'[pp]] = pp
          BY <2>1
        <4>3. \A pp \in Ports : rgbOwner'[pp] # None =>
                                  kind'[rgbOwner'[pp]] = "rgb"
          BY <2>1
        <4>4. QED
          BY <4>1, <4>2, <4>3
      <3>3. QED
        BY <3>1, <3>2
    <2>6. \A q \in LiveAdc' : adcOwner' = q
      BY <2>1, <2>2
    <2>7. \A pp \in Ports : \A q \in LiveOn("servo", pp)' : servoOwner'[pp] = q
      BY <2>1, <2>2
    <2>8. QED
      BY <2>4, <2>5, <2>6, <2>7
  <1>2. ASSUME NEW o \in Objs, AngleDeinit(o) PROVE IInv'
    <2>1. /\ hw' = [hw EXCEPT ![o] = "dead"]
          /\ UNCHANGED <<kind, port, adcOwner, servoOwner, rgbOwner>>
          /\ kind[o] = "angle"
      BY <1>2 DEF AngleDeinit
    <2>2. QED
      BY <2>1
  <1>3. ASSUME NEW o \in Objs, NEW p \in Ports, NewServo(o, p) PROVE IInv'
    <2>1. /\ kind' = [kind EXCEPT ![o] = "servo"]
          /\ port' = [port EXCEPT ![o] = p]
          /\ hw' = [Release(servoOwner[p]) EXCEPT ![o] = "live"]
          /\ servoOwner' = [servoOwner EXCEPT ![p] = o]
          /\ UNCHANGED <<adcOwner, rgbOwner>>
          /\ kind[o] = "free"
      BY <1>3 DEF NewServo
    <2>2. \A q \in Objs : Release(servoOwner[p])[q] = "live" =>
                            hw[q] = "live" /\ q # servoOwner[p]
      BY ReleaseShape
    <2>3. Release(servoOwner[p]) \in [Objs -> {"none", "live", "dead"}]
      BY ReleaseShape
    <2>9. \A q \in Objs : q # servoOwner[p] => Release(servoOwner[p])[q] = hw[q]
      BY ReleaseShape
    <2>4. TypeInv'
      BY <2>1, <2>3 DEF Slot, Kinds, Ports
    <2>5. FreeNotLive' /\ OwnersBuilt'
      <3>1. FreeNotLive'
        BY <2>1, <2>9
      <3>2. OwnersBuilt'
        <4>1. adcOwner' # None => kind'[adcOwner'] \in {"angle", "light"}
          BY <2>1
        <4>2. \A pp \in Ports : servoOwner'[pp] # None =>
                                  /\ kind'[servoOwner'[pp]] = "servo"
                                  /\ port'[servoOwner'[pp]] = pp
          BY <2>1
        <4>3. \A pp \in Ports : rgbOwner'[pp] # None =>
                                  kind'[rgbOwner'[pp]] = "rgb"
          BY <2>1
        <4>4. QED
          BY <4>1, <4>2, <4>3
      <3>3. QED
        BY <3>1, <3>2
    <2>6. \A q \in LiveAdc' : adcOwner' = q
      BY <2>1, <2>2
    <2>7. \A pp \in Ports : \A q \in LiveOn("servo", pp)' : servoOwner'[pp] = q
      BY <2>1, <2>2
    <2>8. QED
      BY <2>4, <2>5, <2>6, <2>7
  <1>4. ASSUME NEW o \in Objs, NEW p \in Ports, NewRgb(o, p) PROVE IInv'
    <2>1. /\ kind' = [kind EXCEPT ![o] = "rgb"]
          /\ port' = [port EXCEPT ![o] = p]
          /\ hw' = [Release(rgbOwner[p]) EXCEPT ![o] = "live"]
          /\ rgbOwner' = [rgbOwner EXCEPT ![p] = o]
          /\ UNCHANGED <<adcOwner, servoOwner>>
          /\ kind[o] = "free"
      BY <1>4 DEF NewRgb
    <2>2. \A q \in Objs : Release(rgbOwner[p])[q] = "live" =>
                            hw[q] = "live" /\ q # rgbOwner[p]
      BY ReleaseShape
    <2>3. Release(rgbOwner[p]) \in [Objs -> {"none", "live", "dead"}]
      BY ReleaseShape
    <2>9. \A q \in Objs : q # rgbOwner[p] => Release(rgbOwner[p])[q] = hw[q]
      BY ReleaseShape
    <2>4. TypeInv'
      BY <2>1, <2>3 DEF Slot, Kinds, Ports
    <2>5. FreeNotLive' /\ OwnersBuilt'
      <3>1. FreeNotLive'
        BY <2>1, <2>9
      <3>2. OwnersBuilt'
        <4>1. adcOwner' # None => kind'[adcOwner'] \in {"angle", "light"}
          BY <2>1
        <4>2. \A pp \in Ports : servoOwner'[pp] # None =>
                                  /\ kind'[servoOwner'[pp]] = "servo"
                                  /\ port'[servoOwner'[pp]] = pp
          BY <2>1
        <4>3. \A pp \in Ports : rgbOwner'[pp] # None =>
                                  kind'[rgbOwner'[pp]] = "rgb"
          BY <2>1
        <4>4. QED
          BY <4>1, <4>2, <4>3
      <3>3. QED
        BY <3>1, <3>2
    <2>6. \A q \in LiveAdc' : adcOwner' = q
      BY <2>1, <2>2
    <2>7. \A pp \in Ports : \A q \in LiveOn("servo", pp)' : servoOwner'[pp] = q
      BY <2>1, <2>2
    <2>8. QED
      BY <2>4, <2>5, <2>6, <2>7
  <1>5. ASSUME NEW o \in Objs, RgbDeinit(o) PROVE IInv'
    <2>1. /\ hw' = [hw EXCEPT ![o] = "dead"]
          /\ rgbOwner' = [rgbOwner EXCEPT ![port[o]] = None]
          /\ UNCHANGED <<kind, port, adcOwner, servoOwner>>
          /\ kind[o] = "rgb"
      BY <1>5 DEF RgbDeinit
    <2>2. QED
      BY <2>1 DEF Slot
  <1>6. CASE UNCHANGED vars
    BY <1>6 DEF vars
  <1>7. QED
    BY <1>1, <1>2, <1>3, <1>4, <1>5, <1>6 DEF Next, NewAngle, NewLight

(* After any sequence of ANGLE(), Light(), ANGLE.deinit(), Servo(),      *)
(* RGB_Multi() and RGB_Multi.deinit() calls, every live ADC and servo    *)
(* PWM is the one class_map records, whatever the number of objects.     *)
THEOREM RegistryCurrentHolds == Spec => []RegistryCurrent
  <1>1. IInv => RegistryCurrent
    BY DEF IInv
  <1>2. QED
    BY InitIInv, NextIInv, <1>1, PTL DEF Spec

-----------------------------------------------------------------------------
(* The refinement.  The abstract holders of a pin are the objects whose   *)
(* live driver sits on it; a constructor of a registered class is a Take, *)
(* ANGLE.deinit of a live ADC a Drop, and everything else a stutter.      *)

AbsHolders == [pin \in AbsPins |->
                 IF pin = "adc" THEN LiveAdc ELSE LiveOn("servo", pin)]

LEMMA InitRefines == Init => Abs!Init
  <1> SUFFICES ASSUME Init PROVE Abs!Init
    OBVIOUS
  <1>1. LiveAdc = {} /\ \A p \in Ports : LiveOn("servo", p) = {}
    BY DEF Init, LiveAdc, LiveOn
  <1>2. Registered = {}
    BY DEF Init, Registered
  <1>3. QED
    BY <1>1, <1>2 DEF Abs!Init, AbsPins

\* The mapped holders change at pin0 alone.
LEMMA HoldersUpdate ==
  ASSUME NEW pin0 \in AbsPins, NEW S,
         AbsHolders'[pin0] = S,
         \A pin \in AbsPins \ {pin0} : AbsHolders'[pin] = AbsHolders[pin]
  PROVE  AbsHolders' = [AbsHolders EXCEPT ![pin0] = S]
  BY DEF AbsHolders

\* A step that keeps every pin's live drivers and the registered objects
\* maps to a stutter.
LEMMA AbsUnchanged ==
  ASSUME LiveAdc' = LiveAdc,
         \A p \in Ports : LiveOn("servo", p)' = LiveOn("servo", p),
         Registered' = Registered
  PROVE  UNCHANGED Abs!vars
  <1>1. AbsHolders' = AbsHolders
    BY DEF AbsHolders, AbsPins
  <1>2. QED
    BY <1>1, Zenon DEF Abs!vars, AbsHolders

LEMMA NextRefines == IInv /\ [Next]_vars => [Abs!Next]_Abs!vars
  <1> SUFFICES ASSUME IInv, [Next]_vars PROVE [Abs!Next]_Abs!vars
    OBVIOUS
  <1>0. IInv'
    BY NextIInv
  <1> USE DEF IInv
  <1>1. ASSUME NEW o \in Objs, NEW cls \in {"angle", "light"}, NewAdc(o, cls)
        PROVE  Abs!Take(o, "adc")
    <2>1. /\ kind' = [kind EXCEPT ![o] = cls]
          /\ hw' = [Release(adcOwner) EXCEPT ![o] = "live"]
          /\ adcOwner' = o
          /\ UNCHANGED <<port, servoOwner, rgbOwner>>
          /\ kind[o] = "free"
      BY <1>1 DEF NewAdc
    <2>2. \A q \in Objs : Release(adcOwner)[q] = "live" =>
                            hw[q] = "live" /\ q # adcOwner
      BY ReleaseShape DEF Slot, TypeInv
    <2>3. \A q \in Objs : q # adcOwner => Release(adcOwner)[q] = hw[q]
      BY ReleaseShape DEF Slot, TypeInv
    <2>4. o \notin Registered /\ Registered' = Registered \cup {o}
      BY <2>1 DEF Registered, TypeInv
    <2>5. LiveAdc' = {o}
      <3>1. o \in LiveAdc'
        BY <2>1, ReleaseShape DEF LiveAdc, TypeInv, Slot
      <3>2. ASSUME NEW q \in LiveAdc' PROVE q = o
        <4>1. CASE q # o
          <5>1. q \in Objs /\ kind[q] \in {"angle", "light"}
            BY <2>1, <3>2, <4>1 DEF LiveAdc, TypeInv
          <5>2. hw[q] = "live" /\ q # adcOwner
            BY <2>1, <2>2, <3>2, <4>1, <5>1 DEF LiveAdc, TypeInv
          <5>3. QED
            BY <5>1, <5>2 DEF LiveAdc, RegistryCurrent
        <4>2. QED
          BY <4>1
      <3>3. QED
        BY <3>1, <3>2 DEF LiveAdc
    <2>6. \A p \in Ports : LiveOn("servo", p)' = LiveOn("servo", p)
      BY <2>1, <2>3 DEF LiveOn, OwnersBuilt, TypeInv
    <2>7. AbsHolders' = [AbsHolders EXCEPT !["adc"] = {o}]
      <3>1. "adc" \in AbsPins /\ AbsHolders'["adc"] = {o}
        BY <2>5 DEF AbsHolders, AbsPins
      <3>2. \A pin \in AbsPins \ {"adc"} : AbsHolders'[pin] = AbsHolders[pin]
        BY <2>6 DEF AbsHolders, AbsPins
      <3>3. QED
        BY <3>1, <3>2, HoldersUpdate
    <2>8. QED
      BY <2>4, <2>7 DEF Abs!Take, AbsHolders
  <1>2. ASSUME NEW o \in Objs, AngleDeinit(o) PROVE [Abs!Next]_Abs!vars
    <2>1. /\ hw' = [hw EXCEPT ![o] = "dead"]
          /\ UNCHANGED <<kind, port, adcOwner, servoOwner, rgbOwner>>
          /\ kind[o] = "angle"
      BY <1>2 DEF AngleDeinit
    <2>2. LiveAdc' = LiveAdc \ {o} /\ Registered' = Registered
      BY <2>1 DEF LiveAdc, Registered, TypeInv
    <2>3. \A p \in Ports : LiveOn("servo", p)' = LiveOn("servo", p)
      BY <2>1 DEF LiveOn, TypeInv
    <2>4. CASE o \in LiveAdc
      <3>1. AbsHolders' = [AbsHolders EXCEPT !["adc"] = @ \ {o}]
        <4>1. "adc" \in AbsPins /\ AbsHolders'["adc"] = AbsHolders["adc"] \ {o}
          BY <2>2 DEF AbsHolders, AbsPins
        <4>2. \A pin \in AbsPins \ {"adc"} : AbsHolders'[pin] = AbsHolders[pin]
          BY <2>3 DEF AbsHolders, AbsPins
        <4>3. QED
          BY <4>1, <4>2, HoldersUpdate
      <3>2. Abs!Drop(o, "adc")
        BY <2>2, <2>4, <3>1 DEF Abs!Drop, AbsHolders, AbsPins
      <3>3. QED
        BY <3>2 DEF Abs!Next, AbsPins
    <2>5. CASE o \notin LiveAdc
      BY <2>2, <2>3, <2>5, AbsUnchanged
    <2>6. QED
      BY <2>4, <2>5
  <1>3. ASSUME NEW o \in Objs, NEW p \in Ports, NewServo(o, p)
        PROVE  Abs!Take(o, p)
    <2>1. /\ kind' = [kind EXCEPT ![o] = "servo"]
          /\ port' = [port EXCEPT ![o] = p]
          /\ hw' = [Release(servoOwner[p]) EXCEPT ![o] = "live"]
          /\ servoOwner' = [servoOwner EXCEPT ![p] = o]
          /\ UNCHANGED <<adcOwner, rgbOwner>>
          /\ kind[o] = "free"
      BY <1>3 DEF NewServo
    <2>2. \A q \in Objs : Release(servoOwner[p])[q] = "live" =>
                            hw[q] = "live" /\ q # servoOwner[p]
      BY ReleaseShape DEF Slot, TypeInv
    <2>3. \A q \in Objs : q # servoOwner[p] => Release(servoOwner[p])[q] = hw[q]
      BY ReleaseShape DEF Slot, TypeInv
    <2>4. o \notin Registered /\ Registered' = Registered \cup {o}
      BY <2>1 DEF Registered, TypeInv
    <2>5. LiveOn("servo", p)' = {o}
      <3>1. o \in LiveOn("servo", p)'
        BY <2>1, ReleaseShape DEF LiveOn, TypeInv, Slot
      <3>2. ASSUME NEW q \in LiveOn("servo", p)' PROVE q = o
        <4>1. CASE q # o
          <5>1. q \in Objs /\ kind[q] = "servo" /\ port[q] = p
            BY <2>1, <3>2, <4>1 DEF LiveOn, TypeInv
          <5>2. hw[q] = "live" /\ q # servoOwner[p]
            BY <2>1, <2>2, <3>2, <4>1, <5>1 DEF LiveOn, TypeInv
          <5>3. QED
            BY <5>1, <5>2 DEF LiveOn, RegistryCurrent
        <4>2. QED
          BY <4>1
      <3>3. QED
        BY <3>1, <3>2 DEF LiveOn
    <2>6. \A pp \in Ports \ {p} : LiveOn("servo", pp)' = LiveOn("servo", pp)
      <3>1. \A q \in Objs : q = servoOwner[p] => port[q] = p
        BY DEF OwnersBuilt, TypeInv
      <3>2. QED
        BY <2>1, <2>3, <3>1 DEF LiveOn, OwnersBuilt, TypeInv
    <2>7. LiveAdc' = LiveAdc
      BY <2>1, <2>3 DEF LiveAdc, OwnersBuilt, TypeInv
    <2>8. AbsHolders' = [AbsHolders EXCEPT ![p] = {o}]
      <3>1. p \in AbsPins /\ AbsHolders'[p] = {o}
        BY <2>5 DEF AbsHolders, AbsPins, Ports
      <3>2. \A pin \in AbsPins \ {p} : AbsHolders'[pin] = AbsHolders[pin]
        BY <2>6, <2>7 DEF AbsHolders, AbsPins
      <3>3. QED
        BY <3>1, <3>2, HoldersUpdate
    <2>9. QED
      BY <2>4, <2>8 DEF Abs!Take, AbsHolders
  <1>4. ASSUME NEW o \in Objs, NEW p \in Ports, NewRgb(o, p)
        PROVE  UNCHANGED Abs!vars
    <2>1. /\ kind' = [kind EXCEPT ![o] = "rgb"]
          /\ port' = [port EXCEPT ![o] = p]
          /\ hw' = [Release(rgbOwner[p]) EXCEPT ![o] = "live"]
          /\ kind[o] = "free"
      BY <1>4 DEF NewRgb
    <2>2. \A q \in Objs : q # rgbOwner[p] => Release(rgbOwner[p])[q] = hw[q]
      BY ReleaseShape DEF Slot, TypeInv
    <2>3. LiveAdc' = LiveAdc /\ Registered' = Registered
      BY <2>1, <2>2 DEF LiveAdc, Registered, OwnersBuilt, TypeInv
    <2>4. \A pp \in Ports : LiveOn("servo", pp)' = LiveOn("servo", pp)
      BY <2>1, <2>2 DEF LiveOn, OwnersBuilt, TypeInv
    <2>5. QED
      BY <2>3, <2>4, AbsUnchanged
  <1>5. ASSUME NEW o \in Objs, RgbDeinit(o) PROVE UNCHANGED Abs!vars
    <2>1. /\ hw' = [hw EXCEPT ![o] = "dead"]
          /\ UNCHANGED <<kind, port>>
          /\ kind[o] = "rgb"
      BY <1>5 DEF RgbDeinit
    <2>2. LiveAdc' = LiveAdc /\ Registered' = Registered
      BY <2>1 DEF LiveAdc, Registered, TypeInv
    <2>3. \A pp \in Ports : LiveOn("servo", pp)' = LiveOn("servo", pp)
      BY <2>1 DEF LiveOn, TypeInv
    <2>4. QED
      BY <2>2, <2>3, AbsUnchanged
  <1>6. CASE UNCHANGED vars
    <2>1. LiveAdc' = LiveAdc /\ Registered' = Registered
      BY <1>6 DEF vars, LiveAdc, Registered
    <2>2. \A pp \in Ports : LiveOn("servo", pp)' = LiveOn("servo", pp)
      BY <1>6 DEF vars, LiveOn
    <2>3. QED
      BY <2>1, <2>2, AbsUnchanged
  <1>7. QED
    <2>1. ASSUME NEW o \in Objs, NEW pin \in AbsPins, Abs!Take(o, pin)
          PROVE  Abs!Next
      BY <2>1 DEF Abs!Next
    <2>2. QED
      BY <1>1, <1>2, <1>3, <1>4, <1>5, <1>6, <2>1
         DEF Next, NewAngle, NewLight, AbsPins

(* units.py implements exclusive pin ownership for the ADC pin and the   *)
(* servo ports: every behaviour of the constructors and deinit methods   *)
(* maps to a behaviour of PinOwnership, for every set of objects.        *)
THEOREM PinOwnershipRefined == Spec => PinOwnershipSpec
  <1>1. Spec => []IInv
    BY InitIInv, NextIInv, PTL DEF Spec
  <1>2. QED
    BY <1>1, InitRefines, NextRefines, PTL DEF Spec, PinOwnershipSpec, Abs!Spec

=============================================================================
