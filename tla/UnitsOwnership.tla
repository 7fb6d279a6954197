-------------------------- MODULE UnitsOwnership ---------------------------
(***************************************************************************)
(* Who owns a peripheral driver in units.py.  Three module-level          *)
(* registries record the driver last created for a pin:                   *)
(*   class_map['adc']         the ADC on PORTB[1] (ANGLE and Light),      *)
(*   class_map['servo'][pin]  the PWM of a Servo on port[0],              *)
(*   rgb_muti_port{a,b,c}     the Neopixel of an RGB_Multi on a port.     *)
(* A constructor deinitialises the driver its registry records before    *)
(* creating its own and recording it.  Objects are model values; each    *)
(* object creates at most one driver, so a driver is named by its object. *)
(***************************************************************************)
EXTENDS FiniteSets

CONSTANTS
    Objs,   \* the unit objects the application may construct
    None    \* Python None (an empty registry slot, or a missing dict key)

ASSUME ObjsAssumption == IsFiniteSet(Objs) /\ None \notin Objs

\* PORTA, PORTB and PORTC of lines 11-13; their first pins differ.
Ports == {"A", "B", "C"}

VARIABLES
    kind,        \* kind[o]: the class o was built as, "free" before that
    port,        \* port[o]: the port argument of a Servo or RGB_Multi
    hw,          \* hw[o]: o's driver is "none" (not yet made), "live", "dead"
    adcOwner,    \* class_map['adc']
    servoOwner,  \* class_map['servo'], None for a missing key
    rgbOwner     \* rgb_muti_porta, rgb_muti_portb, rgb_muti_portc

vars == <<kind, port, hw, adcOwner, servoOwner, rgbOwner>>

\* After `import units`: nothing is built, every registry is empty.
Init ==
    /\ kind = [o \in Objs |-> "free"]
    /\ port = [o \in Objs |-> "B"]
    /\ hw = [o \in Objs |-> "none"]
    /\ adcOwner = None
    /\ servoOwner = [p \in Ports |-> None]
    /\ rgbOwner = [p \in Ports |-> None]

\* x.deinit() on the driver of the object a registry slot records.
Release(slot) == IF slot = None THEN hw ELSE [hw EXCEPT ![slot] = "dead"]

\* Mutant: Servo.__init__ makes and records nothing in class_map['servo'].
NewServoNoRecord(o, p) ==
    /\ kind[o] = "free"
    /\ kind' = [kind EXCEPT ![o] = "servo"]
    /\ port' = [port EXCEPT ![o] = p]
    /\ hw' = [Release(servoOwner[p]) EXCEPT ![o] = "live"]
    /\ UNCHANGED <<adcOwner, servoOwner, rgbOwner>>

\* Mutant: the constructor forgets to release the recorded driver.
NewAdcNoRelease(o, cls) ==
    /\ kind[o] = "free"
    /\ kind' = [kind EXCEPT ![o] = cls]
    /\ hw' = [hw EXCEPT ![o] = "live"]
    /\ adcOwner' = o
    /\ UNCHANGED <<port, servoOwner, rgbOwner>>

\* The constructors of the ADC units: deinit class_map['adc'] if set, make
\* ADC(PORTB[1]) with 11 dB attenuation, record it.
NewAdc(o, cls) ==
    /\ kind[o] = "free"
    /\ kind' = [kind EXCEPT ![o] = cls]
    /\ hw' = [Release(adcOwner) EXCEPT ![o] = "live"]
    /\ adcOwner' = o
    /\ UNCHANGED <<port, servoOwner, rgbOwner>>

\* ANGLE(): lines 101-109.
NewAngle(o) == NewAdc(o, "angle")

\* Light() (and its alias Earth): lines 277-286; the digital pin it also
\* makes is not registered.
NewLight(o) == NewAdc(o, "light")

\* ANGLE.deinit (lines 111-112): the ADC is released, class_map still
\* records it.  Light has no deinit.
AngleDeinit(o) ==
    /\ kind[o] = "angle"
    /\ hw' = [hw EXCEPT ![o] = "dead"]
    /\ UNCHANGED <<kind, port, adcOwner, servoOwner, rgbOwner>>

\* Servo.__init__ (lines 144-155): deinit class_map['servo'][port[0]] if
\* the key exists, make the PWM, record it.  Servo has no deinit.
NewServo(o, p) ==
    /\ kind[o] = "free"
    /\ kind' = [kind EXCEPT ![o] = "servo"]
    /\ port' = [port EXCEPT ![o] = p]
    /\ hw' = [Release(servoOwner[p]) EXCEPT ![o] = "live"]
    /\ servoOwner' = [servoOwner EXCEPT ![p] = o]
    /\ UNCHANGED <<adcOwner, rgbOwner>>

\* RGB_Multi.__init__ (lines 183-204): deinit the port's global if set,
\* make the Neopixel, show it, record it in the port's global.
NewRgb(o, p) ==
    /\ kind[o] = "free"
    /\ kind' = [kind EXCEPT ![o] = "rgb"]
    /\ port' = [port EXCEPT ![o] = p]
    /\ hw' = [Release(rgbOwner[p]) EXCEPT ![o] = "live"]
    /\ rgbOwner' = [rgbOwner EXCEPT ![p] = o]
    /\ UNCHANGED <<adcOwner, servoOwner>>

\* RGB_Multi.deinit (lines 230-238): release its own Neopixel and set the
\* port's global to None, whichever object that global records.
RgbDeinit(o) ==
    /\ kind[o] = "rgb"
    /\ hw' = [hw EXCEPT ![o] = "dead"]
    /\ rgbOwner' = [rgbOwner EXCEPT ![port[o]] = None]
    /\ UNCHANGED <<kind, port, adcOwner, servoOwner>>

Next ==
    \E o \in Objs :
        \/ NewAngle(o) \/ NewLight(o)
        \/ AngleDeinit(o)
        \/ \E p \in Ports : NewServo(o, p) \/ NewRgb(o, p)
        \/ RgbDeinit(o)

Spec == Init /\ [][Next]_vars

-----------------------------------------------------------------------------
\* The objects whose live driver sits on the ADC pin, on a servo port, on
\* a Neopixel port.
LiveAdc == {o \in Objs : kind[o] \in {"angle", "light"} /\ hw[o] = "live"}
LiveOn(cls, p) == {o \in Objs : kind[o] = cls /\ port[o] = p /\ hw[o] = "live"}

(* The ADC and servo registries are current: every live ADC or servo PWM  *)
(* is the one class_map records for its pin, so the next ANGLE, Light or  *)
(* Servo on that pin releases it and at most one driver holds the pin,    *)
(* after any sequence of constructions and ANGLE.deinit calls.            *)
RegistryCurrent ==
    /\ \A o \in LiveAdc : adcOwner = o
    /\ \A p \in Ports : \A o \in LiveOn("servo", p) : servoOwner[p] = o

(* The RGB_Multi globals are current in the same sense: every live        *)
(* Neopixel is the one its port's global records, so constructing a new   *)
(* RGB_Multi on a port never leaves two drivers on its pin.               *)
RgbRegistryCurrent ==
    \A p \in Ports : \A o \in LiveOn("rgb", p) : rgbOwner[p] = o

-----------------------------------------------------------------------------
\* The registered pins: the ADC pin PORTB[1] and the first pin of a port.
AbsPins == {"adc"} \cup Ports

\* The objects constructed on a registered pin.
Registered == {o \in Objs : kind[o] \in {"angle", "light", "servo"}}

Abs == INSTANCE PinOwnership
         WITH Pins <- AbsPins,
              holders <- [pin \in AbsPins |->
                            IF pin = "adc" THEN LiveAdc ELSE LiveOn("servo", pin)],
              used <- Registered

(* The ADC and servo registries implement exclusive pin ownership: each  *)
(* ANGLE(), Light() or Servo() leaves its own driver the only live one on *)
(* its pin, ANGLE.deinit() gives the pin up, and no constructor or deinit *)
(* ends a driver on another pin or revives one (RGB_Multi is a stutter).  *)
PinOwnershipSpec == Abs!Spec

=============================================================================
