--------------------------- MODULE PinOwnership ----------------------------
(***************************************************************************)
(* What the class_map registries of units.py promise, stated without     *)
(* them: every pin has a set of holders, the objects whose driver is live *)
(* on it.  An object is constructed once; constructing it on a pin makes  *)
(* it the pin's only holder (whoever held the pin loses it), and a holder *)
(* may give its pin up.  Nothing else changes who holds a pin: a driver   *)
(* on one pin is never ended by work on another, and a driver once ended  *)
(* is never live again.                                                   *)
(***************************************************************************)
CONSTANTS
    Objs,  \* the unit objects
    Pins   \* the pins whose drivers are registered

VARIABLES
    holders,  \* holders[pin]: the objects holding a live driver on pin
    used      \* the objects already constructed on one of the Pins

vars == <<holders, used>>

Init ==
    /\ holders = [pin \in Pins |-> {}]
    /\ used = {}

\* A fresh object is constructed on pin and takes it over.
Take(o, pin) ==
    /\ o \notin used
    /\ holders' = [holders EXCEPT ![pin] = {o}]
    /\ used' = used \cup {o}

\* A holder releases its own driver.
Drop(o, pin) ==
    /\ o \in holders[pin]
    /\ holders' = [holders EXCEPT ![pin] = @ \ {o}]
    /\ UNCHANGED used

Next == \E o \in Objs, pin \in Pins : Take(o, pin) \/ Drop(o, pin)

Spec == Init /\ [][Next]_vars

(* Every pin has at most one holder.                                      *)
Exclusive == \A pin \in Pins : \A o1, o2 \in holders[pin] : o1 = o2

=============================================================================
