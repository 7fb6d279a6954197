----------------------------- MODULE Boot_proofs -----------------------------
(***************************************************************************)
(* FtpOnlyWhenConnected for every behaviour of boot.py.  The connect loop *)
(* of lines 31-33 is left either by association or by button C, and       *)
(* line 35 tests wifi_cancelled first; what makes the invariant           *)
(* inductive is that w is bound before the loop and never before line 26, *)
(* and that the driver only reports a link once w.connect() has run.      *)
(***************************************************************************)
EXTENDS Boot, TLAPS

TypeInv ==
    /\ pc \in {"checkA", "checkC", "connect", "wait", "ifconfig", "ftp"} \cup Final
    /\ aPressed \in BOOLEAN /\ cPressed \in BOOLEAN
    /\ hasWifiConfig \in BOOLEAN /\ wDefined \in BOOLEAN
    /\ connected \in BOOLEAN /\ wifiCancelled \in BOOLEAN

(* The strengthening: w is unbound until line 26 runs, the link exists    *)
(* only on a bound w, the loop is left uncancelled only when connected,   *)
(* and the loop itself runs on a bound w.                                 *)
IInv ==
    /\ TypeInv
    /\ pc \in {"checkA", "checkC", "connect"} => ~wDefined
    /\ connected => wDefined
    /\ pc = "wait" => wDefined
    /\ pc = "ifconfig" /\ wDefined /\ ~wifiCancelled => connected
    /\ FtpOnlyWhenConnected

LEMMA InitIInv == Init => IInv
  BY DEF Init, IInv, TypeInv, Final, FtpOnlyWhenConnected

LEMMA NextIInv == IInv /\ [Next]_vars => IInv'
  <1> SUFFICES ASSUME IInv, [Next]_vars PROVE IInv'
    OBVIOUS
  <1>1. CASE User
    BY <1>1 DEF User, IInv, TypeInv, FtpOnlyWhenConnected
  <1>2. CASE WifiAssociate
    BY <1>2 DEF WifiAssociate, IInv, TypeInv, FtpOnlyWhenConnected
  <1>3. CASE CheckA
    BY <1>3 DEF CheckA, IInv, TypeInv, Final, FtpOnlyWhenConnected
  <1>4. CASE CheckC
    BY <1>4 DEF CheckC, IInv, TypeInv, FtpOnlyWhenConnected
  <1>5. CASE Connect
    BY <1>5 DEF Connect, IInv, TypeInv, FtpOnlyWhenConnected
  <1>6. CASE WaitLoop
    BY <1>6 DEF WaitLoop, IInv, TypeInv, FtpOnlyWhenConnected
  <1>7. CASE Ifconfig
    BY <1>7 DEF Ifconfig, IInv, TypeInv, Final, FtpOnlyWhenConnected
  <1>8. CASE Finish
    BY <1>8 DEF Finish, IInv, TypeInv, Final, FtpOnlyWhenConnected
  <1>9. CASE UNCHANGED vars
    BY <1>9 DEF vars, IInv, TypeInv, FtpOnlyWhenConnected
  <1>10. QED
    BY <1>1, <1>2, <1>3, <1>4, <1>5, <1>6, <1>7, <1>8, <1>9 DEF Next

(* boot.py starts the FTP server (line 38) only with w bound and the     *)
(* station connected, in every behaviour of the user and the driver.      *)
THEOREM FtpOnlyWhenConnectedHolds == Spec => []FtpOnlyWhenConnected
  <1>1. Spec => []IInv
    BY InitIInv, NextIInv, PTL DEF Spec
  <1>2. IInv => FtpOnlyWhenConnected
    BY DEF IInv
  <1>3. QED
    BY <1>1, <1>2, PTL

=============================================================================
