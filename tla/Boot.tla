-------------------------------- MODULE Boot --------------------------------
(***************************************************************************)
(* examples_m5stack/boot.py, run once at every boot: buttons A and C are   *)
(* read live (M5_Button.isPressed, the pin level), the Wi-Fi credentials   *)
(* come from NVS, the connect loop polls the WLAN driver and button C      *)
(* once a second, and the FTP server starts once connected.               *)
(* The environment is the user on the buttons, the OTA partition call and  *)
(* the Wi-Fi driver.  The script's own position is pc.                     *)
(***************************************************************************)
EXTENDS Naturals

VARIABLES
    pc,             \* the statement boot.py executes next
    aPressed,       \* button A is held (pin low)
    cPressed,       \* button C is held
    hasWifiConfig,  \* NVS holds both WIFI_SSID and WIFI_PASSWD
    wDefined,       \* the name w is bound
    connected,      \* w.isconnected() would answer True
    wifiCancelled   \* the script variable wifi_cancelled

vars == <<pc, aPressed, cPressed, hasWifiConfig, wDefined, connected,
          wifiCancelled>>

\* Where the script ends: machine.reset(), normal end, or an exception.
Final == {"reset", "done", "nameError"}

Init ==
    /\ pc = "checkA"
    /\ aPressed \in BOOLEAN
    /\ cPressed \in BOOLEAN
    /\ hasWifiConfig \in BOOLEAN
    /\ wDefined = FALSE
    /\ connected = FALSE
    /\ wifiCancelled = FALSE

\* The user presses or releases A or C at any time.
User ==
    /\ \/ aPressed' = ~aPressed /\ UNCHANGED cPressed
       \/ cPressed' = ~cPressed /\ UNCHANGED aPressed
    /\ UNCHANGED <<pc, hasWifiConfig, wDefined, connected, wifiCancelled>>

\* The station associates with the AP some time after w.connect().
WifiAssociate ==
    /\ wDefined /\ ~connected
    /\ connected' = TRUE
    /\ UNCHANGED <<pc, aPressed, cPressed, hasWifiConfig, wDefined,
                   wifiCancelled>>

\* Lines 13-15: with A held, switch to app0 and reset if that succeeds.
CheckA ==
    /\ pc = "checkA"
    /\ \/ aPressed /\ pc' = "reset"       \* ota.set_bootpart('app0') True
       \/ aPressed /\ pc' = "checkC"      \* set_bootpart failed
       \/ ~aPressed /\ pc' = "checkC"
    /\ UNCHANGED <<aPressed, cPressed, hasWifiConfig, wDefined, connected,
                   wifiCancelled>>

\* Lines 17-22: wifi_cancelled = buttonC.isPressed(); read the NVS config.
CheckC ==
    /\ pc = "checkC"
    /\ wifiCancelled' = cPressed
    /\ pc' = "connect"
    /\ UNCHANGED <<aPressed, cPressed, hasWifiConfig, wDefined, connected>>

\* Lines 24-30: with a config and not cancelled, create w and connect.
Connect ==
    /\ pc = "connect"
    /\ IF hasWifiConfig /\ ~wifiCancelled
       THEN /\ wDefined' = TRUE
            /\ pc' = "wait"
       ELSE /\ UNCHANGED wDefined
            /\ pc' = "ifconfig"
    /\ UNCHANGED <<aPressed, cPressed, hasWifiConfig, connected,
                   wifiCancelled>>

\* Mutant: the loop body runs once, as an if instead of a while.
WaitLoopOnce ==
    /\ pc = "wait"
    /\ IF ~connected /\ ~wifiCancelled
       THEN /\ wifiCancelled' = cPressed
            /\ pc' = "ifconfig"
       ELSE /\ pc' = "ifconfig"
            /\ UNCHANGED wifiCancelled
    /\ UNCHANGED <<aPressed, cPressed, hasWifiConfig, wDefined, connected>>

\* Mutant: the loop condition drops "not w.isconnected()".
WaitLoopIgnoresLink ==
    /\ pc = "wait"
    /\ IF ~wifiCancelled
       THEN /\ wifiCancelled' = cPressed
            /\ UNCHANGED pc
       ELSE /\ pc' = "ifconfig"
            /\ UNCHANGED wifiCancelled
    /\ UNCHANGED <<aPressed, cPressed, hasWifiConfig, wDefined, connected>>

\* Lines 31-33: while not w.isconnected() and not wifi_cancelled: poll C.
WaitLoop ==
    /\ pc = "wait"
    /\ IF ~connected /\ ~wifiCancelled
       THEN /\ wifiCancelled' = cPressed
            /\ UNCHANGED pc
       ELSE /\ pc' = "ifconfig"
            /\ UNCHANGED wifiCancelled
    /\ UNCHANGED <<aPressed, cPressed, hasWifiConfig, wDefined, connected>>

\* Lines 35-40: if not cancelled, w.ifconfig() and start FTP.
Ifconfig ==
    /\ pc = "ifconfig"
    /\ pc' = CASE wifiCancelled -> "done"
               [] ~wDefined     -> "nameError"
               [] OTHER         -> "ftp"
    /\ UNCHANGED <<aPressed, cPressed, hasWifiConfig, wDefined, connected,
                   wifiCancelled>>

\* Line 42: gc.collect(); the script ends.
Finish ==
    /\ pc = "ftp"
    /\ pc' = "done"
    /\ UNCHANGED <<aPressed, cPressed, hasWifiConfig, wDefined, connected,
                   wifiCancelled>>

Next ==
    \/ User \/ WifiAssociate
    \/ CheckA \/ CheckC \/ Connect \/ WaitLoop \/ Ifconfig \/ Finish

Spec == Init /\ [][Next]_vars

\* The script steps of boot.py, which the interpreter keeps executing.
ScriptStep == CheckA \/ CheckC \/ Connect \/ WaitLoop \/ Ifconfig \/ Finish

(* The interpreter runs the script (weak fairness of its steps), and the   *)
(* AP is in range and accepts the stored credentials (weak fairness of     *)
(* association).  The user owes nothing.                                   *)
LiveSpec == Spec /\ WF_vars(ScriptStep) /\ WF_vars(WifiAssociate)

-----------------------------------------------------------------------------
(* The FTP server is started only on a connected station: the script does *)
(* not reach network.ftp.start after leaving the connect loop any other    *)
(* way than by association.                                                *)
FtpOnlyWhenConnected == pc = "ftp" => wDefined /\ connected

(* Boot ends when the AP answers: the connect loop of lines 31-33 leaves   *)
(* once w.isconnected() holds, whatever the user does on button C, and    *)
(* the script then reaches a reset, a normal end or an exception.          *)
BootEnds == <>(pc \in Final)

=============================================================================
