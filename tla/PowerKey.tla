------------------------------ MODULE PowerKey ------------------------------
(***************************************************************************)
(* How the pack turns itself off.  Four parties ask for it: the key (its   *)
(* lock contact VLOCK absent for three seconds), the host (a frame on any  *)
(* of the three channels), a fault or a key that has been off for a minute *)
(* on a silent bus, and nobody takes the request back.  PowerOffCtrl       *)
(* counts down and cuts the supply; the production test, an update and a   *)
(* charge hold the countdown up.                                           *)
(*                                                                         *)
(* One action is one task of the 10 ms pass, in the order of Main.c:       *)
(*        MiscRun and KeyCheck -> ChgCtrl -> CAN and UART -> PowerCtrl     *)
(***************************************************************************)
EXTENDS Integers

CONSTANTS
    KeyDelay,     \* KEY_ON_DELAY, KEY_OFF_DELAY: passes the contact must last
    ComOver,      \* COMOVER_DELAY: passes after which the bus counts as silent
    PreOff,       \* POWER_OFF_REQ_DELAY
    CutDelay,     \* POWER_OFF_DELAY
    KeyTimer,     \* ShutDownTimer of a request by key or vehicle: 100
    PauseTimer,   \* ShutDownTimer set by SleepOrPowerOffPause: 50
    HostTimers,   \* ShutDownTimers the test channels can ask for
    TestTime,     \* TEST_5MIN_TIME
    MaxCommands   \* bound: commands the hosts send

ASSUME DelaysAssumption ==
    /\ KeyDelay \in Nat \ {0} /\ ComOver \in Nat \ {0}
    /\ PreOff \in Nat /\ CutDelay \in Nat /\ KeyTimer \in Nat /\ PauseTimer \in Nat
    /\ HostTimers \subseteq Nat /\ TestTime \in Nat /\ MaxCommands \in Nat

Tasks == {"key", "chg", "host", "power"}

VARIABLES
    task,                  \* the task to run next
    key,                   \* VLOCK_IN()
    pressed, released,     \* pressCount, releaseCount of KeyScan
    asked,                 \* reqPowerOffFlag
    keyOn, powerOff, shutDown,    \* BatStatus.Bits
    shutTimer,             \* ShutDownTimer
    offTimer,              \* PowerOffTimer
    comTimer,              \* ComOverSleepTimer
    fault,                 \* DisDUV, DisUV or a hardware fault
    plugin,                \* BatStatus.Bits.ChgPlugin
    charge,                \* BMS_WORK_CHG, and with Bits.Chg: "charging"
    test, testTimer,       \* factory test mode, TestModeTimer
    upgrading,             \* SlUpgradeTimer > 0
    supply,                \* the front end still feeds the controller
    commands,              \* commands so far
    notice, promised       \* history: passes since powerOff, and the
                           \* shortest delay a request announced

lock    == <<key, pressed, released, asked>>
mode    == <<test, testTimer, upgrading>>
history == <<notice, promised>>
vars    == <<task, lock, keyOn, powerOff, shutDown, shutTimer, offTimer, comTimer,
             fault, plugin, charge, mode, supply, commands, history>>

Least(a, b) == IF a < b THEN a ELSE b

Init ==
    /\ task = "key" /\ key \in BOOLEAN /\ pressed = 0 /\ released = 0
    /\ asked = FALSE /\ keyOn = FALSE /\ powerOff = FALSE /\ shutDown = FALSE
    /\ shutTimer = 0 /\ offTimer = 0 /\ comTimer = 0
    /\ fault \in BOOLEAN /\ plugin = FALSE /\ charge = "no"
    /\ test = FALSE /\ testTimer = 0 /\ upgrading = FALSE
    /\ supply = TRUE /\ commands = 0
    /\ notice = 0 /\ promised = CutDelay

At(now, next) == supply /\ task = now /\ task' = next

-----------------------------------------------------------------------------
(* MiscRun leaves the test mode when its time is over; its counter is set  *)
(* back in the next pass outside the mode.                                 *)
MiscRun ==
    /\ testTimer' = IF ~test THEN 0
                    ELSE IF testTimer > TestTime THEN testTimer ELSE testTimer + 1
    /\ test' = (test /\ testTimer' <= TestTime)

(* KeyScan debounces the contact; both counters saturate.                  *)
KeyScan ==
    /\ key' \in BOOLEAN
    /\ pressed'  = IF ~key' THEN 0 ELSE IF pressed < KeyDelay THEN pressed + 1 ELSE pressed
    /\ released' = IF key' THEN 0 ELSE IF released < KeyDelay THEN released + 1 ELSE released

Heeded == ~test' /\ ~plugin                  \* otherwise key_temp = KEY_NONE

(* A request of the key that comes while powering off has no timer of its  *)
(* own; KeyOn = 0 keeps the countdown running.                             *)
KeyUntouched == keyOn                        \* mutant: KeyOn not taken away
KeyAfterRequest == FALSE
RequestOffAtOnce(timer) ==                   \* mutant: timer not set
    /\ powerOff' = TRUE /\ shutDown' = TRUE /\ shutTimer' = shutTimer
    /\ promised' = Least(promised, timer)
RequestOff(timer) ==
    /\ powerOff' = TRUE /\ shutDown' = TRUE /\ shutTimer' = timer
    /\ promised' = Least(promised, timer)

KeyRequest ==
    IF asked' /\ ~test' /\ ~upgrading
    THEN /\ keyOn' = KeyAfterRequest
         /\ IF powerOff THEN UNCHANGED <<powerOff, shutDown, shutTimer, promised>>
            ELSE RequestOff(KeyTimer)
    ELSE /\ keyOn' = (keyOn \/ (pressed' = KeyDelay /\ Heeded))
         /\ UNCHANGED <<powerOff, shutDown, shutTimer, promised>>

KeyCheck ==
    /\ At("key", "chg")
    /\ MiscRun /\ KeyScan
    /\ asked' = (asked \/ (released' = KeyDelay /\ Heeded))
    /\ KeyRequest
    /\ UNCHANGED <<offTimer, comTimer, fault, plugin, charge, upgrading, supply,
                   commands, notice>>

-----------------------------------------------------------------------------
(* ChgPlugInCheck, by what it concludes of the voltages and currents.  It  *)
(* does nothing while powering off.  A charger recognised by its voltage   *)
(* turns the key on; one still being recognised sets the timer.            *)
ChgPlugInCheck ==
    IF powerOff THEN UNCHANGED <<plugin, keyOn, shutTimer>>
    ELSE \/ UNCHANGED <<plugin, keyOn, shutTimer>>
         \/ ~plugin /\ plugin' \in BOOLEAN /\ shutTimer' = PauseTimer
            /\ keyOn' \in IF plugin' THEN {keyOn, TRUE} ELSE {keyOn}
         \/ plugin /\ plugin' = FALSE /\ UNCHANGED <<keyOn, shutTimer>>

(* The checks of the pass set and clear the faults (a charger clears them  *)
(* too); the charge is stopped in the pass that powers off (MosCtrl).      *)
ChgCtrl ==
    /\ At("chg", "host")
    /\ ChgPlugInCheck
    /\ fault' \in BOOLEAN
    /\ charge' \in {"no", "mode"} \union (IF powerOff THEN {} ELSE {"charging"})
    /\ UNCHANGED <<lock, powerOff, shutDown, offTimer, comTimer, mode, supply,
                   commands, history>>

-----------------------------------------------------------------------------
(* Commands of the hosts.  Every frame on the CAN bus proves it alive.     *)

Command == supply /\ task = "host" /\ commands < MaxCommands /\ commands' = commands + 1
           /\ UNCHANGED <<task, lock, offTimer, plugin, charge, supply, notice>>

(* 0x1c3 and 0x1d1: the vehicle turns the pack off.                        *)
VehicleOff ==
    /\ Command /\ RequestOff(KeyTimer)
    /\ keyOn' = FALSE /\ comTimer' = 0
    /\ UNCHANGED <<fault, mode>>

(* The test frame among packs; the UART (which takes 0 for a delay as      *)
(* well), and the CAN test channel, which also turns the key off.  The     *)
(* last two leave the test mode.                                           *)
TesterOff ==
    /\ Command
    /\ \E timer \in HostTimers : RequestOff(timer)
    /\ \/ UNCHANGED <<keyOn, mode>> /\ comTimer' = 0
       \/ UNCHANGED <<keyOn, comTimer, testTimer, upgrading>> /\ test' = FALSE
       \/ keyOn' = FALSE /\ test' = FALSE /\ UNCHANGED <<comTimer, testTimer, upgrading>>
    /\ UNCHANGED fault

(* COMM_CLEAR_STATUS forgets ShutDown but not PowerOff; the clear command  *)
(* of the vehicle forgets the protections only.                            *)
ClearStatus ==
    /\ Command /\ fault' = FALSE
    /\ \/ shutDown' = FALSE /\ UNCHANGED comTimer
       \/ comTimer' = 0 /\ UNCHANGED shutDown
    /\ UNCHANGED <<keyOn, powerOff, shutTimer, mode, promised>>

(* 0x1c3: the vehicle announces a charger; or the report of another pack   *)
(* says that its key is on.                                                *)
KeyOnByBus ==
    /\ Command /\ keyOn' = TRUE /\ comTimer' \in {comTimer, 0}
    /\ UNCHANGED <<powerOff, shutDown, shutTimer, fault, mode, promised>>

(* The test mode is entered and left; so is an update, by its first frame  *)
(* and by an abort.                                                        *)
ChangeMode ==
    /\ Command
    /\ \/ test' \in BOOLEAN /\ comTimer' \in {comTimer, 0}
          /\ UNCHANGED <<testTimer, upgrading>>
       \/ upgrading' \in BOOLEAN /\ comTimer' = 0 /\ UNCHANGED <<test, testTimer>>
    /\ UNCHANGED <<keyOn, powerOff, shutDown, shutTimer, fault, promised>>

(* COMM_SET_RESET: the controller starts again and forgets every request.  *)
Reset ==
    /\ supply /\ task = "host" /\ commands < MaxCommands
    /\ commands' = commands + 1
    /\ task' = "key" /\ pressed' = 0 /\ released' = 0
    /\ asked' = FALSE /\ keyOn' = FALSE /\ powerOff' = FALSE /\ shutDown' = FALSE
    /\ shutTimer' = 0 /\ offTimer' = 0 /\ comTimer' = 0
    /\ fault' \in BOOLEAN /\ plugin' = FALSE /\ charge' = "no"
    /\ test' = FALSE /\ testTimer' = 0 /\ upgrading' = FALSE
    /\ notice' = 0 /\ promised' = CutDelay
    /\ UNCHANGED <<key, supply>>

(* The hosts have said what they had to; the bus may carry other traffic.  *)
HostsDone ==
    /\ At("host", "power")
    /\ comTimer' \in {comTimer, 0}
    /\ UNCHANGED <<lock, keyOn, powerOff, shutDown, shutTimer, offTimer, fault,
                   plugin, charge, mode, supply, commands, history>>

-----------------------------------------------------------------------------
(* PowerOffCtrl.  A live bus holds the countdown at zero until PowerOff is *)
(* set, and no longer.                                                     *)
BusHoldsAlways == comTimer < ComOver         \* mutant: even when powering off
BusHolds == comTimer < ComOver /\ ~powerOff

EitherCharging == charge # "no"              \* mutant: mode or Bits.Chg
Charging == charge = "charging"

Counted ==
    LET held == IF BusHolds THEN 0 ELSE offTimer
    IN  IF Charging THEN 0 ELSE IF fault \/ ~keyOn THEN held + 1 ELSE held

Suspended == test \/ upgrading

PowerOffCtrl ==
    /\ At("power", "key")
    /\ comTimer' = IF comTimer < ComOver THEN comTimer + 1 ELSE comTimer
    /\ offTimer' = IF Suspended THEN 0 ELSE Counted
    /\ IF Suspended THEN UNCHANGED <<powerOff, shutTimer, supply>>
       ELSE /\ powerOff' = (powerOff \/ offTimer' > PreOff)
            /\ shutTimer' = IF shutTimer > 0 THEN shutTimer - 1 ELSE 0
            /\ supply' = ~ \/ powerOff' /\ offTimer' > PreOff + CutDelay
                           \/ shutDown /\ shutTimer' = 0
    /\ notice' = IF powerOff /\ notice < CutDelay THEN notice + 1 ELSE notice
    /\ UNCHANGED <<lock, keyOn, shutDown, fault, plugin, charge, mode, commands,
                   promised>>

Pass == KeyCheck \/ ChgCtrl \/ HostsDone \/ PowerOffCtrl

Hosts ==
    VehicleOff \/ TesterOff \/ ClearStatus \/ KeyOnByBus \/ ChangeMode \/ Reset

Next == Pass \/ Hosts

Spec == Init /\ [][Next]_vars

(* The main loop never stops.                                              *)
FairSpec == Spec /\ WF_vars(Pass)

-----------------------------------------------------------------------------
(* Every variable has the type its C declaration gives it.                 *)
TypeOK ==
    /\ task \in Tasks /\ key \in BOOLEAN
    /\ pressed \in 0 .. KeyDelay /\ released \in 0 .. KeyDelay
    /\ {asked, keyOn, powerOff, shutDown, fault, plugin, test, upgrading, supply}
          \subseteq BOOLEAN
    /\ shutTimer \in Nat /\ offTimer \in Nat
    /\ comTimer \in 0 .. ComOver
    /\ charge \in {"no", "mode", "charging"}
    /\ testTimer \in 0 .. TestTime + 1 /\ commands \in 0 .. MaxCommands
    /\ notice \in 0 .. CutDelay /\ promised \in Nat

(* The supply is never cut before the shortest delay that the countdown or *)
(* any request since has announced: the switch control has that many       *)
(* passes to open the FETs first.                                          *)
CutAfterNotice == ~supply => notice >= promised

(* A key that stays off turns the pack off in the end, whatever the hosts  *)
(* said in between (a test mode ends by itself), unless a charger stays    *)
(* plugged in or an update does not end.                                   *)
KeyOffServed == <>[](~key /\ ~plugin /\ ~upgrading) => <>~supply

(* A pack with a lasting fault on a silent bus, with nothing charging it,  *)
(* turns itself off although nobody asks.                                  *)
FaultServed ==
    <>[](fault /\ comTimer = ComOver /\ charge # "charging" /\ ~upgrading) => <>~supply

(* A pack that is powering off gets there, on a live bus as well, as long  *)
(* as some reason keeps coming back.                                       *)
Reason == fault \/ ~keyOn \/ shutDown
PoweringOffEnds ==
    <>[](powerOff /\ ~upgrading) /\ []<>(Reason /\ task = "power") => <>~supply
=============================================================================
