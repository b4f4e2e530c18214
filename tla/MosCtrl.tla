------------------------------ MODULE MosCtrl ------------------------------
(***************************************************************************)
(* The switch control of the pack: which of the charge and discharge FETs  *)
(* are on, and in which order they are turned on.                          *)
(*                                                                         *)
(* The firmware is one endless loop (Main.c) that runs its tasks in a      *)
(* fixed order; every 10 ms each task does its work once.  One action of   *)
(* this module is one task of that pass and `pc' is the task to run next:  *)
(*                                                                         *)
(*   key -> chg -> dis -> bms -> and -> can -> afe -> uart -> power -> key *)
(*                                                                         *)
(* Voltages, currents and temperatures are abstracted to the outcome of    *)
(* the checks made on them (\E over what the check can conclude); every    *)
(* flag those checks feed, and every decision taken from the flags, is     *)
(* modelled.                                                               *)
(***************************************************************************)
EXTENDS Integers

CONSTANTS
    PreDelay,     \* PRE_DIS_DELAY: passes of pre-discharge alone
    Overlap,      \* the 10 passes both discharge switches stay on together
    ResetDelay,   \* the 100 passes a discharge reset lasts
    TimerSpan,    \* number of values of the u8 TimerDisReset
    Allowances,   \* what the parallel control may decide, see Allowance
    AteAllowed    \* may the production tester force the switches?

ASSUME DelaysAssumption ==
    /\ PreDelay \in Nat /\ Overlap \in Nat \ {0}
    /\ ResetDelay \in Nat /\ TimerSpan \in Nat /\ TimerSpan > ResetDelay + 1
ASSUME AteAssumption == AteAllowed \in BOOLEAN

(* MtBmsAllow and Mt_Output, as one pass of the parallel control leaves    *)
(* them.                                                                   *)
Allowance == [dis : BOOLEAN, chg : BOOLEAN, quickDis : BOOLEAN,
              quickChg : BOOLEAN, mtOut : BOOLEAN]
ASSUME AllowancesAssumption == Allowances \subseteq Allowance

Tasks == {"key", "chg", "dis", "bms", "and", "can", "afe", "uart", "power"}

(***************************************************************************)
(* The protection bits, by what they stop: "dis" is any bit of DisProt     *)
(* that only stops discharging; "hard" any bit of HardFault, or DisOC and  *)
(* DisOCL, which stop both directions; "sc" is DisSC, which in addition    *)
(* blocks the quick opening.  When several are set the strongest counts.   *)
(***************************************************************************)
Faults == {"none", "dis", "hard", "sc"}

Modes == {"idle", "dsg", "chg"}

Fets  == {"DSG", "CHG"}

VARIABLES
    pc,
    valid,       \* BatData.Valid
    keyIn,       \* KeyOn and DetIn
    powerOff,    \* BatStatus.Bits.PowerOff
    fct,         \* IS_FCT_FORCE_CTRL()
    fault,       \* the protection bits
    dis, chg,    \* BatStatus.Bits.Dis, Chg
    dsgAble,     \* BatStatus.Bits.DsgAble
    resetFlag, resetTimer,       \* DisResetFlag, TimerDisReset
    mode,                        \* BmsWorkMode
    preStep, preTimer,           \* PreDisStep, PreDisTimer
    pdmos, dmos, cmos,           \* the switch commands
    efet,                        \* the EFET pin
    allow,       \* MtBmsAllow and Mt_Output
    fets,        \* FetCmd as AfeFetCtrl last computed it
    preRun       \* history: passes since pdmos was last off

inputs == <<valid, keyIn, powerOff, fct, fault>>
gates  == <<dis, chg, dsgAble>>
reset  == <<resetFlag, resetTimer>>
seq    == <<mode, preStep, preTimer, pdmos, dmos, cmos, efet, preRun>>
vars   == <<pc, inputs, gates, reset, seq, allow, fets>>

Init ==
    /\ pc = "key"
    /\ valid = FALSE /\ keyIn = FALSE /\ powerOff = FALSE /\ fct = FALSE
    /\ fault \in {"none", "hard"}          \* AfeInit may set AfeErr
    /\ dis = FALSE /\ chg = FALSE /\ dsgAble = FALSE
    /\ resetFlag = FALSE /\ resetTimer = 0
    /\ mode = "idle" /\ preStep = 0 /\ preTimer = 0
    /\ pdmos = FALSE /\ dmos = FALSE /\ cmos = FALSE /\ efet = FALSE
    /\ preRun = 0
    /\ allow = [dis |-> FALSE, chg |-> FALSE, quickDis |-> FALSE,
                quickChg |-> FALSE, mtOut |-> FALSE]
    /\ fets = {}

At(task, next) == pc = task /\ pc' = next

-----------------------------------------------------------------------------
(* One action per task of the pass.                                        *)

(* TaskTickUpdate ends the tester's control when its timer runs out.       *)
(* KeyCheck reads the key and the pack-in signal; a key-off request is     *)
(* acted on outside factory mode only.  BatCheck sets Valid, once, when    *)
(* the last cell has been sampled.                                         *)
KeyCheck ==
    /\ At("key", "chg")
    /\ fct' \in {fct, FALSE}
    /\ valid' \in {valid, TRUE}
    /\ \E off \in BOOLEAN :
          /\ off => ~fct'
          /\ powerOff' = (powerOff \/ off)
          /\ keyIn' \in IF off THEN {FALSE} ELSE BOOLEAN
    /\ UNCHANGED <<fault, gates, reset, seq, allow, fets>>

(* What the charge checks can do to the protection bits: plugging a        *)
(* charger in clears the ones a charge can cure, the checks set others.    *)
(* ChgPlugInCheck does nothing while the pack is powering off.             *)
ChgPlugInCheck ==
    /\ fault' \in IF fault = "sc" THEN {"sc"} ELSE Faults \ {"sc"}
    /\ keyIn' \in IF powerOff THEN {keyIn} ELSE {keyIn, TRUE}

ChgStopsPoweredOnly(chgProt) ==             \* mutant: power-off forgotten
    chgProt \/ fault' \in {"hard", "sc"} \/ ~valid
ChgStopFlag(chgProt) ==
    chgProt \/ fault' \in {"hard", "sc"} \/ powerOff \/ ~valid

ChgStart == chg' = TRUE /\ powerOff' = FALSE
ChgStop  == chg' = FALSE /\ UNCHANGED powerOff

(* chgProt stands for ChgProt and the wait of SocIsOcvWait, preErr for     *)
(* ChgPreCheck.                                                            *)
ChgCtrl ==
    /\ At("chg", "dis")
    /\ ChgPlugInCheck
    /\ \E chgProt, preErr \in BOOLEAN :
          IF fct THEN UNCHANGED <<chg, powerOff>>
          ELSE IF ChgStopFlag(chgProt) THEN ChgStop
          ELSE IF ~chg /\ ~preErr THEN ChgStart
          ELSE UNCHANGED <<chg, powerOff>>
    /\ UNCHANGED <<valid, fct, dis, dsgAble, reset, seq, allow, fets>>

(* The timer is cleared only by a pass that finds the flag already down.   *)
DisClearResetState ==
    IF resetFlag
    THEN /\ resetFlag' = (resetTimer < ResetDelay)
         /\ resetTimer' = (resetTimer + 1) % TimerSpan
    ELSE resetTimer' = 0 /\ UNCHANGED resetFlag

DisStopsPoweredOnly(ocvWait) ==             \* mutant: power-off forgotten
    ~keyIn \/ fault' # "none" \/ ocvWait \/ ~valid
DisStopFlag(ocvWait) ==
    ~keyIn \/ powerOff \/ fault' # "none" \/ ocvWait \/ ~valid

(* DisMosAbleUpdate (module DisMosAble) decides dsgAble from currents and  *)
(* protections that this module does not hold: either value can result.    *)
DisCtrl ==
    /\ At("dis", "bms")
    /\ fault' \in Faults
    /\ dsgAble' \in BOOLEAN
    /\ DisClearResetState
    /\ \E ocvWait, preErr \in BOOLEAN :
          dis' = IF fct THEN dis
                 ELSE IF DisStopFlag(ocvWait) THEN FALSE
                 ELSE dis \/ ~preErr
    /\ UNCHANGED <<valid, keyIn, powerOff, fct, chg, seq, allow, fets>>

(* DisAct: the discharge path may be closed.                               *)
DisAct ==
    /\ ~resetFlag
    /\ \/ (dis \/ dsgAble) /\ allow.dis
       \/ allow.quickDis /\ fault # "sc"

(* The pre-discharge sequence: pre-discharge alone, both, main alone.  A   *)
(* neighbour that already drives the bus makes the first phase pointless.  *)
SeqState(s, t, p, d) == [step |-> s, timer |-> t, pre |-> p, main |-> d]

Phases(first, both) ==
    IF preStep = 0
    THEN LET t == (IF allow.mtOut THEN first ELSE preTimer) + 1
         IN  SeqState(IF t > first THEN 1 ELSE 0, t, TRUE, allow.mtOut)
    ELSE IF preStep = 1
    THEN IF preTimer + 1 > first + both
         THEN SeqState(2, 0, TRUE, TRUE)
         ELSE SeqState(1, preTimer + 1, TRUE, TRUE)
    ELSE SeqState(2, preTimer, FALSE, TRUE)

MainTooEarly == Phases(PreDelay - 1, Overlap)      \* mutant: off by one
PreDischarge == Phases(PreDelay, Overlap)

(* Where the sequence returns to when the path may not be closed.          *)
RestKeepsTimer == SeqState(0, preTimer, FALSE, FALSE)   \* mutants: a
RestKeepsStep  == SeqState(preStep, 0, FALSE, FALSE)    \* missing reset
AtRest         == SeqState(0, 0, FALSE, FALSE)

(* A charging pack keeps its discharge FET on, and the other way round.    *)
ForceDmos == mode' = "chg" /\ chg
CmosWanted ==
    \/ mode' = "dsg" /\ dis
    \/ chg
    \/ (dis \/ chg) /\ allow.quickChg /\ fault # "sc"

BmsMosCheck ==
    LET s == IF DisAct THEN PreDischarge ELSE AtRest
    IN  IF ~valid
        THEN /\ preStep' = 0 /\ preTimer' = 0
             /\ UNCHANGED <<pdmos, dmos, cmos, preRun>>
        ELSE /\ preStep' = s.step /\ preTimer' = s.timer
             /\ pdmos' = s.pre
             /\ dmos' = (s.main \/ ForceDmos)
             /\ cmos' = CmosWanted
             /\ preRun' = IF s.pre THEN preRun + 1 ELSE 0

BmsMosAction == efet' = (dis \/ chg)

BmsCtrl ==
    /\ At("bms", "and")
    /\ mode' \in IF valid THEN Modes ELSE {"idle"}
    /\ BmsMosCheck
    /\ BmsMosAction
    /\ UNCHANGED <<inputs, gates, reset, allow, fets>>

(* A frame of the vehicle controller: power off (the test command leaves   *)
(* the key), reset (broadcast, or addressed to this pack, which does not   *)
(* restart the discharge), or key on.                                      *)
SlCanBmsReceiveProcess ==
    \/ /\ powerOff' = TRUE /\ keyIn' \in {keyIn, FALSE}
       /\ UNCHANGED <<fault, resetFlag>>
    \/ fault' = "none" /\ resetFlag' = TRUE /\ UNCHANGED <<powerOff, keyIn>>
    \/ fault' = "none" /\ UNCHANGED <<powerOff, keyIn, resetFlag>>
    \/ keyIn' \in {keyIn, TRUE} /\ UNCHANGED <<powerOff, fault, resetFlag>>

(* The queue is polled in every turn of the loop, also in those between    *)
(* two ticks, where it is the only task that does anything.                *)
AndCanCtrl ==
    /\ \/ At("and", "can")
       \/ At("key", "key")
    /\ SlCanBmsReceiveProcess
    /\ UNCHANGED <<valid, fct, gates, resetTimer, seq, allow, fets>>

(* MtBmsControlJudge and HandleCompCur: what the parallel packs allow.     *)
(* With the key off nothing is allowed, unless the test rig overrides it.  *)
(* A short circuit cancels the quick opening.                              *)
CanCtrl ==
    /\ At("can", "afe")
    /\ IF powerOff
       THEN UNCHANGED allow
       ELSE /\ allow' \in Allowances
            /\ ~keyIn => allow'.dis = allow'.chg
            /\ fault = "sc" => ~allow'.quickDis /\ ~allow'.quickChg
    /\ UNCHANGED <<inputs, gates, reset, seq, fets>>

(* FetCmd: the switch commands that the parallel control lets through.     *)
FetCmdSwapped == {f \in Fets : \/ f = "DSG" /\ dmos /\ allow.chg     \* mutant
                               \/ f = "CHG" /\ cmos /\ allow.dis}
FetCmd == {f \in Fets : \/ f = "DSG" /\ dmos /\ allow.dis
                        \/ f = "CHG" /\ cmos /\ allow.chg}

(* AfeFetCtrl sends the command; how the write to the front end can fail   *)
(* is the subject of module FetDriver.  Failed scans set AfeErr.           *)
AfeRun ==
    /\ At("afe", "uart")
    /\ fets' = FetCmd
    /\ fault' \in {fault} \cup (IF fault = "sc" THEN {} ELSE {"hard"})
    /\ UNCHANGED <<valid, keyIn, powerOff, fct, gates, reset, seq, allow>>

(* The tester's command forces Dis and Chg, clears every protection but    *)
(* those of the cells, and starts the force-control timer.                 *)
FuncATE ==
    /\ AteAllowed
    /\ fct' = TRUE
    /\ dis' \in BOOLEAN /\ chg' \in BOOLEAN
    /\ fault' \in IF fault = "none" THEN {"none"} ELSE {"none", "dis"}

UartBwCtrl ==
    /\ At("uart", "power")
    /\ \/ UNCHANGED <<fct, dis, chg, fault>>
       \/ FuncATE
    /\ UNCHANGED <<valid, keyIn, powerOff, dsgAble, reset, seq, allow, fets>>

(* PowerOffCtrl, its countdown abstracted: outside factory mode it may ask *)
(* for power off.                                                          *)
PowerCtrl ==
    /\ At("power", "key")
    /\ powerOff' \in IF fct THEN {powerOff} ELSE {powerOff, TRUE}
    /\ UNCHANGED <<valid, keyIn, fct, fault, gates, reset, seq, allow, fets>>

Next ==
    \/ KeyCheck \/ ChgCtrl \/ DisCtrl \/ BmsCtrl \/ AndCanCtrl
    \/ CanCtrl \/ AfeRun \/ UartBwCtrl \/ PowerCtrl

Spec == Init /\ [][Next]_vars

(* The main loop never stops: every task is reached again.                 *)
FairSpec == /\ Spec
            /\ WF_vars(KeyCheck) /\ WF_vars(ChgCtrl) /\ WF_vars(DisCtrl)
            /\ WF_vars(BmsCtrl) /\ WF_vars(AndCanCtrl /\ pc = "and")
            /\ WF_vars(CanCtrl) /\ WF_vars(AfeRun) /\ WF_vars(UartBwCtrl)
            /\ WF_vars(PowerCtrl)

-----------------------------------------------------------------------------
(* Properties.                                                             *)

(* Every variable has the type its C declaration gives it.                 *)
TypeOK ==
    /\ pc \in Tasks
    /\ valid \in BOOLEAN /\ keyIn \in BOOLEAN /\ powerOff \in BOOLEAN
    /\ fct \in BOOLEAN /\ fault \in Faults
    /\ dis \in BOOLEAN /\ chg \in BOOLEAN /\ dsgAble \in BOOLEAN
    /\ resetFlag \in BOOLEAN /\ resetTimer \in 0 .. TimerSpan - 1
    /\ mode \in Modes
    /\ preStep \in 0 .. 2 /\ preTimer \in 0 .. PreDelay + Overlap
    /\ pdmos \in BOOLEAN /\ dmos \in BOOLEAN /\ cmos \in BOOLEAN
    /\ efet \in BOOLEAN /\ preRun \in 0 .. PreDelay + Overlap + 1
    /\ allow \in Allowance /\ fets \subseteq Fets

(* The sequencer: how long the pre-discharge has been on, in each step.    *)
(* The timer runs ahead of it only when a neighbour cut the first phase    *)
(* short, and the pre-discharge resistor is never on for longer than the   *)
(* two phases of the sequence take.                                        *)
PreDischargeBounded ==
    /\ preStep = 0 => preRun = preTimer /\ preTimer =< PreDelay
    /\ preStep = 1 => preRun =< preTimer /\ preTimer > PreDelay
    /\ preRun > 0  => pdmos
    /\ preRun =< PreDelay + Overlap + 1

(* The phases of the sequence and the main FET: past the first phase the   *)
(* main FET is on, except for the one pass between the end of a full first *)
(* phase and the second; nothing starts before the cells were sampled.     *)
SequenceInv ==
    /\ ~valid => preStep = 0 /\ preRun = 0
    /\ preStep = 1 => dmos \/ preRun > PreDelay
    /\ preStep = 2 => dmos

(* BmsMosCheck: the main discharge FET is switched on only after the       *)
(* pre-discharge has run for more than PreDelay passes without a break,    *)
(* unless a neighbour already drives the bus or the pack is charging.      *)
MainAfterPreDischarge ==
    [][~dmos /\ dmos' => preRun > PreDelay \/ allow.mtOut \/ ForceDmos]_vars

(* ChgStart and ChgPlugInCheck clear PowerOff; they are never reached once *)
(* it is set: no handler takes back a power-off.                           *)
PowerOffStays == [][powerOff => powerOff']_vars

(* DisStopFlag and ChgStopFlag: once power-off is asked for, by key, bus   *)
(* or countdown, the EFET pin goes low and stays low, unless the           *)
(* production tester keeps overriding it.                                  *)
PowerOffOpens == <>[]~fct => (powerOff ~> []~efet)

(* A pack that has sampled its cells, stays in the discharge state and is  *)
(* allowed to drive the bus ends with its main discharge FET on and the    *)
(* pre-discharge off.                                                      *)
DriveReached ==
    <>[](valid /\ dis /\ allow.dis /\ ~resetFlag) => <>[]("DSG" \in fets /\ ~pdmos)
=============================================================================
