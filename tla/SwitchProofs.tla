---------------------------- MODULE SwitchProofs ----------------------------
(***************************************************************************)
(* Theorems of MosCtrl, for all delays and all behaviours of the parallel  *)
(* control.  The inductive invariant is the type invariant with the two    *)
(* invariants of the sequencer: PreDischargeBounded ties the history       *)
(* preRun to the timer of the code, SequenceInv ties the step to dmos.     *)
(* Theorems of FetDriver: what the register of the front end can hold,     *)
(* whatever fails.  NoFetUnasked is inductive as it stands.                *)
(***************************************************************************)
EXTENDS MosCtrl, FetDriver, TLAPS

IInv == TypeOK /\ PreDischargeBounded /\ SequenceInv

USE DelaysAssumption, AllowancesAssumption

-----------------------------------------------------------------------------
(* Before the first pass nothing is on and no pre-discharge has run.       *)
LEMMA InitIInv == Init => IInv
  <1> SUFFICES ASSUME Init PROVE IInv
    OBVIOUS
  <1>0. /\ allow \in Allowance /\ fets \subseteq Fets
        /\ resetTimer \in 0 .. TimerSpan - 1
        /\ preTimer \in 0 .. PreDelay + Overlap
        /\ preRun \in 0 .. PreDelay + Overlap + 1
        /\ preStep \in 0 .. 2
        /\ pc \in Tasks /\ fault \in Faults /\ mode \in Modes
    BY DEF Init, Allowance, Tasks, Faults, Modes
  <1>1. TypeOK
    BY <1>0, Zenon DEF Init, TypeOK
  <1>2. PreDischargeBounded /\ SequenceInv
    BY DEF Init, PreDischargeBounded, SequenceInv
  <1> QED BY <1>1, <1>2 DEF IInv

(* A task that leaves the sequencer alone, and may only set valid, keeps   *)
(* both sequencer invariants.                                              *)
LEMMA SeqUntouched ==
    ASSUME PreDischargeBounded, SequenceInv, UNCHANGED seq,
           valid \in BOOLEAN, valid' \in {valid, TRUE}
    PROVE  PreDischargeBounded' /\ SequenceInv'
  BY DEF PreDischargeBounded, SequenceInv, seq

(* BmsCtrl keeps the sequencer invariants.                                 *)
LEMMA BmsCtrlKeepsSequence ==
    ASSUME IInv, BmsCtrl
    PROVE  /\ PreDischargeBounded' /\ SequenceInv'
           /\ preStep' \in 0 .. 2 /\ preTimer' \in 0 .. PreDelay + Overlap
           /\ pdmos' \in BOOLEAN /\ dmos' \in BOOLEAN /\ cmos' \in BOOLEAN
           /\ preRun' \in 0 .. PreDelay + Overlap + 1
  <1> USE DEF IInv, TypeOK, PreDischargeBounded, SequenceInv
  <1>0. UNCHANGED <<valid, allow, dis, chg, fault>> /\ BmsMosCheck
    BY DEF BmsCtrl, inputs, gates
  <1>1. CASE ~valid
    BY <1>0, <1>1 DEF BmsMosCheck
  <1>2. CASE valid /\ ~DisAct
    BY <1>0, <1>2 DEF BmsMosCheck, AtRest, SeqState, ForceDmos, CmosWanted
  <1>3. CASE valid /\ DisAct
    <2>1. /\ preStep' = PreDischarge.step /\ preTimer' = PreDischarge.timer
          /\ pdmos' = PreDischarge.pre
          /\ dmos' = (PreDischarge.main \/ ForceDmos) /\ cmos' = CmosWanted
          /\ preRun' = IF PreDischarge.pre THEN preRun + 1 ELSE 0
      BY <1>0, <1>3 DEF BmsMosCheck
    <2>2. CASE preStep = 0
      BY <1>0, <1>3, <2>1, <2>2
         DEF PreDischarge, Phases, SeqState, ForceDmos, CmosWanted, Allowance
    <2>3. CASE preStep = 1
      BY <1>0, <1>3, <2>1, <2>3
         DEF PreDischarge, Phases, SeqState, ForceDmos, CmosWanted
    <2>4. CASE preStep = 2
      <3>1. /\ PreDischarge.step = 2 /\ PreDischarge.timer = preTimer
            /\ PreDischarge.pre = FALSE /\ PreDischarge.main = TRUE
        BY <2>4 DEF PreDischarge, Phases, SeqState
      <3>2. cmos' \in BOOLEAN
        BY <2>1 DEF CmosWanted
      <3>3. /\ preStep' = 2 /\ preTimer' = preTimer /\ pdmos' = FALSE
            /\ dmos' = TRUE /\ preRun' = 0
        BY <2>1, <3>1
      <3>4. PreDischargeBounded' /\ preRun' \in 0 .. PreDelay + Overlap + 1
        BY <3>3
      <3>5. SequenceInv'
        BY <1>0, <1>3, <3>3
      <3>6. /\ preStep' \in 0 .. 2 /\ preTimer' \in 0 .. PreDelay + Overlap
        BY <3>3
      <3>7. pdmos' \in BOOLEAN /\ dmos' \in BOOLEAN
        BY <3>3, Zenon
      <3> QED BY <3>2, <3>4, <3>5, <3>6, <3>7
    <2> QED BY <2>2, <2>3, <2>4
  <1> QED BY <1>1, <1>2, <1>3

(* The step lemma: every task of the pass keeps the inductive invariant.   *)
LEMMA NextIInv == IInv /\ [Next]_vars => IInv'
  <1> SUFFICES ASSUME IInv, [Next]_vars PROVE IInv'
    OBVIOUS
  <1> USE DEF IInv
  <1>1. CASE KeyCheck
    <2>0. /\ valid' \in BOOLEAN /\ fct' \in BOOLEAN
          /\ powerOff' \in BOOLEAN /\ keyIn' \in BOOLEAN
      BY <1>1 DEF KeyCheck, TypeOK
    <2>1. TypeOK'
      BY <1>1, <2>0 DEF KeyCheck, At, TypeOK, Tasks, gates, reset, seq
    <2>2. UNCHANGED seq /\ valid' \in {valid, TRUE} /\ valid \in BOOLEAN
      BY <1>1 DEF KeyCheck, TypeOK
    <2> QED BY <2>1, <2>2, SeqUntouched
  <1>2. CASE ChgCtrl
    <2>0. /\ fault' \in Faults /\ keyIn' \in BOOLEAN
          /\ chg' \in BOOLEAN /\ powerOff' \in BOOLEAN
      BY <1>2 DEF ChgCtrl, ChgPlugInCheck, ChgStart, ChgStop, TypeOK, Faults
    <2>1. TypeOK'
      BY <1>2, <2>0 DEF ChgCtrl, At, TypeOK, Tasks, reset, seq
    <2>2. UNCHANGED <<seq, valid>> /\ valid \in BOOLEAN
      BY <1>2 DEF ChgCtrl, TypeOK
    <2> QED BY <2>1, <2>2, SeqUntouched
  <1>3. CASE DisCtrl
    <2>1. resetFlag' \in BOOLEAN /\ resetTimer' \in 0 .. TimerSpan - 1
      <3>1. CASE resetFlag
        <4>1. /\ resetFlag' = (resetTimer < ResetDelay)
              /\ resetTimer' = (resetTimer + 1) % TimerSpan
          BY <1>3, <3>1 DEF DisCtrl, DisClearResetState
        <4>2. (resetTimer + 1) % TimerSpan \in 0 .. TimerSpan - 1
          BY DEF TypeOK
        <4> QED BY <4>1, <4>2
      <3>2. CASE ~resetFlag
        BY <1>3, <3>2 DEF DisCtrl, DisClearResetState, TypeOK
      <3> QED BY <3>1, <3>2
    <2>2. dis' \in BOOLEAN
      BY <1>3 DEF DisCtrl, TypeOK
    <2>3. TypeOK'
      BY <1>3, <2>1, <2>2 DEF DisCtrl, At, TypeOK, Tasks, seq
    <2>4. UNCHANGED <<seq, valid>> /\ valid \in BOOLEAN
      BY <1>3 DEF DisCtrl, TypeOK
    <2> QED BY <2>3, <2>4, SeqUntouched
  <1>4. CASE BmsCtrl
    <2>1. efet' \in BOOLEAN /\ mode' \in Modes
      BY <1>4 DEF BmsCtrl, BmsMosAction, TypeOK, Modes
    <2>2. TypeOK'
      BY <1>4, <2>1, BmsCtrlKeepsSequence
         DEF BmsCtrl, At, TypeOK, Tasks, inputs, gates, reset
    <2> QED BY <1>4, <2>2, BmsCtrlKeepsSequence
  <1>5. CASE AndCanCtrl
    <2>0. /\ powerOff' \in BOOLEAN /\ keyIn' \in BOOLEAN
          /\ fault' \in Faults /\ resetFlag' \in BOOLEAN
      BY <1>5 DEF AndCanCtrl, SlCanBmsReceiveProcess, TypeOK, Faults
    <2>1. TypeOK'
      BY <1>5, <2>0 DEF AndCanCtrl, At, TypeOK, Tasks, gates, seq
    <2>2. UNCHANGED <<seq, valid>> /\ valid \in BOOLEAN
      BY <1>5 DEF AndCanCtrl, TypeOK
    <2> QED BY <2>1, <2>2, SeqUntouched
  <1>6. CASE CanCtrl
    <2>1. allow' \in Allowance
      BY <1>6 DEF CanCtrl, TypeOK
    <2>2. TypeOK'
      BY <1>6, <2>1 DEF CanCtrl, At, TypeOK, Tasks, inputs, gates, reset, seq
    <2>3. UNCHANGED <<seq, valid>> /\ valid \in BOOLEAN
      BY <1>6 DEF CanCtrl, TypeOK, inputs
    <2> QED BY <2>2, <2>3, SeqUntouched
  <1>7. CASE AfeRun
    <2>1. fets' \subseteq Fets /\ fault' \in Faults
      BY <1>7 DEF AfeRun, FetCmd, TypeOK, Faults
    <2>2. TypeOK'
      BY <1>7, <2>1 DEF AfeRun, At, TypeOK, Tasks, gates, reset, seq
    <2>3. UNCHANGED <<seq, valid>> /\ valid \in BOOLEAN
      BY <1>7 DEF AfeRun, TypeOK
    <2> QED BY <2>2, <2>3, SeqUntouched
  <1>8. CASE UartBwCtrl
    <2>0. /\ fct' \in BOOLEAN /\ dis' \in BOOLEAN
          /\ chg' \in BOOLEAN /\ fault' \in Faults
      BY <1>8 DEF UartBwCtrl, FuncATE, TypeOK, Faults
    <2>1. TypeOK'
      BY <1>8, <2>0 DEF UartBwCtrl, At, TypeOK, Tasks, reset, seq
    <2>2. UNCHANGED <<seq, valid>> /\ valid \in BOOLEAN
      BY <1>8 DEF UartBwCtrl, TypeOK
    <2> QED BY <2>1, <2>2, SeqUntouched
  <1>9. CASE PowerCtrl
    <2>0. powerOff' \in BOOLEAN
      BY <1>9 DEF PowerCtrl, TypeOK
    <2>1. TypeOK'
      BY <1>9, <2>0 DEF PowerCtrl, At, TypeOK, Tasks, gates, reset, seq
    <2>2. UNCHANGED <<seq, valid>> /\ valid \in BOOLEAN
      BY <1>9 DEF PowerCtrl, TypeOK
    <2> QED BY <2>1, <2>2, SeqUntouched
  <1>10. CASE UNCHANGED vars
    BY <1>10 DEF vars, inputs, gates, reset, seq, TypeOK, PreDischargeBounded,
                 SequenceInv
  <1> QED
    BY <1>1, <1>2, <1>3, <1>4, <1>5, <1>6, <1>7, <1>8, <1>9, <1>10 DEF Next

(* The inductive invariant holds in every reachable state.                 *)
THEOREM InvariantHolds == Spec => []IInv
  BY InitIInv, NextIInv, PTL DEF Spec

(* Every variable of the switch control keeps the type its C declaration   *)
(* gives it, for all delays.                                               *)
THEOREM TypeCorrect == Spec => []TypeOK
  BY InvariantHolds, PTL DEF IInv

(* BmsMosCheck never leaves the pre-discharge resistor on for longer than  *)
(* the two phases of the sequence, and the timer of the code measures it.  *)
THEOREM PreDischargeIsBounded == Spec => []PreDischargeBounded
  BY InvariantHolds, PTL DEF IInv

(* The step of the sequencer says what the main FET does.                  *)
THEOREM SequenceHolds == Spec => []SequenceInv
  BY InvariantHolds, PTL DEF IInv

-----------------------------------------------------------------------------
(* The main discharge FET is switched on only after a full pre-discharge,  *)
(* or when a neighbour drives the bus, or when the pack is charging.       *)
THEOREM MainComesAfterPreDischarge == Spec => MainAfterPreDischarge
  <1>1. IInv /\ [Next]_vars
        => [~dmos /\ dmos' => preRun > PreDelay \/ allow.mtOut \/ ForceDmos]_vars
    <2> SUFFICES ASSUME IInv, Next, ~dmos, dmos', ~allow.mtOut, ~ForceDmos
                 PROVE  preRun > PreDelay
      OBVIOUS
    <2>1. BmsCtrl
      BY DEF Next, KeyCheck, ChgCtrl, DisCtrl, AndCanCtrl, CanCtrl, AfeRun,
             UartBwCtrl, PowerCtrl, seq
    <2>2. valid /\ DisAct /\ PreDischarge.main
      BY <2>1 DEF BmsCtrl, BmsMosCheck, AtRest, SeqState
    <2>3. preStep = 1
      BY <2>2 DEF IInv, SequenceInv, TypeOK, PreDischarge, Phases, SeqState
    <2> QED BY <2>3 DEF IInv, SequenceInv
  <1> QED BY <1>1, InvariantHolds, PTL DEF Spec, MainAfterPreDischarge

(* Once asked for, a power-off is never taken back: the start of charging, *)
(* which would clear it, is not reached.                                   *)
THEOREM PowerOffIsFinal == Spec => PowerOffStays
  <1>1. TypeOK /\ [Next]_vars => [powerOff => powerOff']_vars
    <2> SUFFICES ASSUME TypeOK, Next, powerOff PROVE powerOff'
      OBVIOUS
    <2>1. CASE ChgCtrl
      BY <2>1 DEF ChgCtrl, ChgStop, ChgStopFlag
    <2>2. CASE ~ChgCtrl
      BY <2>2 DEF Next, KeyCheck, DisCtrl, BmsCtrl, AndCanCtrl, CanCtrl, AfeRun,
                  SlCanBmsReceiveProcess, UartBwCtrl, PowerCtrl, inputs, TypeOK
    <2> QED BY <2>1, <2>2
  <1> QED BY <1>1, TypeCorrect, PTL DEF Spec, PowerOffStays

-----------------------------------------------------------------------------
(* FetDriver.                                                              *)

(* A half-done write only takes FETs away, and a whole one leaves exactly  *)
(* those of the command.                                                   *)
LEMMA WriteResult ==
    ASSUME NEW c, NEW r \in AfeSetMosfet(c)
    PROVE  /\ r.ok => r.reg = c
           /\ ~r.ok => r.reg \subseteq fetReg
           /\ r.reg \subseteq fetReg \cup c
           /\ r.ok \in BOOLEAN
  <1>1. \/ r = Update(c, TRUE) \/ r = Update(fetReg, FALSE)
        \/ r = Update(fetReg \cap c, FALSE)
    BY DEF AfeSetMosfet
  <1>2. CASE r = Update(c, TRUE)
    <2>1. r.ok = TRUE /\ r.reg = c
      BY <1>2 DEF Update
    <2> QED BY <2>1
  <1>3. CASE r = Update(fetReg, FALSE)
    <2>1. r.ok = FALSE /\ r.reg = fetReg
      BY <1>3 DEF Update
    <2> QED BY <2>1
  <1>4. CASE r = Update(fetReg \cap c, FALSE)
    <2>1. r.ok = FALSE /\ r.reg = fetReg \cap c
      BY <1>4 DEF Update
    <2> QED BY <2>1
  <1> QED BY <1>1, <1>2, <1>3, <1>4

(* One call of AfeFetCtrl: it either leaves the register and LastCmd as    *)
(* they are, or writes the command of the pass.                            *)
LEMMA FetCtrlWrites ==
    ASSUME NEW ok \in BOOLEAN, AfeFetCtrl(ok)
    PROVE  \/ UNCHANGED <<fetReg, lastCmd>>
           \/ \E r \in AfeSetMosfet(cmd) :
                 fetReg' = r.reg /\ lastCmd' = IF r.ok THEN cmd ELSE lastCmd
  BY DEF AfeFetCtrl, WriteFets

(* Every variable keeps its type.                                          *)
THEOREM DriverTypeCorrect == FetSpec => []FetTypeOK
  <1>1. FetInit => FetTypeOK
    BY DEF FetInit, FetTypeOK, Unset
  <1>2. FetTypeOK /\ [FetNext]_fetVars => FetTypeOK'
    <2> SUFFICES ASSUME FetTypeOK, [FetNext]_fetVars PROVE FetTypeOK'
      OBVIOUS
    <2>1. CASE Command
      BY <2>1 DEF Command, FetTypeOK
    <2>2. CASE ForceClose
      BY <2>2 DEF ForceClose, FetTypeOK
    <2>3. CASE Restart
      <3>1. fetReg' \subseteq FetBits
        BY <2>3 DEF Restart, S17H_init, FetTypeOK
      <3>2. pdsgReg' \in BOOLEAN
        BY <2>3 DEF Restart, S17H_init, FetTypeOK
      <3> QED BY <2>3, <3>1, <3>2 DEF Restart, FetTypeOK
    <2>4. ASSUME NEW ok \in BOOLEAN, AfeFetCtrl(ok) PROVE FetTypeOK'
      <3>1. fetReg' \subseteq FetBits /\ lastCmd' \in (SUBSET FetBits) \cup {Unset}
        BY <2>4, FetCtrlWrites, WriteResult DEF FetTypeOK
      <3>2. predis' \in BOOLEAN /\ pdsgReg' \in BOOLEAN
        BY <2>4 DEF AfeFetCtrl, WriteTimeout, FetTypeOK
      <3> QED BY <2>4, <3>1, <3>2 DEF AfeFetCtrl, FetTypeOK
    <2>5. ASSUME NEW ok \in BOOLEAN, AfeFetForceClose(ok) PROVE FetTypeOK'
      <3>1. PICK r \in AfeSetMosfet({}) : fetReg' = r.reg /\ closing' = ~r.ok
        BY <2>5 DEF AfeFetForceClose
      <3>2. fetReg' \subseteq FetBits /\ closing' \in BOOLEAN
        BY <3>1, WriteResult DEF FetTypeOK
      <3> QED BY <2>5, <3>2 DEF AfeFetForceClose, FetTypeOK
    <2>6. CASE UNCHANGED fetVars
      BY <2>6 DEF fetVars, FetTypeOK
    <2> QED BY <2>1, <2>2, <2>3, <2>4, <2>5, <2>6 DEF FetNext
  <1> QED BY <1>1, <1>2, PTL DEF FetSpec

(* Through failed and half-done writes, forced closes and restarts, no FET *)
(* is on that the last accepted command did not ask for.                   *)
THEOREM NoFetIsUnasked == FetSpec => []NoFetUnasked
  <1>1. FetInit => NoFetUnasked
    BY DEF FetInit, NoFetUnasked
  <1>2. NoFetUnasked /\ [FetNext]_fetVars => NoFetUnasked'
    <2> SUFFICES ASSUME NoFetUnasked, [FetNext]_fetVars PROVE NoFetUnasked'
      OBVIOUS
    <2>1. CASE Restart
      BY <2>1 DEF Restart, NoFetUnasked
    <2>2. ASSUME NEW ok \in BOOLEAN, AfeFetCtrl(ok) PROVE NoFetUnasked'
      BY <2>2, FetCtrlWrites, WriteResult DEF NoFetUnasked
    <2>3. ASSUME NEW ok \in BOOLEAN, AfeFetForceClose(ok) PROVE NoFetUnasked'
      BY <2>3, WriteResult DEF AfeFetForceClose, NoFetUnasked
    <2>4. CASE Command \/ ForceClose \/ UNCHANGED fetVars
      BY <2>4 DEF Command, ForceClose, fetVars, NoFetUnasked
    <2> QED BY <2>1, <2>2, <2>3, <2>4 DEF FetNext
  <1> QED BY <1>1, <1>2, PTL DEF FetSpec

(* No failure, forced close or restart switches a FET on: only a command   *)
(* does.                                                                   *)
THEOREM OnlyCommandsSwitchOn == FetSpec => OnlyCommandedOn
  <1>1. [FetNext]_fetVars => [fetReg' \subseteq fetReg \cup cmd]_fetVars
    <2> SUFFICES ASSUME FetNext PROVE fetReg' \subseteq fetReg \cup cmd
      OBVIOUS
    <2>1. CASE Restart
      BY <2>1 DEF Restart, S17H_init
    <2>2. ASSUME NEW ok \in BOOLEAN, AfeFetCtrl(ok)
          PROVE  fetReg' \subseteq fetReg \cup cmd
      BY <2>2, FetCtrlWrites, WriteResult
    <2>3. ASSUME NEW ok \in BOOLEAN, AfeFetForceClose(ok)
          PROVE  fetReg' \subseteq fetReg \cup cmd
      BY <2>3, WriteResult DEF AfeFetForceClose
    <2>4. CASE Command \/ ForceClose
      BY <2>4 DEF Command, ForceClose
    <2> QED BY <2>1, <2>2, <2>3, <2>4 DEF FetNext
  <1> QED BY <1>1, PTL DEF FetSpec, OnlyCommandedOn
=============================================================================
