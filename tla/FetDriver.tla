----------------------------- MODULE FetDriver -----------------------------
(***************************************************************************)
(* The last hop of the switch control: AfeFetCtrl writes the FET command   *)
(* of the pass (FetCmd of module MosCtrl) into the register of the analog  *)
(* front end over a bus that can fail, and skips the write when the        *)
(* command is the one it last had accepted (LastCmd).  The front end keeps *)
(* its register through a restart of the microcontroller.                  *)
(***************************************************************************)
EXTENDS Integers

FetBits == {"DSG", "CHG"}
Unset   == {"unset"}      \* LastCmd = 0xFF: nothing was accepted yet

VARIABLES
    cmd,       \* FetCmd of this pass
    preWant,   \* PDmos and DisMosAllow
    lastCmd,   \* LastCmd
    fetReg,    \* the FET bits of the front end
    predis,    \* predisflag
    pdsgReg,   \* is the pre-discharge timeout of the front end non-zero?
    closing    \* a forced close is repeated until it is accepted

fetVars == <<cmd, preWant, lastCmd, fetReg, predis, pdsgReg, closing>>

(* S17H_init switches both FETs off and the timeout to zero, if the front  *)
(* end answers; the firmware runs on when it does not.                     *)
FetInit ==
    /\ cmd = {} /\ preWant = FALSE
    /\ lastCmd = Unset /\ predis = FALSE /\ closing = FALSE
    /\ fetReg \in {{}, FetBits} /\ pdsgReg \in BOOLEAN

-----------------------------------------------------------------------------
(* A register update is a read and a write; when either fails, the update  *)
(* changes nothing and reports the failure (a word ends with its checksum, *)
(* and the front end does not take one whose checksum it did not accept).  *)
(* AfeSetMosfet first clears the bits that are not wanted, then sets those *)
(* that are, and gives up at the first failure: the third result is a call *)
(* that failed half-way.                                                   *)
Update(reg, ok) == [reg |-> reg, ok |-> ok]

SetMerges(c) ==                      \* mutant: ors into the last command
    {Update(c \cup lastCmd, TRUE), Update(fetReg, FALSE)}
SetOnly(c) ==                        \* mutant: does not clear first
    {Update(fetReg \cup c, TRUE), Update(fetReg, FALSE)}
AfeSetMosfet(c) ==
    {Update(c, TRUE), Update(fetReg, FALSE)}
    \cup (IF c = {} THEN {} ELSE {Update(fetReg \cap c, FALSE)})

RememberAlways(r) ==                 \* mutant: the result is not looked at
    r \in AfeSetMosfet(cmd) /\ fetReg' = r.reg /\ lastCmd' = cmd
(* AfeFetCtrl remembers a command only when all of it was accepted.        *)
WriteFets(r) ==
    /\ r \in AfeSetMosfet(cmd)
    /\ fetReg' = r.reg
    /\ lastCmd' = IF r.ok THEN cmd ELSE lastCmd

(* It does not look at the result of the timeout write.                    *)
WriteTimeout(ok) ==
    /\ predis' = preWant
    /\ pdsgReg' = IF preWant # predis /\ ok THEN preWant ELSE pdsgReg

AfeFetCtrl(ok) ==
    /\ ~closing
    /\ IF cmd = lastCmd
       THEN UNCHANGED <<fetReg, lastCmd>>
       ELSE \E r \in AfeSetMosfet(cmd) : r.ok = ok /\ WriteFets(r)
    /\ \E t \in BOOLEAN : (ok => t) /\ WriteTimeout(t)
    /\ UNCHANGED <<cmd, preWant, closing>>

(* The tasks before AfeRun compute another command.                        *)
Command ==
    /\ ~closing
    /\ cmd' \in SUBSET FetBits /\ preWant' \in BOOLEAN
    /\ UNCHANGED <<lastCmd, fetReg, predis, pdsgReg, closing>>

(* AfeFetForceClose, called on the way to power-off, low-voltage shutdown  *)
(* or the boot loader: a loop on the call that switches both off.  LastCmd *)
(* is not told.                                                            *)
ForceClose ==
    /\ ~closing /\ closing' = TRUE
    /\ UNCHANGED <<cmd, preWant, lastCmd, fetReg, predis, pdsgReg>>

AfeFetForceClose(ok) ==
    /\ closing
    /\ \E r \in AfeSetMosfet({}) :
          r.ok = ok /\ fetReg' = r.reg /\ closing' = ~r.ok
    /\ UNCHANGED <<cmd, preWant, lastCmd, predis, pdsgReg>>

(* A watchdog reset of the microcontroller: the statics start over.  S17H_ *)
(* init first switches the FETs off and later sets the timeout to zero, or *)
(* gives up at the first failure before either.                            *)
InitFetsOn(off, done) ==             \* mutant: both FETs on by default
    fetReg' = (IF off THEN FetBits ELSE fetReg) /\ pdsgReg' = (pdsgReg /\ ~done)
S17H_init(off, done) ==
    fetReg' = (IF off THEN {} ELSE fetReg) /\ pdsgReg' = (pdsgReg /\ ~done)

Restart ==
    /\ cmd' = {} /\ preWant' = FALSE
    /\ lastCmd' = Unset /\ predis' = FALSE /\ closing' = FALSE
    /\ \E off, done \in BOOLEAN : (done => off) /\ S17H_init(off, done)

FetNext ==
    \/ Command \/ ForceClose \/ Restart
    \/ \E ok \in BOOLEAN : AfeFetCtrl(ok) \/ AfeFetForceClose(ok)

FetSpec == FetInit /\ [][FetNext]_fetVars

(* The loop keeps calling, and a bus that is used again and again is not   *)
(* broken for ever.                                                        *)
FairFetSpec ==
    /\ FetSpec
    /\ SF_fetVars(AfeFetCtrl(TRUE)) /\ SF_fetVars(AfeFetForceClose(TRUE))

-----------------------------------------------------------------------------
(* Every variable has the type its C declaration gives it.                 *)
FetTypeOK ==
    /\ cmd \subseteq FetBits /\ fetReg \subseteq FetBits
    /\ lastCmd \in (SUBSET FetBits) \cup {Unset}
    /\ preWant \in BOOLEAN /\ predis \in BOOLEAN /\ pdsgReg \in BOOLEAN
    /\ closing \in BOOLEAN

(* AfeFetCtrl, through failed and half-done calls, forced closes and       *)
(* restarts: the register never holds a FET on that the last accepted      *)
(* command did not ask for.                                                *)
NoFetUnasked == lastCmd # Unset => fetReg \subseteq lastCmd

(* A FET goes on only in a pass whose command asks for it: no failure or   *)
(* restart closes a switch.                                                *)
OnlyCommandedOn == [][fetReg' \subseteq fetReg \cup cmd]_fetVars

(* When the command stays "all off", both FETs end up off, whatever failed *)
(* before, and a forced close ends.                                        *)
OffReached ==
    /\ (closing ~> ~closing)
    /\ [](([](cmd = {})) => <>[](fetReg = {}))
=============================================================================
