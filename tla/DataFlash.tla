----------------------------- MODULE DataFlash -----------------------------
(***************************************************************************)
(* The page that survives a restart (DataFlash.c) and the way into the     *)
(* boot loader that leads through it (GotoBoot.c).  The page holds the     *)
(* boot mark with the length of the image, the power mark, and the state   *)
(* of charge and locks of the pack; it is written by erasing it and        *)
(* programming word after word.  The supply may fail, or the watchdog      *)
(* bite, between any two flash operations, and a flash operation may fail. *)
(*                                                                         *)
(* The boot loader is not in the repository: all that is used of it is     *)
(* that it ends by starting the application and leaves the page alone.     *)
(***************************************************************************)
EXTENDS Naturals, Sequences

CONSTANTS
    Values,      \* contents of Soc
    NoData,      \* all of it zero
    Turns        \* turns of the main loop BootJudge waits: 10

ASSUME DataAssumption == NoData \notin Values /\ Turns \in Nat \ {0}

VARIABLES
    at,          \* what runs: the loader, a step of the start, a task of
                 \* the turn, a page write, or nothing ("off")
    page,        \* the flash page, by words
    buf, done,   \* the page being written, operations done (0: not erased)
    then,        \* what runs after the write
    ram,         \* DataFlashPowerDownSave
    goto, turns, \* BootGotoFlag, BootDelayCnt
    upgrading,   \* SlUpgradeTimer > 0
    last, torn,  \* history: what the last finished save held, and whether a
                 \* write has been broken off since
    final,       \* history: the data at the moment the application ended
    wanted,      \* history: a request for the boot loader is open
    undone,      \* history: what can undo such a request has happened since
    faulty       \* history: a flash operation failed, or BootJudge gave up
                 \* an update after it had set the power mark

write   == <<buf, done, then>>
boot    == <<goto, turns>>
history == <<last, torn, final, wanted, undone, faulty>>
vars    == <<at, page, write, ram, boot, upgrading, history>>

Erased   == "erased"               \* the mark and the length in an erased page
NoWord   == <<>>                   \* the other words in it
Words    == <<"mark", "size", "body", "crc">>
Cleared  == [mark |-> "none", size |-> "none", power |-> "none", data |-> NoData,
             lock |-> FALSE]
NoPage   == [mark |-> Erased, size |-> Erased, body |-> NoWord, crc |-> NoWord]

Marks == {"bwk", "word"}           \* FLASH_BOOT_BWK, FLASH_BOOT_WORD

(* CrcCalc, over everything but the boot mark; two contents of the page    *)
(* have one sum only if they are equal.                                    *)
CrcWithMark(mark, size, body) == <<mark, size, body>>   \* mutant: the mark too
CrcCalc(mark, size, body) == <<size, body>>

(* PowerDownSaveDataWrite: the words of d and their sum.                   *)
PageOf(d) ==
    LET body == <<d.power, d.data, d.lock>>
    IN  [mark |-> d.mark, size |-> d.size, body |-> body,
         crc |-> CrcCalc(d.mark, d.size, body)]

Valid(p) == p.crc = CrcCalc(p.mark, p.size, p.body)

(* PowerDownSaveDataRead: all or nothing.                                  *)
PowerDownSaveDataRead(p) ==
    IF Valid(p)
    THEN [mark |-> p.mark, size |-> p.size,
          power |-> p.body[1], data |-> p.body[2], lock |-> p.body[3]]
    ELSE Cleared

(* What the pack wants to know again: Soc, and a protection locked (DisUV-, *)
(* DisOT-, ChgOTLock).                                                     *)
Kept(d)      == <<d.data, d.lock>>
KeptIn(body) == <<body[2], body[3]>>

Init ==
    /\ at = "loader" /\ page = NoPage /\ buf = NoPage /\ done = 0 /\ then = "loader"
    /\ ram = Cleared /\ goto = FALSE /\ turns = 0 /\ upgrading = FALSE
    /\ last = Kept(Cleared) /\ torn = TRUE /\ final = Kept(Cleared)
    /\ wanted = FALSE /\ undone = FALSE /\ faulty = FALSE

----------------------------------------------------------------------------
(* Writing the page: HwDataPageWrite, HwDataPageWriteRandom.  Nothing else *)
(* runs meanwhile.                                                         *)
BeginWrite(p, next) ==
    at' = "write" /\ buf' = p /\ done' = 0 /\ then' = next

EndWrite == at' = then /\ buf' = NoPage /\ done' = 0 /\ then' = "loader"

(* The application ends: reset, loss of supply, or off.  The statics are   *)
(* zero when it starts again.                                              *)
Ends(where) ==
    /\ at' = where /\ ram' = Cleared
    /\ goto' = FALSE /\ turns' = 0 /\ upgrading' = FALSE

Erase ==
    /\ at = "write" /\ done = 0
    /\ page' = NoPage /\ done' = 1
    /\ wanted' = (wanted /\ then # "can")
    /\ UNCHANGED <<at, buf, then, ram, boot, upgrading, last, torn, final, undone, faulty>>

ProgramWord ==
    /\ at = "write" /\ done \in 1 .. Len(Words)
    /\ page' = [page EXCEPT ![Words[done]] = buf[Words[done]]]
    /\ IF done < Len(Words)
       THEN done' = done + 1 /\ UNCHANGED <<at, buf, then, last, torn>>
       ELSE /\ EndWrite
            /\ last' = IF then = "init" THEN last ELSE KeptIn(buf.body)
            /\ torn' = (torn /\ then = "init")
    /\ UNCHANGED <<ram, boot, upgrading, final, wanted, undone, faulty>>

(* An operation that fails six times ends the write; no caller looks at    *)
(* the result.                                                             *)
FlashFails ==
    /\ at = "write" /\ EndWrite
    /\ undone' = TRUE /\ faulty' = TRUE /\ torn' = (torn \/ done > 0)
    /\ UNCHANGED <<page, ram, boot, upgrading, last, final, wanted>>

----------------------------------------------------------------------------
(* The start                                                               *)
LoaderStarts ==
    /\ at = "loader" /\ at' = "start"
    /\ UNCHANGED <<page, write, ram, boot, upgrading, history>>

(* BOOT_MARK_ADDR is the page of this module: the mark of the serial       *)
(* update is removed by writing the page again as it is, sum included.     *)
WriteUpgradeMark ==
    /\ at = "start"
    /\ IF page.mark = "word"
       THEN BeginWrite([page EXCEPT !.mark = Erased], "init")
       ELSE at' = "init" /\ UNCHANGED write
    /\ UNCHANGED <<page, ram, boot, upgrading, history>>

(* What DataRecInit makes of what it has read.  The locks of a pack that   *)
(* was not turned off, and its Soc.Ocv, are not believed; the rest is kept.*)
Believed(d) == d.lock /\ d.power = "off"
StartKeepsMark(d)  == [d EXCEPT !.power = "on", !.lock = Believed(d)]    \* mutants: the
StartKeepsPower(d) == [d EXCEPT !.mark = "none", !.lock = Believed(d)]   \* marks stay
StartRecord(d) == [d EXCEPT !.mark = "none", !.power = "on", !.lock = Believed(d)]

DataRecInit ==
    /\ at = "init"
    /\ ram' = StartRecord(PowerDownSaveDataRead(page))
    /\ BeginWrite(PageOf(ram'), "can")
    /\ UNCHANGED <<page, boot, upgrading, history>>

----------------------------------------------------------------------------
(* A turn of the main loop                                                 *)
Skip(from, to) ==
    /\ at = from /\ at' = to
    /\ UNCHANGED <<page, write, ram, boot, upgrading, history>>

(* OtaSlReceiveDecode: a commit whose image is right.  Any frame of an     *)
(* update sets SlUpgradeTimer, and an abort clears it, and only it.        *)
Commit ==
    /\ at = "can" /\ at' = "uart"
    /\ ram' = [ram EXCEPT !.mark = "bwk", !.size = "image"]
    /\ goto' = TRUE /\ upgrading' = TRUE
    /\ wanted' = TRUE /\ undone' = FALSE
    /\ UNCHANGED <<page, write, turns, last, torn, final, faulty>>

Abort ==
    /\ at = "can" /\ at' = "uart" /\ upgrading' = FALSE
    /\ UNCHANGED <<page, write, ram, boot, history>>

(* COMM_RESET_FACTORY                                                      *)
ResetFactory ==
    /\ at = "uart"
    /\ ram' = Cleared /\ undone' = TRUE
    /\ BeginWrite(PageOf(Cleared), "power")
    /\ UNCHANGED <<page, boot, upgrading, last, torn, final, wanted, faulty>>

(* DataLogPwrOffSave                                                       *)
PwrOffSave(d, next) ==
    ram' = [d EXCEPT !.power = "off"] /\ BeginWrite(PageOf(ram'), next)

(* The branch of PowerOffCtrl that cuts the supply (PowerKey says when).   *)
(* It saves once; DataLogSaveFlag, which forbids a second time, is still   *)
(* clear, because nothing runs after the cut.                              *)
PowerOff ==
    /\ at = "power" /\ ~upgrading
    /\ PwrOffSave(ram, "cut")
    /\ UNCHANGED <<page, boot, upgrading, history>>

Cut ==
    /\ at = "cut" /\ Ends("off") /\ final' = Kept(ram)
    /\ UNCHANGED <<page, write, last, torn, wanted, undone, faulty>>

(* SocCtrl and the protections change the record in memory only.           *)
SocCtrl ==
    /\ at = "soc" /\ at' = "judge"
    /\ \E v \in Values, l \in BOOLEAN : ram' = [ram EXCEPT !.data = v, !.lock = l]
    /\ UNCHANGED <<page, write, boot, upgrading, history>>

----------------------------------------------------------------------------
(* BootJudge.  The update over CAN: wait, save, and look at the mark.      *)
JudgeWaits ==
    /\ at = "judge" /\ goto /\ turns + 1 < Turns
    /\ turns' = turns + 1 /\ at' = "can"
    /\ UNCHANGED <<page, write, ram, goto, upgrading, history>>

JudgeSavesNothing ==             \* mutant: resets without saving
    /\ at = "judge" /\ goto /\ turns + 1 >= Turns
    /\ turns' = 0 /\ at' = "judged"
    /\ UNCHANGED <<page, write, ram, goto, upgrading, history>>

JudgeSaves ==
    /\ at = "judge" /\ goto /\ turns + 1 >= Turns
    /\ turns' = 0 /\ PwrOffSave(ram, "judged")
    /\ UNCHANGED <<page, goto, upgrading, history>>

JudgeResets ==
    /\ at = "judged" /\ ram.mark = "bwk"
    /\ Ends("loader") /\ final' = Kept(ram)
    /\ UNCHANGED <<page, write, last, torn, wanted, undone, faulty>>

BootLoaderCancel ==
    /\ at = "judged" /\ ram.mark # "bwk"
    /\ goto' = FALSE /\ at' = "can" /\ faulty' = TRUE
    /\ UNCHANGED <<page, write, ram, turns, upgrading, last, torn, final, wanted, undone>>

(* The serial update: a whole request was received and is accepted.        *)
BootGoto ==
    /\ at = "judge" /\ ~goto
    /\ PwrOffSave([ram EXCEPT !.mark = "word"], "reset")
    /\ wanted' = TRUE
    /\ UNCHANGED <<page, boot, upgrading, last, torn, final, undone, faulty>>

GotoResets ==
    /\ at = "reset" /\ Ends("loader") /\ final' = Kept(ram)
    /\ UNCHANGED <<page, write, last, torn, wanted, undone, faulty>>

----------------------------------------------------------------------------
(* The supply fails or the watchdog bites; before DataRecInit has read the *)
(* record there is nothing in memory to lose.                              *)
Started == at \notin {"loader", "start", "init", "off"} /\ (at = "write" => then # "init")

Crash ==
    /\ at \notin {"loader", "off"}
    /\ Ends("loader") /\ buf' = NoPage /\ done' = 0 /\ then' = "loader"
    /\ final' = IF Started THEN Kept(ram) ELSE final
    /\ undone' = TRUE
    /\ torn' = (torn \/ (at = "write" /\ done > 0))
    /\ UNCHANGED <<page, last, wanted, faulty>>

Wake ==
    /\ at = "off" /\ at' = "loader"
    /\ UNCHANGED <<page, write, ram, boot, upgrading, history>>

Run ==
    \/ Erase \/ ProgramWord
    \/ LoaderStarts \/ WriteUpgradeMark \/ DataRecInit
    \/ Commit \/ Abort \/ Skip("can", "uart")
    \/ ResetFactory \/ Skip("uart", "power")
    \/ PowerOff \/ Cut \/ Skip("power", "soc")
    \/ SocCtrl \/ Skip("soc", "judge")
    \/ JudgeWaits \/ JudgeSaves \/ JudgeResets \/ BootLoaderCancel
    \/ BootGoto \/ GotoResets \/ (~goto /\ Skip("judge", "can"))

Next == Run \/ FlashFails \/ Crash \/ Wake

Spec == Init /\ [][Next]_vars /\ WF_vars(Run)

----------------------------------------------------------------------------
(* The page holds words that were written, or none, and the rest is what   *)
(* its C declaration says.                                                 *)
Data    == Values \cup {NoData}
Records == [mark : Marks \cup {"none"}, size : {"none", "image"},
            power : {"none", "on", "off"}, data : Data, lock : BOOLEAN]
Bodies  == {"none", "on", "off"} \X Data \X BOOLEAN
Pages   == [mark : Marks \cup {"none", Erased}, size : {"none", "image", Erased},
            body : Bodies \cup {NoWord},
            crc : ({"none", "image"} \X Bodies) \cup {NoWord}]

TypeOK ==
    /\ at \in {"loader", "start", "init", "write", "can", "uart", "power", "soc",
               "judge", "judged", "reset", "cut", "off"}
    /\ page \in Pages /\ buf \in Pages /\ ram \in Records
    /\ done \in 0 .. Len(Words)
    /\ then \in {"loader", "init", "can", "power", "cut", "judged", "reset"}
    /\ {goto, upgrading, torn, wanted, undone, faulty} \subseteq BOOLEAN
    /\ turns \in 0 .. Turns
    /\ last \in Data \X BOOLEAN /\ final \in Data \X BOOLEAN

(* What a start reads is what the last finished save held, or, when a      *)
(* write after it was broken off, nothing; never a mixture of the two, and *)
(* in spite of the rewriting of the page before it is read.                *)
OldOrNothing ==
    at = "init" => Kept(PowerDownSaveDataRead(page))
                       \in {last} \cup (IF torn THEN {Kept(Cleared)} ELSE {})

(* A lock that outlives a start, and a record that claims a regular power- *)
(* off, are those the pack ended with, however often it has crashed and    *)
(* started since they were saved: nothing stale locks or unlocks a pack.   *)
TrustedIsFinal ==
    [][LET read == PowerDownSaveDataRead(page)
       IN  /\ at = "init" /\ at' = "write" /\ ~faulty
           /\ read.power = "off" \/ ram'.lock
           => Kept(read) = final]_vars

(* The boot loader finds a mark only after somebody asked for it since the *)
(* application last came up: an image is not installed twice.              *)
MarkIsMeant == at = "loader" /\ page.mark \in Marks => wanted

(* An accepted commit ends in the boot loader with mark and length written *)
(* whatever the host and the key do in the turns between, unless a crash,  *)
(* a flash failure or a factory reset came after it.                       *)
HandedOver ==
    goto ~> \/ at = "loader" /\ page.mark = "bwk" /\ page.size = "image"
            \/ at = "off"    /\ page.mark = "bwk" /\ page.size = "image"
            \/ undone

============================================================================
