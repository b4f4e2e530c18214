-------------------------- MODULE DataFlashProofs --------------------------
(* Theorems of DataFlash for every set of contents and every delay: what a *)
(* start reads of a page whose writing may break off at any word, what of  *)
(* it is believed, and what the boot loader finds.                         *)
EXTENDS DataFlash, TLAPS

Labels == {"loader", "start", "init", "write", "can", "uart", "power", "soc",
           "judge", "judged", "reset", "cut", "off"}
Nexts  == {"loader", "init", "can", "power", "cut", "judged", "reset"}

(* The page has four words.                                               *)
LEMMA LenWords == Len(Words) = 4
  BY DEF Words

(* An erased page is a page.                                               *)
LEMMA NoPageTyped == NoPage \in Pages
  BY DEF NoPage, Pages, Erased

(* The record of a pack that knows nothing is a record.                    *)
LEMMA ClearedTyped == Cleared \in Records
  BY Zenon DEF Cleared, Records, Data

(* A record is written as a well-typed page whose sum is right.            *)
LEMMA PageOfTyped ==
    ASSUME NEW d \in Records
    PROVE  /\ PageOf(d) \in Pages /\ Valid(PageOf(d))
           /\ PageOf(d).mark = d.mark /\ PageOf(d).body = <<d.power, d.data, d.lock>>
  BY DEF Records, Pages, PageOf, CrcCalc, Bodies, Valid

(* A page whose sum is right holds a record.                               *)
LEMMA ValidHasBody ==
    ASSUME NEW p \in Pages, Valid(p)
    PROVE  p.size \in {"none", "image"} /\ p.body \in Bodies
  <1>1. p.crc = <<p.size, p.body>> /\ p.crc # NoWord
    BY DEF Valid, CrcCalc, NoWord
  <1>2. p.crc \in {"none", "image"} \X Bodies
    BY <1>1 DEF Pages
  <1> QED BY <1>1, <1>2

(* A start keeps the data and takes no mark over.                          *)
LEMMA ReadTyped ==
    ASSUME NEW p \in Pages
    PROVE  PowerDownSaveDataRead(p) \in
             [mark : {p.mark, "none"}, size : {"none", "image"},
              power : {p.body[1], "none"}, data : Data, lock : BOOLEAN]
  <1>1. CASE Valid(p)
    <2>1. p.size \in {"none", "image"} /\ p.body[2] \in Data /\ p.body[3] \in BOOLEAN
      BY <1>1, ValidHasBody DEF Bodies
    <2>2. PowerDownSaveDataRead(p)
            = [mark |-> p.mark, size |-> p.size, power |-> p.body[1],
               data |-> p.body[2], lock |-> p.body[3]]
      BY <1>1 DEF PowerDownSaveDataRead
    <2> QED BY <2>1, <2>2
  <1>2. CASE ~Valid(p)
    <2>1. NoData \in Data /\ FALSE \in BOOLEAN
      BY DEF Data
    <2>2. PowerDownSaveDataRead(p)
            = [mark |-> "none", size |-> "none", power |-> "none",
               data |-> NoData, lock |-> FALSE]
      BY <1>2 DEF PowerDownSaveDataRead, Cleared
    <2> QED BY <2>1, <2>2
  <1> QED BY <1>1, <1>2

(* The record of a start has no mark.                                      *)
LEMMA StartRecordTyped ==
    ASSUME NEW p \in Pages
    PROVE  /\ StartRecord(PowerDownSaveDataRead(p)) \in Records
           /\ StartRecord(PowerDownSaveDataRead(p)).mark = "none"
  <1> DEFINE d == PowerDownSaveDataRead(p)
  <1>1. d \in [mark : {p.mark, "none"}, size : {"none", "image"},
               power : {p.body[1], "none"}, data : Data, lock : BOOLEAN]
    BY ReadTyped
  <1> HIDE DEF d
  <1>2. StartRecord(d) \in [mark : {"none"}, size : {"none", "image"}, power : {"on"},
                            data : Data, lock : {Believed(d)}]
    BY <1>1, Zenon DEF StartRecord
  <1>3. Believed(d) \in BOOLEAN
    BY <1>1 DEF Believed
  <1> HIDE DEF d
  <1>4. StartRecord(d) \in Records /\ StartRecord(d).mark = "none"
    BY <1>2, <1>3 DEF Records
  <1> QED BY <1>4 DEF d

(* The type invariant with the flags one by one, as the provers want it.   *)
TypeFlags ==
    /\ at \in Labels /\ page \in Pages /\ buf \in Pages /\ ram \in Records
    /\ done \in 0 .. 4 /\ then \in Nexts /\ turns \in 0 .. Turns
    /\ goto \in BOOLEAN /\ upgrading \in BOOLEAN /\ torn \in BOOLEAN
    /\ wanted \in BOOLEAN /\ undone \in BOOLEAN /\ faulty \in BOOLEAN
    /\ last \in Data \X BOOLEAN /\ final \in Data \X BOOLEAN

(* The type invariant is this conjunction, before and after a step.        *)
LEMMA TypeSplit == (TypeOK <=> TypeFlags) /\ (TypeOK' <=> TypeFlags')
  BY LenWords DEF TypeOK, TypeFlags, Labels, Nexts

(* What the pack wants to know again has a type wherever it is kept.       *)
LEMMA KeptTyped ==
    /\ \A d \in Records : Kept(d) \in Data \X BOOLEAN
    /\ \A b \in Bodies : KeptIn(b) \in Data \X BOOLEAN
  BY DEF Kept, KeptIn, Records, Bodies

(* A word taken from a well-typed page fits into a well-typed page.        *)
LEMMA WordTyped ==
    ASSUME NEW p \in Pages, NEW q \in Pages, NEW n \in 1 .. 4
    PROVE  [p EXCEPT ![Words[n]] = q[Words[n]]] \in Pages
  <1>1. CASE n = 1
    <2>1. Words[n] = "mark"
      BY <1>1 DEF Words
    <2> QED BY <2>1, Zenon DEF Pages
  <1>2. CASE n = 2
    <2>1. Words[n] = "size"
      BY <1>2 DEF Words
    <2> QED BY <2>1, Zenon DEF Pages
  <1>3. CASE n = 3
    <2>1. Words[n] = "body"
      BY <1>3 DEF Words
    <2> QED BY <2>1, Zenon DEF Pages
  <1>4. CASE n = 4
    <2>1. Words[n] = "crc"
      BY <1>4 DEF Words
    <2> QED BY <2>1, Zenon DEF Pages
  <1> QED BY <1>1, <1>2, <1>3, <1>4

----------------------------------------------------------------------------
(* The inductive invariant.  A page that is not being written holds what   *)
(* the last finished save held, if its sum is right, and its sum is right  *)
(* unless a write was broken off.                                          *)
PageOK(p) == (Valid(p) => KeptIn(p.body) = last) /\ (~torn => Valid(p))

(* A page after n operations of the writing of q.                          *)
Partly(q, n) == [mark |-> IF n > 1 THEN q.mark ELSE Erased,
                 size |-> IF n > 2 THEN q.size ELSE Erased,
                 body |-> IF n > 3 THEN q.body ELSE NoWord,
                 crc  |-> NoWord]

Resting == (at = "write" => done = 0) => PageOK(page)
Writing == at = "write" /\ done > 0 => page = Partly(buf, done)
Planned == at = "write" => IF then = "init" THEN PageOK(buf) ELSE Valid(buf)

(* Whatever carries a mark carries it on a request, and the write of a     *)
(* start, which ends the request, carries none.                            *)
Asked ==
    /\ page.mark \in Marks => wanted
    /\ ram.mark \in Marks => wanted
    /\ at = "write" /\ buf.mark \in Marks => wanted
    /\ at = "write" /\ then = "can" => ram.mark = "none" /\ buf.mark = "none"

Inv == TypeOK /\ Resting /\ Writing /\ Planned /\ Asked

(* The record or the page an action makes.                                 *)
LEMMA RecordsMade ==
    ASSUME ram \in Records
    PROVE  /\ [ram EXCEPT !.mark = "bwk", !.size = "image"] \in Records
           /\ \A v \in Values, l \in BOOLEAN :
                [ram EXCEPT !.data = v, !.lock = l] \in Records
           /\ [ram EXCEPT !.power = "off"] \in Records
           /\ [ram EXCEPT !.power = "off"].mark = ram.mark
           /\ [[ram EXCEPT !.mark = "word"] EXCEPT !.power = "off"] \in Records
           /\ \A v \in Values, l \in BOOLEAN :
                [ram EXCEPT !.data = v, !.lock = l].mark = ram.mark
  <1>1. /\ "bwk" \in Marks \cup {"none"} /\ "word" \in Marks \cup {"none"}
        /\ "image" \in {"none", "image"} /\ "off" \in {"none", "on", "off"}
        /\ Values \subseteq Data
    BY DEF Marks, Data
  <1>2. [ram EXCEPT !.mark = "bwk", !.size = "image"] \in Records
    BY <1>1, Zenon DEF Records
  <1>3. ASSUME NEW v \in Values, NEW l \in BOOLEAN
        PROVE  /\ [ram EXCEPT !.data = v, !.lock = l] \in Records
               /\ [ram EXCEPT !.data = v, !.lock = l].mark = ram.mark
    <2>1. v \in Data
      BY <1>1
    <2>2. [ram EXCEPT !.data = v, !.lock = l] \in Records
      BY <2>1, Zenon DEF Records
    <2>3. [ram EXCEPT !.data = v, !.lock = l].mark = ram.mark
      BY DEF Records
    <2> QED BY <2>2, <2>3
  <1>4. [ram EXCEPT !.power = "off"] \in Records
    BY <1>1, Zenon DEF Records
  <1>5. [ram EXCEPT !.power = "off"].mark = ram.mark
    BY DEF Records
  <1>6. [ram EXCEPT !.mark = "word"] \in Records
    BY <1>1, Zenon DEF Records
  <1>7. [[ram EXCEPT !.mark = "word"] EXCEPT !.power = "off"] \in Records
    BY <1>1, <1>6, Zenon DEF Records
  <1> QED BY <1>2, <1>3, <1>4, <1>5, <1>7

(* The page as it is, without its mark.                                    *)
LEMMA Unmarked ==
    ASSUME page \in Pages
    PROVE  LET q == [page EXCEPT !.mark = Erased]
           IN  /\ q \in Pages /\ q.mark = Erased
               /\ (Valid(q) <=> Valid(page)) /\ q.body = page.body
  <1> DEFINE q == [page EXCEPT !.mark = Erased]
  <1>1. Erased \in Marks \cup {"none", Erased}
    OBVIOUS
  <1>2. q \in Pages
    BY <1>1, Zenon DEF Pages
  <1>3. q.mark = Erased /\ q.size = page.size /\ q.body = page.body /\ q.crc = page.crc
    BY DEF Pages
  <1> QED BY <1>2, <1>3 DEF Valid, CrcCalc

(* What every action keeps of the variables that have nothing to do with   *)
(* the page.                                                               *)
FlagsTyped ==
    /\ turns \in 0 .. Turns /\ goto \in BOOLEAN /\ upgrading \in BOOLEAN
    /\ wanted \in BOOLEAN /\ undone \in BOOLEAN /\ faulty \in BOOLEAN
    /\ final \in Data \X BOOLEAN

(* A step between two pages at rest.                                       *)
LEMMA QuietStep ==
    ASSUME Inv, at # "write", at' \in Labels, at' # "write",
           UNCHANGED <<page, buf, done, then, last, torn>>, FlagsTyped',
           ram' \in Records, ram'.mark \in Marks => wanted', wanted => wanted'
    PROVE  Inv'
  <1>1. TypeOK'
    BY TypeSplit DEF TypeFlags, Inv, FlagsTyped
  <1>2. Resting' /\ Writing' /\ Planned' /\ Asked'
    BY DEF Inv, Resting, Writing, Planned, Asked, PageOK, Valid, CrcCalc, KeptIn
  <1> QED BY <1>1, <1>2 DEF Inv

(* A step that begins to write the page q.                                 *)
LEMMA BeginStep ==
    ASSUME Inv, at # "write", NEW q \in Pages, NEW n \in Nexts, BeginWrite(q, n),
           UNCHANGED <<page, last, torn>>, FlagsTyped',
           IF n = "init" THEN PageOK(q) ELSE Valid(q),
           ram' \in Records, ram'.mark \in Marks => wanted', wanted => wanted',
           q.mark \in Marks => wanted', n = "can" => ram'.mark = "none" /\ q.mark = "none"
    PROVE  Inv'
  <1>1. at' = "write" /\ buf' = q /\ done' = 0 /\ then' = n
    BY DEF BeginWrite
  <1>2. TypeOK'
    BY <1>1, TypeSplit DEF TypeFlags, Inv, FlagsTyped, Labels
  <1>3. Resting' /\ Writing' /\ Asked'
    BY <1>1 DEF Inv, Resting, Writing, Asked, PageOK, Valid, CrcCalc, KeptIn
  <1>4. Planned'
    BY <1>1 DEF Planned, PageOK, Valid, CrcCalc, KeptIn
  <1> QED BY <1>2, <1>3, <1>4 DEF Inv

(* A page that is not finished has no sum.                                 *)
LEMMA PartlyNotValid ==
    ASSUME NEW q, NEW n PROVE ~Valid(Partly(q, n))
  BY DEF Partly, Valid, CrcCalc, NoWord

(* The invariant over each operation on the flash: the erase, ...          *)
LEMMA EraseKeeps == ASSUME Inv, Erase PROVE Inv'
  <1>1. TypeOK'
    BY TypeSplit, NoPageTyped DEF TypeFlags, Inv, Erase, boot
  <1>2. page' = Partly(buf', done')
    BY DEF Erase, Partly, NoPage
  <1>3. Resting' /\ Writing'
    BY <1>2 DEF Erase, Resting, Writing
  <1>4. Planned'
    BY DEF Inv, Erase, Planned, PageOK, Valid, CrcCalc, KeptIn
  <1>5. page'.mark = Erased /\ Erased \notin Marks /\ "none" \notin Marks
    BY DEF Erase, NoPage, Erased, Marks
  <1>6. wanted' <=> wanted /\ then # "can"
    BY Zenon DEF Erase
  <1>7. Asked'
    BY <1>5, <1>6 DEF Inv, Erase, Asked
  <1> QED BY <1>1, <1>3, <1>4, <1>7 DEF Inv

(* ... an operation that fails, which ends the write, ...                  *)
LEMMA FailKeeps == ASSUME Inv, FlashFails PROVE Inv'
  <1>1. at' = then /\ then \in Nexts /\ "write" \notin Nexts /\ Nexts \subseteq Labels
        /\ "loader" \in Nexts
    BY TypeSplit DEF TypeFlags, Inv, FlashFails, EndWrite, Nexts, Labels
  <1>2. torn' <=> torn \/ done > 0
    BY Zenon DEF FlashFails
  <1>3. torn' \in BOOLEAN
    BY Zenon DEF FlashFails
  <1>4. TypeOK'
    BY <1>1, <1>3, TypeSplit, NoPageTyped DEF TypeFlags, Inv, FlashFails, EndWrite, boot
  <1>5. Writing' /\ Planned' /\ Asked'
    BY <1>1 DEF Inv, FlashFails, Writing, Planned, Asked
  <1>6. PageOK(page)'
    <2>1. CASE done = 0
      BY <2>1, <1>2 DEF Inv, Resting, FlashFails, PageOK, Valid, CrcCalc, KeptIn
    <2>2. CASE done # 0
      <3>1. done > 0 /\ at = "write"
        BY <2>2, TypeSplit DEF TypeFlags, Inv, FlashFails
      <3>2. ~Valid(page) /\ torn'
        BY <3>1, <1>2, PartlyNotValid DEF Inv, Writing
      <3> QED BY <3>2 DEF PageOK, FlashFails, Valid, CrcCalc, KeptIn
    <2> QED BY <2>1, <2>2
  <1> QED BY <1>4, <1>5, <1>6 DEF Inv, Resting

(* ... an operation that is not reached, because the pack crashes, ...     *)
LEMMA CrashKeeps == ASSUME Inv, Crash PROVE Inv'
  <1>1. at' = "loader" /\ ram' = Cleared /\ ram' \in Records
        /\ Cleared.mark = "none" /\ "none" \notin Marks
    BY ClearedTyped DEF Crash, Ends, Cleared, Marks
  <1>2. torn' <=> torn \/ (at = "write" /\ done > 0)
    BY Zenon DEF Crash
  <1>3. torn' \in BOOLEAN
    BY Zenon DEF Crash
  <1>4. 0 \in 0 .. Turns
    BY DataAssumption
  <1>5. final' \in Data \X BOOLEAN
    BY TypeSplit, KeptTyped DEF TypeFlags, Inv, Crash
  <1>6. TypeOK'
    <2>1. TypeFlags
      BY TypeSplit DEF Inv
    <2>2. /\ at' \in Labels /\ page' \in Pages /\ buf' \in Pages /\ done' \in 0 .. 4
          /\ then' \in Nexts
      BY <2>1, NoPageTyped DEF TypeFlags, Crash, Ends, Labels, Nexts
    <2>3. /\ turns' \in 0 .. Turns /\ goto' \in BOOLEAN /\ upgrading' \in BOOLEAN
          /\ wanted' \in BOOLEAN /\ undone' \in BOOLEAN /\ faulty' \in BOOLEAN
          /\ last' \in Data \X BOOLEAN
      BY <2>1, <1>4 DEF TypeFlags, Crash, Ends
    <2> QED BY <2>2, <2>3, <1>1, <1>3, <1>5, TypeSplit, Zenon DEF TypeFlags
  <1>7. Writing' /\ Planned' /\ Asked'
    BY <1>1 DEF Inv, Crash, Writing, Planned, Asked
  <1>8. PageOK(page)'
    <2>1. CASE at = "write" => done = 0
      <3>1. torn' <=> torn
        BY <2>1, <1>2
      <3> QED BY <2>1, <3>1 DEF Inv, Resting, Crash, PageOK, Valid, CrcCalc, KeptIn
    <2>2. CASE ~(at = "write" => done = 0)
      <3>1. done > 0 /\ at = "write"
        BY <2>2, TypeSplit DEF TypeFlags, Inv
      <3>2. ~Valid(page) /\ torn'
        BY <3>1, <1>2, PartlyNotValid DEF Inv, Writing
      <3> QED BY <3>2 DEF PageOK, Crash, Valid, CrcCalc, KeptIn
    <2> QED BY <2>1, <2>2
  <1> QED BY <1>6, <1>7, <1>8 DEF Inv, Resting

(* One word more of the page, and with the last one the whole page.        *)
LEMMA WordAdded ==
    ASSUME buf \in Pages, NEW n \in 1 .. 4, page = Partly(buf, n)
    PROVE  [page EXCEPT ![Words[n]] = buf[Words[n]]]
             = IF n < 4 THEN Partly(buf, n + 1) ELSE buf
  <1> DEFINE q == [page EXCEPT ![Words[n]] = buf[Words[n]]]
  <1>0. buf = [mark |-> buf.mark, size |-> buf.size, body |-> buf.body, crc |-> buf.crc]
    BY DEF Pages
  <1>1. page = [mark |-> IF n > 1 THEN buf.mark ELSE Erased,
                size |-> IF n > 2 THEN buf.size ELSE Erased,
                body |-> IF n > 3 THEN buf.body ELSE NoWord,
                crc  |-> NoWord]
    BY DEF Partly
  <1>2. CASE n = 1
    <2>1. q = [page EXCEPT !["mark"] = buf.mark]
      BY <1>2 DEF Words
    <2> QED BY <2>1, <1>1, <1>2 DEF Partly
  <1>3. CASE n = 2
    <2>1. q = [page EXCEPT !["size"] = buf.size]
      BY <1>3 DEF Words
    <2> QED BY <2>1, <1>1, <1>3 DEF Partly
  <1>4. CASE n = 3
    <2>1. q = [page EXCEPT !["body"] = buf.body]
      BY <1>4 DEF Words
    <2> QED BY <2>1, <1>1, <1>4 DEF Partly
  <1>5. CASE n = 4
    <2>1. q = [page EXCEPT !["crc"] = buf.crc]
      BY <1>5 DEF Words
    <2> QED BY <2>1, <1>0, <1>1, <1>5
  <1> QED BY <1>2, <1>3, <1>4, <1>5

(* ... and a word programmed.                                              *)
LEMMA ProgramKeeps == ASSUME Inv, ProgramWord PROVE Inv'
  <1>1. TypeFlags
    BY TypeSplit DEF Inv
  <1>2. at = "write" /\ done \in 1 .. 4 /\ page = Partly(buf, done)
    BY <1>1, LenWords DEF Inv, ProgramWord, Writing
  <1>3. page' = IF done < 4 THEN Partly(buf, done + 1) ELSE buf
    BY <1>1, <1>2, WordAdded DEF TypeFlags, ProgramWord
  <1>4. page' \in Pages
    BY <1>1, <1>2, WordTyped DEF TypeFlags, ProgramWord
  <1>5. page'.mark \in Marks => buf.mark \in Marks
    <2>1. Erased \notin Marks
      BY DEF Erased, Marks
    <2> QED BY <1>3, <2>1 DEF Partly
  <1>6. UNCHANGED <<ram, goto, turns, upgrading, final, wanted, undone, faulty>>
    BY DEF ProgramWord, boot
  <1>7. CASE done < 4
    <2>1. done' = done + 1 /\ UNCHANGED <<at, buf, then, last, torn>>
      BY <1>2, <1>7, LenWords DEF ProgramWord
    <2>2. TypeOK'
      BY <1>1, <1>2, <1>4, <1>6, <1>7, <2>1, TypeSplit DEF TypeFlags
    <2>3. Resting' /\ Writing'
      BY <1>2, <1>3, <1>7, <2>1 DEF Resting, Writing
    <2>4. Planned' /\ Asked'
      BY <1>2, <1>5, <1>6, <2>1
         DEF Inv, Planned, Asked, PageOK, Valid, CrcCalc, KeptIn
    <2> QED BY <2>2, <2>3, <2>4 DEF Inv
  <1>8. CASE done = 4
    <2>0. ~(done < Len(Words))
      BY <1>8, LenWords
    <2>1. at' = then /\ buf' = NoPage /\ done' = 0 /\ then' = "loader"
          /\ "write" \notin Nexts /\ Nexts \subseteq Labels /\ "loader" \in Nexts
      BY <1>8, LenWords DEF ProgramWord, EndWrite, Nexts, Labels
    <2>2. last' = IF then = "init" THEN last ELSE KeptIn(buf.body)
      BY <1>8, LenWords DEF ProgramWord
    <2>3. torn' <=> torn /\ then = "init"
      BY <2>0, Zenon DEF ProgramWord
    <2>4. torn' \in BOOLEAN
      BY <2>0, Zenon DEF ProgramWord
    <2>5. last' \in Data \X BOOLEAN
      BY <1>1, <1>2, <2>2, ValidHasBody, KeptTyped DEF TypeFlags, Inv, Planned
    <2>6. TypeOK'
      BY <1>1, <1>4, <1>6, <2>1, <2>4, <2>5, NoPageTyped, TypeSplit DEF TypeFlags
    <2>7. Writing' /\ Planned' /\ Asked'
      BY <1>1, <1>2, <1>5, <1>6, <2>1 DEF Inv, TypeFlags, Writing, Planned, Asked
    <2>8. page' = buf
      BY <1>3, <1>8
    <2>9. PageOK(page)'
      <3>1. CASE then = "init"
        <4>1. last' = last /\ (torn' <=> torn) /\ PageOK(buf)
          BY <1>2, <2>2, <2>3, <3>1 DEF Inv, Planned
        <4> QED BY <4>1, <2>8 DEF PageOK, Valid, CrcCalc, KeptIn
      <3>2. CASE then # "init"
        <4>1. last' = KeptIn(buf.body) /\ Valid(buf)
          BY <1>2, <2>2, <3>2 DEF Inv, Planned
        <4> QED BY <4>1, <2>8 DEF PageOK, Valid, CrcCalc, KeptIn
      <3> QED BY <3>1, <3>2
    <2> QED BY <2>6, <2>7, <2>9 DEF Inv, Resting
  <1> QED BY <1>2, <1>7, <1>8

(* A step of the loop that passes a task over.                             *)
LEMMA SkipKeeps ==
    ASSUME Inv, NEW a \in Labels \ {"write"}, NEW b \in Labels \ {"write"}, Skip(a, b)
    PROVE  Inv'
  BY QuietStep, TypeSplit
     DEF Skip, Inv, Asked, TypeFlags, FlagsTyped, write, boot, history

(* A step of the loop, of the loader or of the supply that does the same.  *)
LEMMA TurnKeeps ==
    ASSUME Inv,
           \/ LoaderStarts \/ Commit \/ Abort \/ SocCtrl \/ JudgeWaits
           \/ BootLoaderCancel \/ Wake
    PROVE  Inv'
  <1>0. TypeFlags
    BY TypeSplit DEF Inv
  <1>1. CASE LoaderStarts \/ Abort \/ BootLoaderCancel \/ Wake
    BY <1>0, <1>1, QuietStep
       DEF LoaderStarts, Abort, BootLoaderCancel, Wake, Inv, Asked, TypeFlags,
           FlagsTyped, Labels, write, boot, history
  <1>2. CASE Commit
    BY <1>0, <1>2, QuietStep, RecordsMade
       DEF Commit, Inv, TypeFlags, FlagsTyped, Labels, write
  <1>3. CASE SocCtrl
    <2>1. ram' \in Records /\ ram'.mark = ram.mark
      BY <1>0, <1>3, RecordsMade DEF SocCtrl, TypeFlags
    <2> QED BY <1>0, <1>3, <2>1, QuietStep
            DEF SocCtrl, Inv, Asked, TypeFlags, FlagsTyped, Labels, write, boot, history
  <1>4. CASE JudgeWaits
    <2>1. turns + 1 \in 0 .. Turns
      BY <1>0, <1>4, DataAssumption DEF JudgeWaits, TypeFlags
    <2> QED BY <1>0, <1>4, <2>1, QuietStep
            DEF JudgeWaits, Inv, Asked, TypeFlags, FlagsTyped, Labels, write, history
  <1> QED BY <1>1, <1>2, <1>3, <1>4

(* The ends of the application: the record is gone, the page stays.        *)
LEMMA EndKeeps ==
    ASSUME Inv, Cut \/ JudgeResets \/ GotoResets
    PROVE  Inv'
  <1>0. TypeFlags
    BY TypeSplit DEF Inv
  <1>1. final' \in Data \X BOOLEAN
    BY <1>0, KeptTyped DEF Cut, JudgeResets, GotoResets, TypeFlags
  <1>2. 0 \in 0 .. Turns /\ Cleared \in Records /\ Cleared.mark \notin Marks
    BY DataAssumption, ClearedTyped DEF Cleared, Marks
  <1>3. /\ at # "write" /\ at' \in Labels /\ at' # "write" /\ ram' = Cleared
        /\ UNCHANGED <<page, buf, done, then, last, torn, wanted, undone, faulty>>
        /\ turns' = 0 /\ goto' = FALSE /\ upgrading' = FALSE
    BY DEF Cut, JudgeResets, GotoResets, Ends, Labels, write
  <1>4. FlagsTyped'
    BY <1>0, <1>1, <1>2, <1>3 DEF TypeFlags, FlagsTyped
  <1> QED BY <1>2, <1>3, <1>4, QuietStep

(* The steps that begin to write the page.                                 *)
LEMMA StartKeeps == ASSUME Inv, WriteUpgradeMark PROVE Inv'
  <1>0. TypeFlags
    BY TypeSplit DEF Inv
  <1>1. CASE page.mark = "word"
    <2> DEFINE q == [page EXCEPT !.mark = Erased]
    <2>1. q \in Pages /\ q.mark = Erased /\ (Valid(q) <=> Valid(page))
          /\ q.body = page.body
      BY <1>0, Unmarked DEF TypeFlags
    <2>2. PageOK(page)
      BY DEF Inv, Resting, WriteUpgradeMark
    <2>3. PageOK(q)
      BY <2>1, <2>2 DEF PageOK
    <2>4. BeginWrite(q, "init") /\ Erased \notin Marks /\ "init" \in Nexts
      BY <1>1 DEF WriteUpgradeMark, Erased, Marks, Nexts
    <2>5. at # "write" /\ UNCHANGED <<page, ram, last, torn, wanted>>
      BY DEF WriteUpgradeMark, history
    <2>6. FlagsTyped'
      BY <1>0 DEF TypeFlags, FlagsTyped, WriteUpgradeMark, boot, history
    <2> HIDE DEF q
    <2> QED BY <1>0, <2>1, <2>3, <2>4, <2>5, <2>6, BeginStep DEF Inv, Asked, TypeFlags
  <1>2. CASE page.mark # "word"
    BY <1>0, <1>2, QuietStep
       DEF WriteUpgradeMark, Inv, Asked, TypeFlags, FlagsTyped, Labels, write, boot,
           history
  <1> QED BY <1>1, <1>2

(* The record a start makes is written without a mark.                     *)
LEMMA RecInitKeeps == ASSUME Inv, DataRecInit PROVE Inv'
  <1>0. TypeFlags
    BY TypeSplit DEF Inv
  <1>1. ram' \in Records /\ ram'.mark = "none" /\ "none" \notin Marks /\ "can" \in Nexts
    BY <1>0, StartRecordTyped DEF DataRecInit, TypeFlags, Marks, Nexts
  <1>2. PageOf(ram') \in Pages /\ Valid(PageOf(ram')) /\ PageOf(ram').mark = "none"
    BY <1>1, PageOfTyped
  <1>3. BeginWrite(PageOf(ram'), "can") /\ at # "write"
        /\ UNCHANGED <<page, last, torn, wanted>>
    BY DEF DataRecInit, history
  <1>4. FlagsTyped'
    BY <1>0 DEF TypeFlags, FlagsTyped, DataRecInit, boot, history
  <1> QED BY <1>1, <1>2, <1>3, <1>4, BeginStep

(* A save: the record with its power mark, whose mark was asked for.       *)
LEMMA SaveKeeps ==
    ASSUME Inv, PowerOff \/ JudgeSaves \/ BootGoto \/ ResetFactory
    PROVE  Inv'
  <1>0. TypeFlags
    BY TypeSplit DEF Inv
  <1>1. PICK n \in Nexts : BeginWrite(PageOf(ram'), n) /\ n \notin {"init", "can"}
    BY DEF PowerOff, JudgeSaves, BootGoto, ResetFactory, PwrOffSave, Nexts
  <1>2. ram' \in Records
    BY <1>0, RecordsMade, ClearedTyped
       DEF TypeFlags, PowerOff, JudgeSaves, BootGoto, ResetFactory, PwrOffSave
  <1>3. (ram'.mark \in Marks => wanted') /\ (wanted => wanted')
    <2>1. CASE PowerOff \/ JudgeSaves
      BY <1>0, <2>1, RecordsMade
         DEF Inv, Asked, TypeFlags, PowerOff, JudgeSaves, PwrOffSave, history
    <2>2. CASE BootGoto
      BY <2>2 DEF BootGoto
    <2>3. CASE ResetFactory
      BY <2>3 DEF ResetFactory, Cleared, Marks
    <2> QED BY <2>1, <2>2, <2>3
  <1>4. PageOf(ram') \in Pages /\ Valid(PageOf(ram')) /\ PageOf(ram').mark = ram'.mark
    BY <1>2, PageOfTyped
  <1>5. at # "write" /\ UNCHANGED <<page, last, torn>>
    BY DEF PowerOff, JudgeSaves, BootGoto, ResetFactory, history
  <1>6. 0 \in 0 .. Turns
    BY DataAssumption
  <1>7. FlagsTyped'
    BY <1>0, <1>6 DEF TypeFlags, FlagsTyped, PowerOff, JudgeSaves, BootGoto,
                      ResetFactory, boot, history
  <1> QED BY <1>1, <1>2, <1>3, <1>4, <1>5, <1>7, BeginStep

(* The page while it is written and while it rests, and every mark with    *)
(* its request.                                                            *)
THEOREM InvariantHolds == Spec => []Inv
  <1>1. Init => Inv
    <2> SUFFICES ASSUME Init PROVE Inv
      OBVIOUS
    <2>1. Kept(Cleared) \in Data \X BOOLEAN /\ 0 \in 0 .. Turns
      BY ClearedTyped, KeptTyped, DataAssumption
    <2>2. TypeFlags
      <3>1. /\ at \in Labels /\ page \in Pages /\ buf \in Pages /\ ram \in Records
            /\ done \in 0 .. 4 /\ then \in Nexts
        BY ClearedTyped, NoPageTyped DEF Init, Labels, Nexts
      <3>2. /\ turns \in 0 .. Turns /\ last \in Data \X BOOLEAN
            /\ final \in Data \X BOOLEAN
        BY <2>1 DEF Init
      <3>3. /\ goto \in BOOLEAN /\ upgrading \in BOOLEAN /\ torn \in BOOLEAN
            /\ wanted \in BOOLEAN /\ undone \in BOOLEAN /\ faulty \in BOOLEAN
        BY Zenon DEF Init
      <3> QED BY <3>1, <3>2, <3>3, Zenon DEF TypeFlags
    <2>3. ~Valid(NoPage)
      BY DEF NoPage, Valid, CrcCalc, NoWord
    <2>4. NoPage.mark \notin Marks /\ Cleared.mark \notin Marks
      BY DEF NoPage, Cleared, Marks, Erased
    <2> QED BY <2>2, <2>3, <2>4, TypeSplit
            DEF Init, Inv, Resting, Writing, Planned, Asked, PageOK
  <1>2. Inv /\ [Next]_vars => Inv'
    <2> SUFFICES ASSUME Inv, [Next]_vars PROVE Inv'
      OBVIOUS
    <2> USE DEF Labels
    <2>1. CASE Erase \/ FlashFails \/ Crash \/ ProgramWord
      BY <2>1, EraseKeeps, FailKeeps, CrashKeeps, ProgramKeeps, Zenon
    <2>2. CASE LoaderStarts \/ Commit \/ Abort \/ SocCtrl \/ JudgeWaits
               \/ BootLoaderCancel \/ Wake
      BY <2>2, TurnKeeps, Zenon
    <2>3. CASE Cut \/ JudgeResets \/ GotoResets
      BY <2>3, EndKeeps, Zenon
    <2>4. CASE WriteUpgradeMark \/ DataRecInit
      BY <2>4, StartKeeps, RecInitKeeps, Zenon
    <2>5. CASE PowerOff \/ JudgeSaves \/ BootGoto \/ ResetFactory
      BY <2>5, SaveKeeps, Zenon
    <2>6. CASE Skip("can", "uart")
      BY <2>6, SkipKeeps
    <2>7. CASE Skip("uart", "power")
      BY <2>7, SkipKeeps
    <2>8. CASE Skip("power", "soc")
      BY <2>8, SkipKeeps
    <2>9. CASE Skip("soc", "judge")
      BY <2>9, SkipKeeps
    <2>10. CASE Skip("judge", "can")
      BY <2>10, SkipKeeps
    <2>11. CASE UNCHANGED vars
      BY <2>11, TypeSplit
         DEF Inv, TypeFlags, Resting, Writing, Planned, Asked, PageOK, Valid, CrcCalc,
             KeptIn, Partly, vars, write, boot, history
    <2> QED BY <2>1, <2>2, <2>3, <2>4, <2>5, <2>6, <2>7, <2>8, <2>9, <2>10, <2>11, Zenon
            DEF Next, Run
  <1> QED BY <1>1, <1>2, PTL DEF Spec

(* Every variable keeps its type.                                          *)
THEOREM TypeCorrect == Spec => []TypeOK
  <1>1. Inv => TypeOK
    BY DEF Inv
  <1> QED BY <1>1, InvariantHolds, PTL

(* What a start reads is what the last finished save held, or nothing when *)
(* a write was broken off after it (PowerDownSaveDataRead).                *)
THEOREM StartReadsOldOrNothing == Spec => []OldOrNothing
  <1>1. Inv => OldOrNothing
    <2> SUFFICES ASSUME Inv, at = "init"
                 PROVE  Kept(PowerDownSaveDataRead(page))
                           \in {last} \cup (IF torn THEN {Kept(Cleared)} ELSE {})
      BY DEF OldOrNothing
    <2>1. PageOK(page)
      BY DEF Inv, Resting
    <2>2. CASE Valid(page)
      <3>1. Kept(PowerDownSaveDataRead(page)) = KeptIn(page.body)
        BY <2>2 DEF PowerDownSaveDataRead, Kept, KeptIn
      <3> QED BY <3>1, <2>1, <2>2 DEF PageOK
    <2>3. CASE ~Valid(page)
      <3>1. PowerDownSaveDataRead(page) = Cleared /\ torn
        BY <2>1, <2>3 DEF PowerDownSaveDataRead, PageOK
      <3> QED BY <3>1
    <2> QED BY <2>2, <2>3
  <1> QED BY <1>1, InvariantHolds, PTL

(* The boot loader finds no mark nobody asked for.                         *)
THEOREM MarkIsAskedFor == Spec => []MarkIsMeant
  <1>1. Inv => MarkIsMeant
    BY DEF Inv, Asked, MarkIsMeant
  <1> QED BY <1>1, InvariantHolds, PTL

----------------------------------------------------------------------------
(* A page that claims a regular power-off; while no flash operation has    *)
(* failed there is such a page only where nothing has been forgotten since.*)
SaysOff(p) == Valid(p) /\ p.body[1] = "off"

PageTrust ==
    (at = "write" => done = 0) /\ SaysOff(page) =>
       \/ /\ at \in {"loader", "start", "init", "off"} \/ (at = "write" /\ then = "init")
          /\ KeptIn(page.body) = final
       \/ /\ at \in {"cut", "judged", "reset"} \/ (at = "write" /\ then = "can")
          /\ KeptIn(page.body) = Kept(ram)

WriteTrust ==
    at = "write" =>
       \/ then = "init" /\ (SaysOff(buf) => KeptIn(buf.body) = final)
       \/ then \in {"can", "power"} /\ buf.body[1] # "off"
       \/ then \in {"cut", "judged", "reset"} /\ KeptIn(buf.body) = Kept(ram)

Trust == ~faulty => PageTrust /\ WriteTrust

(* What is kept of a record is what is kept of its page.                   *)
LEMMA PageKeeps ==
    ASSUME NEW d \in Records
    PROVE  /\ KeptIn(PageOf(d).body) = Kept(d) /\ PageOf(d).body[1] = d.power
  BY PageOfTyped DEF KeptIn, Kept

(* A page being written says nothing.                                      *)
LEMMA PartlySaysNothing ==
    ASSUME NEW q, NEW n PROVE ~SaysOff(Partly(q, n))
  BY PartlyNotValid DEF SaysOff

(* The claim of a page over the flash operations that succeed, ...         *)
LEMMA FlashTrust ==
    ASSUME Inv, Trust, ~faulty', Erase \/ ProgramWord PROVE Trust'
  <1>0. TypeFlags /\ PageTrust /\ WriteTrust /\ at = "write"
    <2>1. ~faulty
      BY DEF Erase, ProgramWord
    <2> QED BY <2>1, TypeSplit DEF Inv, Trust, Erase, ProgramWord
  <1>1. UNCHANGED <<ram, final>>
    BY DEF Erase, ProgramWord
  <1>2. CASE UNCHANGED <<at, buf, then>> /\ done' # 0
    BY <1>0, <1>1, <1>2 DEF Trust, PageTrust, WriteTrust, SaysOff, Valid, CrcCalc,
                            KeptIn, Kept
  <1>3. CASE ~(UNCHANGED <<at, buf, then>> /\ done' # 0)
    <2>1. ProgramWord /\ done = 4
      BY <1>0, <1>3, LenWords DEF Erase, ProgramWord, TypeFlags
    <2>2. page' = buf
      BY <1>0, <2>1, WordAdded, LenWords DEF Inv, Writing, TypeFlags, ProgramWord
    <2>3. at' = then /\ then \in Nexts
      BY <1>0, <2>1, LenWords DEF ProgramWord, EndWrite, TypeFlags
    <2>4. WriteTrust'
      BY <2>3 DEF WriteTrust, Nexts
    <2>5. PageTrust'
      BY <1>0, <1>1, <2>2, <2>3
         DEF PageTrust, WriteTrust, SaysOff, Valid, CrcCalc, KeptIn, Kept
    <2> QED BY <2>4, <2>5 DEF Trust
  <1> QED BY <1>2, <1>3

(* ... over a crash, ...                                                   *)
LEMMA CrashTrust == ASSUME Inv, Trust, ~faulty', Crash PROVE Trust'
  <1>0. TypeFlags /\ PageTrust /\ WriteTrust
    BY TypeSplit DEF Inv, Trust, Crash
  <1>1. at' = "loader" /\ page' = page
    BY DEF Crash, Ends
  <1>2. CASE at = "write" /\ done # 0
    <2>1. ~SaysOff(page)
      BY <1>0, <1>2, PartlySaysNothing DEF Inv, Writing, TypeFlags
    <2> QED BY <1>1, <2>1 DEF Trust, PageTrust, WriteTrust, SaysOff, Valid, CrcCalc
  <1>3. CASE at = "write" => done = 0
    <2>1. final' = IF Started THEN Kept(ram) ELSE final
      BY DEF Crash
    <2>2. SaysOff(page) => KeptIn(page.body) = final'
      BY <1>0, <1>3, <2>1 DEF PageTrust, Started, Crash
    <2> QED BY <1>1, <2>2
            DEF Trust, PageTrust, WriteTrust, SaysOff, Valid, CrcCalc, KeptIn
  <1> QED BY <1>2, <1>3

(* While the tasks of a turn run, the page says nothing of a power-off.    *)
LEMMA TurnTrust ==
    ASSUME Trust, ~faulty, at \in {"can", "uart", "power", "soc", "judge"},
           at' # "write", page' = page
    PROVE  Trust'
  BY DEF Trust, PageTrust, WriteTrust, SaysOff, Valid, CrcCalc

(* ... over the steps of the loop that write nothing, ...                  *)
LEMMA RunTrust ==
    ASSUME Inv, Trust, ~faulty',
           \/ Commit \/ Abort \/ SocCtrl \/ JudgeWaits \/ BootLoaderCancel
           \/ Skip("can", "uart") \/ Skip("uart", "power") \/ Skip("power", "soc")
           \/ Skip("soc", "judge") \/ Skip("judge", "can")
    PROVE  Trust'
  <1>1. ~BootLoaderCancel
    BY DEF BootLoaderCancel
  <1>2. ~faulty
    BY <1>1 DEF Commit, Abort, SocCtrl, JudgeWaits, Skip, history
  <1>3. at \in {"can", "uart", "power", "soc", "judge"} /\ at' # "write" /\ page' = page
    BY <1>1 DEF Commit, Abort, SocCtrl, JudgeWaits, Skip
  <1> QED BY <1>2, <1>3, TurnTrust

(* ... over the ends and the beginnings of the application, ...            *)
LEMMA RestTrust ==
    ASSUME Inv, Trust, ~faulty',
           LoaderStarts \/ Wake \/ Cut \/ JudgeResets \/ GotoResets
    PROVE  Trust'
  <1>1. ~faulty /\ page' = page /\ at # "write" /\ at' # "write"
    BY DEF LoaderStarts, Wake, Cut, JudgeResets, GotoResets, Ends, history
  <1>2. CASE LoaderStarts \/ Wake
    <2>1. at \in {"loader", "off"} /\ at' \in {"loader", "start"} /\ final' = final
      BY <1>2 DEF LoaderStarts, Wake, history
    <2> QED BY <1>1, <2>1
            DEF Trust, PageTrust, WriteTrust, SaysOff, Valid, CrcCalc, KeptIn
  <1>3. CASE Cut \/ JudgeResets \/ GotoResets
    <2>1. /\ at \in {"cut", "judged", "reset"} /\ at' \in {"loader", "off"}
          /\ final' = Kept(ram)
      BY <1>3 DEF Cut, JudgeResets, GotoResets, Ends
    <2> QED BY <1>1, <2>1
            DEF Trust, PageTrust, WriteTrust, SaysOff, Valid, CrcCalc, KeptIn
  <1> QED BY <1>2, <1>3

(* ... over the rewriting of the page before it is read, ...               *)
LEMMA UpgradeMarkTrust ==
    ASSUME Inv, Trust, ~faulty', WriteUpgradeMark PROVE Trust'
  <1>0. /\ ~faulty /\ PageTrust /\ page \in Pages /\ at = "start"
        /\ UNCHANGED <<page, final>>
    BY TypeSplit DEF Inv, Trust, TypeFlags, WriteUpgradeMark, history
  <1>1. SaysOff(page) => KeptIn(page.body) = final
    BY <1>0 DEF PageTrust
  <1>2. CASE page.mark = "word"
    <2> DEFINE q == [page EXCEPT !.mark = Erased]
    <2>1. at' = "write" /\ done' = 0 /\ buf' = q /\ then' = "init"
      BY <1>2 DEF WriteUpgradeMark, BeginWrite
    <2>2. SaysOff(q) => KeptIn(q.body) = final
      BY <1>0, <1>1, Unmarked DEF SaysOff, KeptIn
    <2> HIDE DEF q
    <2> QED BY <1>0, <1>1, <2>1, <2>2
            DEF Trust, PageTrust, WriteTrust, SaysOff, Valid, CrcCalc, KeptIn
  <1>3. CASE page.mark # "word"
    <2>1. at' = "init"
      BY <1>3 DEF WriteUpgradeMark
    <2> QED BY <1>0, <1>1, <2>1
            DEF Trust, PageTrust, WriteTrust, SaysOff, Valid, CrcCalc, KeptIn
  <1> QED BY <1>2, <1>3

(* The record of a start is on, holds the data it read, and its lock only  *)
(* from a regular power-off.                                               *)
LEMMA StartRecordKeeps ==
    ASSUME NEW p \in Pages
    PROVE  LET d == PowerDownSaveDataRead(p)
           IN  /\ StartRecord(d).power = "on"
               /\ Kept(StartRecord(d)) = <<d.data, Believed(d)>>
  <1> DEFINE d == PowerDownSaveDataRead(p)
  <1>1. d \in [mark : {p.mark, "none"}, size : {"none", "image"},
               power : {p.body[1], "none"}, data : Data, lock : BOOLEAN]
    BY ReadTyped
  <1> HIDE DEF d
  <1>2. /\ StartRecord(d).power = "on" /\ StartRecord(d).data = d.data
        /\ StartRecord(d).lock = Believed(d)
    BY <1>1 DEF StartRecord
  <1>3. Kept(StartRecord(d)) = <<d.data, Believed(d)>>
    BY <1>2 DEF Kept
  <1> QED BY <1>2, <1>3 DEF d

(* The power mark a start reads is that of the page.                       *)
LEMMA SaysOffRead ==
    ASSUME NEW p \in Pages
    PROVE  LET d == PowerDownSaveDataRead(p)
           IN  /\ Believed(d) \/ d.power = "off" => SaysOff(p)
               /\ SaysOff(p) => /\ Kept(d) = KeptIn(p.body)
                                /\ Kept(d) = <<d.data, Believed(d)>>
  <1> DEFINE d == PowerDownSaveDataRead(p)
  <1>1. CASE Valid(p)
    <2>1. /\ d.power = p.body[1] /\ d.data = p.body[2] /\ d.lock = p.body[3]
      BY <1>1 DEF PowerDownSaveDataRead
    <2>2. p.body[3] \in BOOLEAN
      BY <1>1, ValidHasBody DEF Bodies
    <2> HIDE DEF d
    <2>3. Believed(d) \/ d.power = "off" => SaysOff(p)
      BY <1>1, <2>1 DEF Believed, SaysOff
    <2>4. SaysOff(p) => (Believed(d) <=> d.lock)
      BY <2>1 DEF Believed, SaysOff
    <2>5. Believed(d) \in BOOLEAN /\ d.lock \in BOOLEAN
      BY <2>1, <2>2 DEF Believed
    <2>6. SaysOff(p) => Believed(d) = d.lock
      BY <2>4, <2>5
    <2>7. Kept(d) = KeptIn(p.body) /\ Kept(d) = <<d.data, d.lock>>
      BY <2>1 DEF Kept, KeptIn
    <2>8. SaysOff(p) => Kept(d) = <<d.data, Believed(d)>>
      BY <2>6, <2>7
    <2> QED BY <2>3, <2>7, <2>8 DEF d
  <1>2. CASE ~Valid(p)
    <2>1. d = Cleared /\ ~SaysOff(p)
      BY <1>2 DEF PowerDownSaveDataRead, SaysOff
    <2>2. ~Believed(Cleared) /\ Cleared.power # "off"
      BY DEF Believed, Cleared
    <2> HIDE DEF d
    <2>3. ~(Believed(d) \/ d.power = "off")
      BY <2>1, <2>2
    <2> QED BY <2>1, <2>3 DEF d
  <1> QED BY <1>1, <1>2

(* ... over the start, ...                                                 *)
LEMMA RecInitTrust ==
    ASSUME Inv, Trust, ~faulty', DataRecInit PROVE Trust'
  <1>0. page \in Pages /\ ~faulty /\ page' = page
    BY TypeSplit DEF Inv, TypeFlags, DataRecInit, history
  <1> DEFINE d == PowerDownSaveDataRead(page)
  <1>1. ram' = StartRecord(d) /\ at' = "write" /\ then' = "can" /\ buf' = PageOf(ram')
    BY DEF DataRecInit, BeginWrite
  <1>2. ram' \in Records /\ ram'.power = "on" /\ Kept(ram') = <<d.data, Believed(d)>>
    BY <1>0, <1>1, StartRecordTyped, StartRecordKeeps
  <1>3. buf'.body[1] = "on"
    BY <1>1, <1>2, PageKeeps
  <1>4. SaysOff(page) => KeptIn(page.body) = Kept(ram')
    BY <1>0, <1>2, SaysOffRead
  <1> HIDE DEF d
  <1>5. WriteTrust'
    BY <1>1, <1>3 DEF WriteTrust
  <1>6. PageTrust'
    BY <1>0, <1>1, <1>4 DEF PageTrust, SaysOff, Valid, CrcCalc, KeptIn, Kept
  <1> QED BY <1>5, <1>6 DEF Trust

(* ... and over the saves.                                                 *)
LEMMA SaveTrust ==
    ASSUME Inv, Trust, ~faulty', PowerOff \/ JudgeSaves \/ BootGoto \/ ResetFactory
    PROVE  Trust'
  <1>0. TypeFlags /\ ~faulty /\ PageTrust /\ page' = page
        /\ at \in {"uart", "power", "judge"}
    BY TypeSplit DEF Inv, Trust, PowerOff, JudgeSaves, BootGoto, ResetFactory, history
  <1>1. ~SaysOff(page)
    BY <1>0 DEF PageTrust
  <1>2. PageTrust'
    BY <1>0, <1>1 DEF PageTrust, SaysOff, Valid, CrcCalc
  <1>3. at' = "write" /\ buf' = PageOf(ram')
    BY DEF PowerOff, JudgeSaves, BootGoto, ResetFactory, PwrOffSave, BeginWrite
  <1>4. CASE ResetFactory
    <2>1. then' = "power" /\ ram' = Cleared
      BY <1>4 DEF ResetFactory, BeginWrite
    <2>2. buf'.body[1] # "off"
      BY <1>3, <2>1, ClearedTyped, PageKeeps DEF Cleared
    <2> QED BY <1>2, <1>3, <2>1, <2>2 DEF Trust, WriteTrust
  <1>5. CASE ~ResetFactory
    <2>1. then' \in {"cut", "judged", "reset"}
      BY <1>5 DEF PowerOff, JudgeSaves, BootGoto, PwrOffSave, BeginWrite
    <2>2. ram' \in Records
      BY <1>0, <1>5, RecordsMade
         DEF TypeFlags, PowerOff, JudgeSaves, BootGoto, PwrOffSave
    <2>3. KeptIn(buf'.body) = Kept(ram')
      BY <1>3, <2>2, PageKeeps
    <2> QED BY <1>2, <1>3, <2>1, <2>3 DEF Trust, WriteTrust, KeptIn, Kept
  <1> QED BY <1>4, <1>5

(* A lock that outlives a start, and a record that claims a regular        *)
(* power-off, are those the pack ended with (DataRecInit).                 *)
THEOREM TrustIsJustified == Spec => TrustedIsFinal
  <1>1. Init => Trust
    <2>1. ~SaysOff(NoPage)
      BY DEF SaysOff, NoPage, Valid, CrcCalc, NoWord
    <2> QED BY <2>1 DEF Init, Trust, PageTrust, WriteTrust
  <1>2. Inv /\ Trust /\ [Next]_vars => Trust'
    <2> SUFFICES ASSUME Inv, Trust, [Next]_vars, ~faulty' PROVE Trust'
      BY DEF Trust
    <2>1. CASE Erase \/ ProgramWord
      BY <2>1, FlashTrust
    <2>2. CASE Crash
      BY <2>2, CrashTrust
    <2>3. CASE \/ Commit \/ Abort \/ SocCtrl \/ JudgeWaits \/ BootLoaderCancel
               \/ Skip("can", "uart") \/ Skip("uart", "power") \/ Skip("power", "soc")
               \/ Skip("soc", "judge") \/ Skip("judge", "can")
      BY <2>3, RunTrust
    <2>4. CASE LoaderStarts \/ Wake \/ Cut \/ JudgeResets \/ GotoResets
      BY <2>4, RestTrust
    <2>5. CASE WriteUpgradeMark
      BY <2>5, UpgradeMarkTrust
    <2>6. CASE DataRecInit
      BY <2>6, RecInitTrust
    <2>7. CASE PowerOff \/ JudgeSaves \/ BootGoto \/ ResetFactory
      BY <2>7, SaveTrust
    <2>8. ~FlashFails
      BY DEF FlashFails
    <2>9. CASE UNCHANGED vars
      BY <2>9 DEF Trust, PageTrust, WriteTrust, SaysOff, Valid, CrcCalc, KeptIn, Kept,
                  vars, write, history
    <2> QED BY <2>1, <2>2, <2>3, <2>4, <2>5, <2>6, <2>7, <2>8, <2>9, Zenon DEF Next, Run
  <1> DEFINE read == PowerDownSaveDataRead(page)
             Justified == /\ at = "init" /\ at' = "write" /\ ~faulty
                          /\ read.power = "off" \/ ram'.lock
                          => Kept(read) = final
  <1>3. Inv /\ Trust /\ [Next]_vars => Justified
    <2> SUFFICES ASSUME Inv, Trust, [Next]_vars, at = "init", at' = "write", ~faulty,
                        read.power = "off" \/ ram'.lock
                 PROVE  Kept(read) = final
      OBVIOUS
    <2>1. page \in Pages /\ (SaysOff(page) => KeptIn(page.body) = final)
      BY TypeSplit DEF Inv, TypeFlags, Trust, PageTrust
    <2>2. DataRecInit \/ Crash \/ UNCHANGED at
      BY DEF Next, Run, Erase, ProgramWord, LoaderStarts, WriteUpgradeMark, Commit,
             Abort, Skip, ResetFactory, PowerOff, Cut, SocCtrl, JudgeWaits, JudgeSaves,
             JudgeResets, BootLoaderCancel, BootGoto, GotoResets, FlashFails, Wake, vars
    <2>3. ram' = StartRecord(read)
      BY <2>2 DEF DataRecInit, Crash, Ends
    <2>4. ram'.lock => Believed(read)
      <3>1. read \in [mark : {page.mark, "none"}, size : {"none", "image"},
                      power : {page.body[1], "none"}, data : Data, lock : BOOLEAN]
        BY <2>1, ReadTyped
      <3> HIDE DEF read
      <3>2. StartRecord(read).lock = Believed(read)
        BY <3>1 DEF StartRecord
      <3> QED BY <2>3, <3>2
    <2>5. SaysOff(page)
      BY <2>1, <2>4, SaysOffRead
    <2> QED BY <2>1, <2>5, SaysOffRead
  <1> QED BY <1>1, <1>2, <1>3, InvariantHolds, PTL DEF Spec, TrustedIsFinal
=============================================================================
