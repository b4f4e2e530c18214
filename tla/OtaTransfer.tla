---------------------------- MODULE OtaTransfer ----------------------------
(***************************************************************************)
(* The firmware update over CAN (CanOtaSL.c): OtaSlReceiveDecode takes the *)
(* packets that OtaSlReceiveProcess (module OtaFrame) has put together,    *)
(* collects the image in two page buffers, writes full pages to flash and, *)
(* on the commit, checks the image and hands over to the boot loader.      *)
(*                                                                         *)
(* The host tool is not part of the repository.  It is modelled from the   *)
(* answers the firmware gives it: it sends one packet at a time, waits for *)
(* the answer to that kind of packet, repeats when none comes, and starts  *)
(* over when told that the update failed.  Packets and answers can be lost *)
(* (CAN errors, full queues); answers do not say which packet they answer. *)
(***************************************************************************)
EXTENDS Integers, Sequences

CONSTANTS
    Images,      \* what the host may send
    Size,        \* the length of each image
    Page,        \* SL_OTA_BUF_LEN
    Packet,      \* image data per packet
    MaxWaiting   \* bound: packets or answers under way

NoImage == "no image"                       \* a zeroed header

(* There is a longest image: the backup area has room for it.              *)
ASSUME ConstantsAssumption ==
    /\ Size \in [Images -> Nat \ {0}] /\ MaxWaiting \in Nat \ {0}
    /\ Page \in Nat \ {0} /\ Packet \in 1 .. Page
    /\ \E i \in Images : \A j \in Images : Size[j] =< Size[i]
    /\ NoImage \notin Images

Blank   == <<NoImage, 0>>

FlashSize == LET m == CHOOSE i \in Images : \A j \in Images : Size[j] =< Size[i]
             IN  ((Size[m] + Page - 1) \div Page) * Page

(* A byte of an image: the image and the offset in it.                     *)
Units == {Blank} \cup (Images \X (0 .. FlashSize - 1))

DataPackets(i) == (Size[i] + Packet - 1) \div Packet
CommitStep(i)  == DataPackets(i) + 2

VARIABLES
    header,      \* RxFotaHeader: the image it describes
    preSeq, wDataIndex, total,         \* PreSeq, wDataIndex, dwTotalRevLen
    wPageIndex, fileWr,                \* wPageIndex, OtaSlFileWrSize
    bufs, flash,                       \* OtaSlFlashBuf, the backup area
    bootMark,    \* DataFlashPowerDownSave.BootMark = FLASH_BOOT_BWK
    upgradeLen,
    img, step, waiting,                \* the host: image, packet, unanswered
    toBms, toHost,
    calm         \* from now on nothing is lost, repeated or given up

store == <<preSeq, wDataIndex, total, wPageIndex, fileWr, bufs, flash>>
boot  == <<bootMark, upgradeLen>>
host  == <<img, step, waiting>>
vars  == <<header, store, boot, host, toBms, toHost, calm>>

EmptyPage == [i \in 0 .. Page - 1 |-> Blank]

Init ==
    /\ header = NoImage /\ preSeq = 0 /\ wDataIndex = 0 /\ total = 0
    /\ wPageIndex = 0 /\ fileWr = 0
    /\ bufs = [p \in 0 .. 1 |-> EmptyPage]
    /\ flash = [i \in 0 .. FlashSize - 1 |-> Blank]
    /\ bootMark = FALSE /\ upgradeLen = 0
    /\ img \in Images /\ step = 0 /\ waiting = FALSE
    /\ toBms = <<>> /\ toHost = <<>> /\ calm = FALSE

-----------------------------------------------------------------------------
(* The packets: start, header (sequence number 1), data (2, 3, ...),       *)
(* commit, abort.  An answer repeats the kind; "fail" is OtaSlAbortCmd.    *)
Msg(kind, seq, i) == [kind |-> kind, seq |-> seq, img |-> i]

Kind(s, i) == IF s = 0 THEN "start" ELSE IF s = CommitStep(i) THEN "commit" ELSE "data"

(* The image data of the packet with sequence number seq.                  *)
First(seq)       == (seq - 2) * Packet
Payload(seq, i)  == [k \in 0 .. Size[i] - First(seq) - 1 |-> <<i, First(seq) + k>>]
Length(seq, i)   == IF Size[i] - First(seq) < Packet THEN Size[i] - First(seq) ELSE Packet

(* An answer that finds the queue full is lost.                            *)
Answer(kind) == toHost' = IF Len(toHost) < MaxWaiting THEN Append(toHost, kind) ELSE toHost

-----------------------------------------------------------------------------
(* OtaSlReceiveDecode.                                                     *)

(* Once the boot mark is set the firmware resets into the boot loader.     *)
Received ==
    /\ ~bootMark
    /\ toBms # <<>> /\ toBms' = Tail(toBms)
    /\ UNCHANGED <<host, calm>>
pkt == Head(toBms)

Start ==
    /\ Received /\ pkt.kind = "start"
    /\ preSeq' = 0
    /\ Answer("start")
    /\ UNCHANGED <<header, wDataIndex, total, wPageIndex, fileWr, bufs, flash, boot>>

NewFileKeepsIndex ==              \* mutant: wDataIndex is not reset
    /\ preSeq' = 1 /\ wPageIndex' = 0 /\ fileWr' = 0 /\ total' = 0
    /\ UNCHANGED wDataIndex
NewFile ==
    /\ preSeq' = 1 /\ wPageIndex' = 0 /\ fileWr' = 0 /\ total' = 0
    /\ wDataIndex' = 0

(* The magic number of the header is right.                                *)
HeaderPacket ==
    /\ Received /\ pkt.kind = "data" /\ pkt.seq = 1
    /\ header' = pkt.img
    /\ NewFile
    /\ Answer("data")
    /\ UNCHANGED <<bufs, flash, boot>>

(* The state of the store while a packet is being put away.                *)
Store == [index |-> wDataIndex, total |-> total, page |-> wPageIndex,
          written |-> fileWr, bufs |-> bufs, flash |-> flash]

Put(s, data, from, n) ==
    [s EXCEPT !.index = @ + n, !.total = @ + n,
              !.bufs[s.page] =
                 [i \in 0 .. Page - 1 |->
                    IF i \in s.index .. s.index + n - 1
                    THEN data[from + i - s.index] ELSE @[i]]]

(* OtaSlWriteFlash writes the page, clears the buffer, and its caller goes *)
(* on with the other buffer.                                               *)
OtherPage(p) == 1 - p

OtaSlWriteFlash(s) ==
    [s EXCEPT !.flash = [i \in DOMAIN @ |->
                           IF i \in s.written .. s.written + Page - 1
                           THEN s.bufs[s.page][i - s.written] ELSE @[i]],
              !.bufs[s.page] = EmptyPage,
              !.written = @ + Page, !.page = OtherPage(@), !.index = 0]

FlushIf(c, s) == IF c THEN OtaSlWriteFlash(s) ELSE s

PageOver(s) == s.index > Page     \* mutant: > for >=
PageFull(s) == s.index >= Page

PutPacket(data, n) ==
    LET room  == Page - wDataIndex
        first == IF n =< room THEN n ELSE room
        s1 == Put(Store, data, 0, first)
        s2 == FlushIf(PageFull(s1), s1)
        s3 == Put(s2, data, first, n - first)
    IN  FlushIf(s3.total = Size[header] /\ s3.index # 0, s3)

TakeStore(s) ==
    /\ wDataIndex' = s.index /\ total' = s.total
    /\ bufs' = s.bufs /\ flash' = s.flash

(* OtaSlVarInit and PreSeq = 0: the update is given up.  The counts of     *)
(* received data are left as they are.                                     *)
KeepsSequence ==                  \* mutant: PreSeq is not reset
    /\ header' = NoImage /\ fileWr' = 0 /\ wPageIndex' = 0 /\ UNCHANGED preSeq
OtaSlVarInit ==
    /\ header' = NoImage /\ fileWr' = 0 /\ wPageIndex' = 0 /\ preSeq' = 0

(* The next packet of the file.  More data than the header announces ends  *)
(* the update.                                                             *)
InSequence == pkt.seq = preSeq + 1

DataPacket ==
    /\ Received /\ pkt.kind = "data" /\ pkt.seq # 1 /\ InSequence
    /\ header # NoImage           \* preSeq > 0: see HeaderKnown
    /\ LET s == PutPacket(Payload(pkt.seq, pkt.img), Length(pkt.seq, pkt.img))
       IN  /\ TakeStore(s)
           /\ IF s.total > Size[header]
              THEN OtaSlVarInit /\ Answer("fail")
              ELSE /\ preSeq' = pkt.seq
                   /\ wPageIndex' = s.page /\ fileWr' = s.written
                   /\ Answer("data") /\ UNCHANGED header
    /\ UNCHANGED boot

(* A packet out of sequence is dropped, and acknowledged like any other.   *)
StaleUnanswered ==                \* mutant: dropped without an answer
    /\ Received /\ pkt.kind = "data" /\ pkt.seq # 1 /\ ~InSequence
    /\ UNCHANGED <<header, store, boot, toHost>>
StalePacket ==
    /\ Received /\ pkt.kind = "data" /\ pkt.seq # 1 /\ ~InSequence
    /\ Answer("data")
    /\ UNCHANGED <<header, store, boot>>

(* The checksum of the flash is the one in the header: of a header that    *)
(* was never received, or zeroed, both are those of no data at all.        *)
ChecksumIgnored == TRUE           \* mutant
ChecksumRight ==
    \/ header = NoImage
    \/ \A i \in 0 .. Size[header] - 1 : flash[i] = <<header, i>>

Commit ==
    /\ Received /\ pkt.kind = "commit"
    /\ IF ChecksumRight
       THEN /\ bootMark' = TRUE
            /\ upgradeLen' = IF header = NoImage THEN 0 ELSE Size[header]
            /\ Answer("commit")
       ELSE Answer("fail") /\ UNCHANGED boot
    /\ UNCHANGED <<header, store>>

Abort ==
    /\ Received /\ pkt.kind = "abort"
    /\ OtaSlVarInit
    /\ Answer("abort")
    /\ UNCHANGED <<wDataIndex, total, bufs, flash, boot>>

OtaSlReceiveDecode ==
    Start \/ HeaderPacket \/ DataPacket \/ StalePacket \/ Commit \/ Abort

(* A reset of the microcontroller in the middle: only the flash survives.  *)
Restart ==
    /\ ~calm /\ ~bootMark
    /\ header' = NoImage /\ preSeq' = 0 /\ wDataIndex' = 0 /\ total' = 0
    /\ wPageIndex' = 0 /\ fileWr' = 0
    /\ bufs' = [p \in 0 .. 1 |-> EmptyPage]
    /\ toBms' = <<>>
    /\ UNCHANGED <<flash, boot, host, toHost, calm>>

-----------------------------------------------------------------------------
(* The host (external).                                                    *)
Send(msg) == toBms' = Append(toBms, msg)
PacketAt(s) == Msg(Kind(s, img), s, img)

HostSend ==
    /\ ~bootMark /\ step =< CommitStep(img) /\ Len(toBms) < MaxWaiting
    /\ \/ ~waiting
       \/ ~calm
       \/ toBms = <<>> /\ toHost = <<>>
    /\ Send(PacketAt(step)) /\ waiting' = TRUE
    /\ UNCHANGED <<header, store, boot, img, step, toHost, calm>>

HostReceive ==
    /\ ~bootMark /\ toHost # <<>> /\ toHost' = Tail(toHost)
    /\ IF Head(toHost) = "fail"
       THEN step' = 0 /\ waiting' = FALSE /\ img' \in Images
       ELSE IF waiting /\ Head(toHost) = Kind(step, img)
       THEN step' = step + 1 /\ waiting' = FALSE /\ UNCHANGED img
       ELSE UNCHANGED host
    /\ UNCHANGED <<header, store, boot, toBms, calm>>

HostAbort ==
    /\ ~bootMark /\ ~calm /\ Len(toBms) < MaxWaiting
    /\ Send(Msg("abort", 1, img))
    /\ step' = 0 /\ waiting' = FALSE /\ img' \in Images
    /\ UNCHANGED <<header, store, boot, toHost, calm>>

Lose ==
    /\ ~bootMark /\ ~calm
    /\ \/ toBms # <<>> /\ toBms' = Tail(toBms) /\ UNCHANGED toHost
       \/ toHost # <<>> /\ toHost' = Tail(toHost) /\ UNCHANGED toBms
    /\ UNCHANGED <<header, store, boot, host, calm>>

BecomeCalm ==
    /\ ~bootMark /\ ~calm /\ calm' = TRUE
    /\ UNCHANGED <<header, store, boot, host, toBms, toHost>>

Next ==
    \/ OtaSlReceiveDecode \/ Restart
    \/ HostSend \/ HostReceive \/ HostAbort \/ Lose \/ BecomeCalm

Spec == Init /\ [][Next]_vars

FairSpec ==
    /\ Spec
    /\ WF_vars(OtaSlReceiveDecode)
    /\ WF_vars(HostSend) /\ WF_vars(HostReceive)

-----------------------------------------------------------------------------
TypeOK ==
    /\ header \in Images \cup {NoImage}
    /\ preSeq \in Nat /\ wDataIndex \in 0 .. Page - 1 /\ total \in Nat
    /\ wPageIndex \in 0 .. 1 /\ fileWr \in 0 .. FlashSize
    /\ bufs \in [0 .. 1 -> [0 .. Page - 1 -> Units]]
    /\ flash \in [0 .. FlashSize - 1 -> Units]
    /\ bootMark \in BOOLEAN /\ upgradeLen \in Nat
    /\ img \in Images /\ step \in Nat /\ waiting \in BOOLEAN
    /\ Len(toBms) =< MaxWaiting /\ Len(toHost) =< MaxWaiting

(* While data are accepted the header they are counted against is known.   *)
HeaderKnown == preSeq > 0 => header # NoImage /\ total =< Size[header]

(* An answer does not say which packet it answers, so that the host can be *)
(* a whole image ahead of the firmware, and continue with its next image   *)
(* the one before.  OffsetsRight needs a bound on that: the last packet of *)
(* an image, when it is not full, is not followed by one of another image. *)
(* So it is when there is one image, when all have the same number of      *)
(* packets, or when all are whole packets.  WholeImage does not need it.   *)
Aligned ==
    \A j, k \in Images :
       Size[j] = DataPackets(j) * Packet \/ DataPackets(k) =< DataPackets(j)

(* Every byte that was accepted is at its place in the file, whether it is *)
(* still in a page buffer or already in flash; whatever was lost, repeated *)
(* or aborted before, and wherever packets cross the pages.                *)
Stored(i) == IF i < fileWr THEN flash[i] ELSE bufs[wPageIndex][i - fileWr]
OffsetsRight == preSeq > 0 => \A i \in 0 .. total - 1 : Stored(i)[2] = i

(* The boot loader is never pointed at a part of an image, at a mixture of *)
(* two, or at one with a hole where an acknowledged packet was dropped.    *)
WholeImage ==
    bootMark /\ upgradeLen > 0 =>
       \E i \in Images : /\ upgradeLen = Size[i]
                         /\ \A k \in 0 .. upgradeLen - 1 : flash[k] = <<i, k>>

(* When packets and answers are no longer lost, the update comes to its    *)
(* end, whatever mess the losses before have left.                         *)
UpdateEnds == calm ~> bootMark

(* CanOtaSL.c:473, the firmware restarts into the new image when the file  *)
(* was written to flash successfully.                                      *)
CommittedFile == bootMark => upgradeLen > 0
=============================================================================
