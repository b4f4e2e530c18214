------------------------------ MODULE OtaFrame ------------------------------
(***************************************************************************)
(* OtaSlReceiveProcess (CanOtaSL.c) puts the packets of the firmware       *)
(* update together from CAN frames of eight bytes.  The first frame holds  *)
(* the length; the last two bytes of the packet are its checksum.  Frames  *)
(* carry no number, so that after a lost frame the next packet is taken    *)
(* for the rest of the one before.                                         *)
(*                                                                         *)
(* The host (external, as in OtaTransfer) repeats a packet until it is     *)
(* answered.  Module OtaTransfer models what is done with a packet.        *)
(***************************************************************************)
EXTENDS Integers, Sequences

CONSTANTS
    Packets,      \* the packets the host may send
    Bytes,        \* the length of each on the wire, checksum included
    RxPackSize,   \* sizeof(OtaRxPack), 152
    StrayEqual,   \* the packets whose low checksum byte equals their DLC
    MaxBus        \* bound: frames in AndRxQueue and on the bus

(* A packet has a header and a checksum, 12 bytes, and fits into OtaRxPack. *)
(* The buffer holds whole frames and is small enough for DataCnt (u8) to    *)
(* count them and their bytes; then FrameDataLen (u16) does not wrap either. *)
ASSUME FrameAssumption ==
    /\ RxPackSize \in 0 .. 8 * 255 /\ RxPackSize % 8 = 0
    /\ Bytes \in [Packets -> 12 .. RxPackSize]
    /\ StrayEqual \subseteq Packets /\ MaxBus \in Nat \ {0}

Frames(p) == (Bytes[p] + 7) \div 8
Other     == "other pack"                        \* a packet for a neighbour
Frame     == [pkt : Packets \cup {Other}, n : Nat]

VARIABLES
    bus,          \* AndRxQueue
    got,          \* the frames in OtaRxPack; empty when PackIndex = 0
    frameLen,     \* FrameDataLen
    upgrading,    \* SlUpgradeTimer > 0
    answer,       \* what the firmware last answered
    delivered,    \* history: a packet was decoded since things settled
    sent, next,   \* the host: its packet, the frame to send
    silent,       \* the host has gone
    settled       \* from now on nothing is lost and the host sticks to it

rx        == <<got, frameLen, upgrading, answer, delivered>>
sender    == <<sent, next>>
frameVars == <<bus, rx, sender, silent, settled>>

FrameInit ==
    /\ bus = <<>> /\ got = <<>> /\ frameLen = 0 /\ upgrading = FALSE
    /\ answer = "none" /\ delivered = FALSE
    /\ sent \in Packets /\ next = 1 /\ silent = FALSE /\ settled = FALSE

-----------------------------------------------------------------------------
(* OtaSlReceiveProcess.                                                    *)
frame == Head(bus)
Receive ==
    bus # <<>> /\ bus' = Tail(bus) /\ UNCHANGED <<sender, silent, settled>>

(* Closed: anything but the first frame of a packet is ignored.  It starts *)
(* the upgrade timer when its sender byte names this pack, also when the   *)
(* receiver byte, which is looked at next, names another.                  *)
AnyFrame ==                            \* mutant: the head is not looked at
    /\ Receive /\ got = <<>> /\ frame.pkt # Other
    /\ upgrading' = TRUE /\ got' = <<frame>> /\ frameLen' = Bytes[frame.pkt]
    /\ UNCHANGED <<answer, delivered>>
FirstFrame ==
    /\ Receive /\ got = <<>>
    /\ IF frame.n # 1 THEN UNCHANGED <<got, frameLen, upgrading>>
       ELSE IF frame.pkt = Other
       THEN upgrading' \in {upgrading, TRUE} /\ UNCHANGED <<got, frameLen>>
       ELSE upgrading' = TRUE /\ got' = <<frame>> /\ frameLen' = Bytes[frame.pkt]
    /\ UNCHANGED <<answer, delivered>>

(* The frames are all those of one packet, in order.                       *)
Intact(fs) ==
    \E p \in Packets : /\ Len(fs) = Frames(p)
                       /\ \A i \in 1 .. Len(fs) : fs[i] = [pkt |-> p, n |-> i]

(* The checksum is that of the bytes received, and it is compared with the *)
(* last two bytes of the last frame.  When the packet ends with the first  *)
(* byte of a frame, the byte before the frame's data is read instead: the  *)
(* DLC of the frame.                                                       *)
LastByte == frameLen - 8 * Len(got)
ChecksumEqual(fs) == Intact(fs) /\ (LastByte >= 2 \/ fs[1].pkt \in StrayEqual)

MoreThan(n) == n * 8 > frameLen                 \* mutant: > for >=
Complete(n) == n * 8 >= frameLen

NextFrameStays ==                               \* mutant: PackIndex not reset
    /\ Receive /\ got # <<>>
    /\ LET fs == Append(got, frame)
       IN  IF ~Complete(Len(fs)) \/ ~ChecksumEqual(fs)
           THEN got' = (IF Complete(Len(fs)) THEN got ELSE fs)
                /\ UNCHANGED <<answer, delivered>>
           ELSE got' = <<>> /\ answer' = "ack" /\ delivered' = TRUE
    /\ UNCHANGED <<frameLen, upgrading>>

(* A packet that ends the update (OtaSlVarInit) stops the upgrade timer.   *)
(* For packets that fit, the test for too much data (line 549) would never *)
(* succeed and is not modelled, and the copy stays in OtaRxPack: RoomLeft. *)
(* The code does not check the length it is told: see FrameAssumption.     *)
NextFrame ==
    /\ Receive /\ got # <<>>
    /\ LET fs == Append(got, frame)
       IN  IF ~Complete(Len(fs))
           THEN got' = fs /\ UNCHANGED <<answer, delivered, upgrading>>
           ELSE /\ got' = <<>>
                /\ IF ChecksumEqual(fs)
                   THEN /\ answer' = "ack" /\ delivered' = TRUE
                        /\ upgrading' \in {upgrading, FALSE}
                   ELSE answer' = "fail" /\ UNCHANGED <<delivered, upgrading>>
    /\ UNCHANGED frameLen

OtaSlReceiveProcess == FirstFrame \/ NextFrame

-----------------------------------------------------------------------------
(* The host and the bus (external).                                        *)
PutFrame(f) == Len(bus) < MaxBus /\ bus' = Append(bus, f)

HostFrame ==
    /\ ~silent /\ next =< Frames(sent)
    /\ PutFrame([pkt |-> sent, n |-> next])
    /\ next' = next + 1
    /\ UNCHANGED <<rx, sent, silent, settled>>

(* No answer comes, or one that says the packet was damaged.               *)
HostRepeat ==
    /\ ~silent
    /\ \/ next > Frames(sent) /\ answer = "none" /\ (~settled \/ bus = <<>>)
       \/ answer = "fail"
    /\ next' = 1 /\ answer' = "none"
    /\ UNCHANGED <<bus, got, frameLen, upgrading, delivered, sent, silent, settled>>

HostAcked ==
    /\ ~silent /\ answer = "ack"
    /\ answer' = "none" /\ next' = 1 /\ sent' \in Packets
    /\ UNCHANGED <<bus, got, frameLen, upgrading, delivered, silent, settled>>

(* The host starts over with another packet, a neighbour is updated.       *)
HostChanges ==
    /\ ~silent /\ ~settled /\ next' = 1 /\ sent' \in Packets
    /\ UNCHANGED <<bus, rx, silent, settled>>

Neighbour ==
    /\ ~settled /\ \E n \in 1 .. 2 : PutFrame([pkt |-> Other, n |-> n])
    /\ UNCHANGED <<rx, sender, silent, settled>>

LoseFrame ==
    /\ ~settled
    /\ \/ bus # <<>> /\ bus' = Tail(bus) /\ UNCHANGED answer
       \/ answer' = "none" /\ UNCHANGED bus
    /\ UNCHANGED <<got, frameLen, upgrading, delivered, sender, silent, settled>>

BecomeSettled ==
    /\ ~settled /\ settled' = TRUE /\ delivered' = FALSE
    /\ UNCHANGED <<bus, got, frameLen, upgrading, answer, sender, silent>>

HostLeaves ==
    /\ settled /\ silent' = TRUE /\ UNCHANGED <<bus, rx, sender, settled>>

FrameNext ==
    \/ FirstFrame \/ NextFrame
    \/ HostFrame \/ HostRepeat \/ HostAcked \/ HostChanges
    \/ Neighbour \/ LoseFrame \/ BecomeSettled \/ HostLeaves

FrameSpec == FrameInit /\ [][FrameNext]_frameVars

(* The main loop polls the queue; the host goes on until it leaves.        *)
FairFrameSpec ==
    /\ FrameSpec /\ WF_frameVars(OtaSlReceiveProcess)
    /\ WF_frameVars(HostFrame) /\ WF_frameVars(HostRepeat)
    /\ WF_frameVars(HostAcked)

-----------------------------------------------------------------------------
(* Every variable has the type its C declaration gives it, and a packet    *)
(* under construction begins with its first frame, which gave its length.  *)
FrameTypeOK ==
    /\ bus \in Seq(Frame) /\ Len(bus) =< MaxBus
    /\ got \in Seq(Frame) /\ frameLen \in 0 .. RxPackSize
    /\ got # <<>> => got[1].n = 1 /\ frameLen = Bytes[got[1].pkt]
    /\ upgrading \in BOOLEAN /\ answer \in {"none", "ack", "fail"}
    /\ delivered \in BOOLEAN
    /\ sent \in Packets /\ next \in 1 .. Frames(sent) + 1
    /\ silent \in BOOLEAN /\ settled \in BOOLEAN

(* A packet under construction always has room for the next frame,         *)
(* whatever is lost: the state in which every further frame is refused and *)
(* which nothing leaves (line 549) is not reached, and the eight bytes of  *)
(* the next frame are copied to within OtaRxPack (line 556).               *)
RoomLeft ==
    got # <<>> => /\ Len(got) * 8 < frameLen
                  /\ (Len(got) + 1) * 8 =< RxPackSize

(* However many frames were lost and whatever is left in the buffer, once  *)
(* the bus works again a repeated packet is received intact; except one    *)
(* whose last frame holds a single byte, see ChecksumEqual.                *)
GetsThrough == settled ~> (delivered \/ silent \/ Bytes[sent] % 8 = 1)
=============================================================================
