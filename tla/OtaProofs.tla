----------------------------- MODULE OtaProofs -----------------------------
(***************************************************************************)
(* Theorems about the firmware update over CAN, for every set of images,   *)
(* every page and packet length, and every number of messages under way.   *)
(* OtaTransfer: whatever is lost, repeated, aborted or interrupted by a    *)
(* reset, the boot loader is only pointed at a whole image, and the bytes  *)
(* accepted so far are at their offsets, in page buffers and flash.        *)
(* OtaFrame: a packet under construction always has room for a frame.      *)
(***************************************************************************)
EXTENDS OtaTransfer, OtaFrame, SequenceTheorems, TLAPS

USE ConstantsAssumption

-----------------------------------------------------------------------------
(* Numbers.                                                                *)

(* A length rounded up to whole units.                                     *)
LEMMA RoundUp ==
    ASSUME NEW a \in Nat, NEW b \in Nat \ {0}
    PROVE  LET q == (a + b - 1) \div b
           IN  q \in Nat /\ a =< q * b /\ q * b < a + b
  <1> DEFINE q == (a + b - 1) \div b
  <1>1. a + b - 1 \in Nat
    OBVIOUS
  <1>2. q \in Nat /\ (a + b - 1) = b * q + ((a + b - 1) % b) /\ (a + b - 1) % b \in 0 .. b - 1
    BY <1>1
  <1>3. b * q = q * b /\ q * b \in Nat
    BY <1>2
  <1> QED BY <1>2, <1>3

(* A multiple below another leaves room for one more.                      *)
LEMMA NextMultiple ==
    ASSUME NEW a \in Nat, NEW k \in Nat, NEW p \in Nat \ {0}, a * p < k * p
    PROVE  a < k /\ (a + 1) * p = a * p + p /\ a * p + p =< k * p
  <1>1. (a + 1) * p = a * p + p
    OBVIOUS
  <1>2. a < k
    <2>1. CASE k =< a
      <3>1. PICK d \in Nat : a = k + d
        <4>1. a - k \in Nat /\ a = k + (a - k)
          BY <2>1
        <4> QED BY <4>1
      <3>2. a * p = k * p + d * p /\ d * p \in Nat
        BY <3>1
      <3> QED BY <3>2
    <2> QED BY <2>1
  <1>3. PICK d \in Nat : k = (a + 1) + d
    <2>1. k - (a + 1) \in Nat /\ k = (a + 1) + (k - (a + 1))
      BY <1>2
    <2> QED BY <2>1
  <1>4. k * p = (a + 1) * p + d * p /\ d * p \in Nat
    BY <1>3
  <1> QED BY <1>1, <1>2, <1>4

(* The backup area holds every image, in whole pages.                      *)
LEMMA FlashRoom ==
    /\ FlashSize \in Nat
    /\ \E k \in Nat : FlashSize = k * Page
    /\ \A i \in Images : Size[i] \in Nat \ {0} /\ Size[i] =< FlashSize
  <1> DEFINE longest(m) == \A j \in Images : Size[j] =< Size[m]
             m == CHOOSE i \in Images : longest(i)
  <1>1. m \in Images /\ longest(m)
    <2>1. \E i \in Images : longest(i)
      OBVIOUS
    <2> QED BY <2>1
  <1>2. FlashSize = ((Size[m] + Page - 1) \div Page) * Page
    BY DEF FlashSize
  <1>3. Size[m] \in Nat
    BY <1>1
  <1> HIDE DEF m
  <1> DEFINE k == (Size[m] + Page - 1) \div Page
  <1>4. k \in Nat /\ Size[m] =< k * Page
    BY <1>3, RoundUp
  <1>5. FlashSize = k * Page
    BY <1>2
  <1> HIDE DEF k
  <1>6. k * Page \in Nat
    BY <1>4
  <1> QED BY <1>1, <1>3, <1>4, <1>5, <1>6

(* The packets of an image are full but for the last.                      *)
LEMMA PacketsOfImage ==
    ASSUME NEW i \in Images
    PROVE  /\ DataPackets(i) \in Nat \ {0}
           /\ Size[i] =< DataPackets(i) * Packet
           /\ (DataPackets(i) - 1) * Packet < Size[i]
           /\ DataPackets(i) * Packet \in Nat /\ (DataPackets(i) - 1) * Packet \in Nat
  <1>1. Size[i] \in Nat \ {0} /\ Packet \in Nat \ {0}
    OBVIOUS
  <1>2. /\ DataPackets(i) \in Nat /\ Size[i] =< DataPackets(i) * Packet
        /\ DataPackets(i) * Packet < Size[i] + Packet
    BY <1>1, RoundUp DEF DataPackets
  <1> DEFINE d == DataPackets(i)
  <1>3. d \in Nat /\ Size[i] =< d * Packet /\ d * Packet < Size[i] + Packet
    BY <1>2
  <1> HIDE DEF d
  <1>4. d # 0
    BY <1>1, <1>3
  <1>5. (d - 1) * Packet = d * Packet - Packet /\ d * Packet \in Nat /\ (d - 1) * Packet \in Nat
    BY <1>1, <1>3, <1>4
  <1> QED BY <1>1, <1>3, <1>4, <1>5 DEF d

(* What the host sends: the data packets are those of the image.           *)
Messages ==
    {m \in [kind : {"start", "data", "commit", "abort"}, seq : Nat, img : Images] :
        m.kind = "data" => m.seq \in 1 .. DataPackets(m.img) + 1}
Answers == {"start", "data", "commit", "abort", "fail"}

(* The data of a packet, from the second sequence number on.               *)
LEMMA PayloadKnown ==
    ASSUME NEW i \in Images, NEW seq \in 2 .. DataPackets(i) + 1
    PROVE  /\ First(seq) \in Nat /\ Length(seq, i) \in 1 .. Packet
           /\ First(seq) + Length(seq, i) =< Size[i]
           /\ \A k \in 0 .. Length(seq, i) - 1 :
                 Payload(seq, i)[k] = <<i, First(seq) + k>> /\ Payload(seq, i)[k] \in Units
  <1> DEFINE d == DataPackets(i)
             f == First(seq)
  <1>1. Size[i] \in Nat \ {0} /\ Size[i] =< FlashSize /\ FlashSize \in Nat /\ Packet \in Nat \ {0}
    BY FlashRoom
  <1>2. d \in Nat \ {0} /\ (d - 1) * Packet < Size[i] /\ (d - 1) * Packet \in Nat
    BY PacketsOfImage
  <1>3. f = (seq - 2) * Packet /\ seq - 2 \in Nat /\ seq - 2 =< d - 1 /\ d - 1 \in Nat
    BY <1>2 DEF First
  <1> HIDE DEF d, f
  <1>4. f \in Nat /\ f =< (d - 1) * Packet
    <2> DEFINE s == seq - 2
               e == d - 1
    <2>1. s \in Nat /\ e \in Nat /\ s =< e
      BY <1>3
    <2> HIDE DEF s, e
    <2>2. PICK x \in Nat : e = s + x
      <3>1. e - s \in Nat /\ e = s + (e - s)
        BY <2>1
      <3> QED BY <3>1
    <2>3. e * Packet = s * Packet + x * Packet /\ x * Packet \in Nat /\ s * Packet \in Nat
      BY <2>1, <2>2, <1>1
    <2> QED BY <2>3, <1>3 DEF s, e
  <1>5. f < Size[i]
    BY <1>1, <1>2, <1>4
  <1> DEFINE n == Length(seq, i)
  <1>6. n \in 1 .. Packet /\ f + n =< Size[i]
    BY <1>1, <1>4, <1>5 DEF Length, f
  <1>7. \A k \in 0 .. Size[i] - f - 1 : Payload(seq, i)[k] = <<i, f + k>>
    BY DEF Payload, f
  <1> HIDE DEF n
  <1>8. ASSUME NEW k \in 0 .. n - 1
        PROVE  k \in 0 .. Size[i] - f - 1 /\ f + k \in 0 .. FlashSize - 1
    BY <1>1, <1>4, <1>6
  <1>9. \A k \in 0 .. n - 1 : Payload(seq, i)[k] = <<i, f + k>> /\ <<i, f + k>> \in Units
    BY <1>7, <1>8 DEF Units
  <1> QED BY <1>4, <1>6, <1>9 DEF f, n

-----------------------------------------------------------------------------
(* The store.                                                              *)

Bufs    == [0 .. 1 -> [0 .. Page - 1 -> Units]]
Flashes == [0 .. FlashSize - 1 -> Units]
Stores  == [index : 0 .. Page, total : Nat, page : 0 .. 1, written : Nat,
            bufs : Bufs, flash : Flashes]

(* The byte of the file at an offset, wherever it is.                      *)
At(s, i) == IF i < s.written THEN s.flash[i] ELSE s.bufs[s.page][i - s.written]

Counted(s) == s.total = s.written + s.index
Placed(s)  == \A i \in 0 .. s.total - 1 : At(s, i)[2] = i
InFlash(s) == s.written >= s.total

(* A cleared buffer is a page.                                             *)
LEMMA EmptyPageTyped == EmptyPage \in [0 .. Page - 1 -> Units]
  BY DEF EmptyPage, Units

(* There are n bytes of data, and room for them in the page in use.        *)
Fits(s, data, from, n) ==
    /\ s.index + n =< Page
    /\ \A k \in 0 .. n - 1 : data[from + k] \in Units

(* r is s with n bytes of data put into the page in use.                   *)
IsPut(r, s, data, from, n) ==
    /\ r.index = s.index + n /\ r.total = s.total + n
    /\ r.page = s.page /\ r.written = s.written /\ r.flash = s.flash
    /\ \A i \in 0 .. Page - 1 :
          r.bufs[s.page][i] = (IF i \in s.index .. s.index + n - 1
                               THEN data[from + i - s.index]
                               ELSE s.bufs[s.page][i])

LEMMA PutTyped ==
    ASSUME NEW s \in Stores, NEW data, NEW from \in Nat, NEW n \in Nat,
           Fits(s, data, from, n)
    PROVE  Put(s, data, from, n) \in Stores /\ IsPut(Put(s, data, from, n), s, data, from, n)
  <1> DEFINE r == Put(s, data, from, n)
             pg == [i \in 0 .. Page - 1 |->
                      IF i \in s.index .. s.index + n - 1
                      THEN data[from + i - s.index] ELSE s.bufs[s.page][i]]
  <1>1. /\ s.index \in Nat /\ s.total \in Nat /\ s.page \in 0 .. 1 /\ s.written \in Nat
        /\ s.bufs \in Bufs /\ s.flash \in Flashes
    BY DEF Stores
  <1>2. pg \in [0 .. Page - 1 -> Units]
    <2>1. ASSUME NEW i \in 0 .. Page - 1 PROVE pg[i] \in Units
      <3>1. CASE i \in s.index .. s.index + n - 1
        <4>1. i - s.index \in 0 .. n - 1 /\ from + (i - s.index) = from + i - s.index
          BY <3>1, <1>1
        <4>2. data[from + i - s.index] \in Units
          BY <4>1 DEF Fits
        <4> QED BY <4>2, <3>1
      <3>2. CASE i \notin s.index .. s.index + n - 1
        BY <3>2, <1>1 DEF Bufs
      <3> QED BY <3>1, <3>2
    <2> HIDE DEF pg
    <2>2. pg = [i \in 0 .. Page - 1 |-> pg[i]]
      BY DEF pg
    <2> QED BY <2>1, <2>2
  <1>3. r = [s EXCEPT !.index = s.index + n, !.total = s.total + n, !.bufs[s.page] = pg]
    BY DEF Put
  <1> HIDE DEF r, pg
  <1> DEFINE b == [s.bufs EXCEPT ![s.page] = pg]
  <1>4. b \in Bufs /\ b[s.page] = pg
    BY <1>1, <1>2 DEF Bufs
  <1>5. r = [s EXCEPT !.index = s.index + n, !.total = s.total + n, !.bufs = b]
    BY <1>3, <1>1 DEF Stores
  <1> HIDE DEF b
  <1>6. s.index + n \in 0 .. Page /\ s.total + n \in Nat
    BY <1>1 DEF Fits
  <1>7. r \in Stores
    BY <1>4, <1>5, <1>6, Zenon DEF Stores
  <1>8. /\ r.index = s.index + n /\ r.total = s.total + n /\ r.bufs = b
        /\ r.page = s.page /\ r.written = s.written /\ r.flash = s.flash
    BY <1>5 DEF Stores
  <1>9. \A i \in 0 .. Page - 1 :
           pg[i] = (IF i \in s.index .. s.index + n - 1
                    THEN data[from + i - s.index] ELSE s.bufs[s.page][i])
    BY DEF pg
  <1> QED BY <1>4, <1>7, <1>8, <1>9 DEF r, IsPut

(* A page written to flash.                                                *)
LEMMA FlushTyped ==
    ASSUME NEW s \in Stores
    PROVE  LET r == OtaSlWriteFlash(s)
           IN  /\ r \in Stores
               /\ r.index = 0 /\ r.total = s.total /\ r.written = s.written + Page
               /\ \A i \in 0 .. FlashSize - 1 :
                     r.flash[i] = (IF i \in s.written .. s.written + Page - 1
                                   THEN s.bufs[s.page][i - s.written] ELSE s.flash[i])
  <1> DEFINE r == OtaSlWriteFlash(s)
             fl == [i \in DOMAIN s.flash |->
                      IF i \in s.written .. s.written + Page - 1
                      THEN s.bufs[s.page][i - s.written] ELSE s.flash[i]]
             b == [s.bufs EXCEPT ![s.page] = EmptyPage]
  <1>1. /\ s.index \in Nat /\ s.total \in Nat /\ s.page \in 0 .. 1 /\ s.written \in Nat
        /\ s.bufs \in Bufs /\ s.flash \in Flashes
    BY DEF Stores
  <1>2. DOMAIN s.flash = 0 .. FlashSize - 1
    BY <1>1 DEF Flashes
  <1>3. fl \in Flashes
    <2>1. ASSUME NEW i \in 0 .. FlashSize - 1 PROVE fl[i] \in Units
      <3>1. CASE i \in s.written .. s.written + Page - 1
        <4>1. i - s.written \in 0 .. Page - 1
          BY <3>1, <1>1
        <4>2. s.bufs[s.page][i - s.written] \in Units
          BY <4>1, <1>1 DEF Bufs
        <4> QED BY <4>2, <3>1, <1>2
      <3>2. CASE i \notin s.written .. s.written + Page - 1
        BY <3>2, <1>1, <1>2 DEF Flashes
      <3> QED BY <3>1, <3>2
    <2>2. fl = [i \in 0 .. FlashSize - 1 |-> fl[i]]
      BY <1>2
    <2> HIDE DEF fl
    <2> QED BY <2>1, <2>2 DEF Flashes
  <1>4. b \in Bufs
    BY <1>1, EmptyPageTyped DEF Bufs
  <1>5. r = [s EXCEPT !.flash = fl, !.bufs = b, !.written = s.written + Page,
                      !.page = OtherPage(s.page), !.index = 0]
    BY <1>1 DEF OtaSlWriteFlash, Stores
  <1>6. \A i \in 0 .. FlashSize - 1 :
           fl[i] = (IF i \in s.written .. s.written + Page - 1
                    THEN s.bufs[s.page][i - s.written] ELSE s.flash[i])
    BY <1>2
  <1> HIDE DEF r, fl, b
  <1>7. s.written + Page \in Nat /\ OtherPage(s.page) \in 0 .. 1 /\ 0 \in 0 .. Page
    BY <1>1 DEF OtherPage
  <1>8. r \in Stores
    BY <1>3, <1>4, <1>5, <1>7, Zenon DEF Stores
  <1>9. r.index = 0 /\ r.total = s.total /\ r.written = s.written + Page /\ r.flash = fl
    BY <1>5 DEF Stores
  <1> QED BY <1>6, <1>8, <1>9 DEF r

(* Bytes that continue the file are put at their places.                   *)
LEMMA PutPlaced ==
    ASSUME NEW s \in Stores, NEW data, NEW from \in Nat, NEW n \in Nat,
           Fits(s, data, from, n), Counted(s), Placed(s),
           \A k \in 0 .. n - 1 : data[from + k][2] = s.total + k
    PROVE  Placed(Put(s, data, from, n))
  <1> DEFINE r == Put(s, data, from, n)
  <1>1. /\ r.total = s.total + n /\ r.page = s.page /\ r.written = s.written /\ r.flash = s.flash
        /\ \A i \in 0 .. Page - 1 :
              r.bufs[s.page][i] = (IF i \in s.index .. s.index + n - 1
                                   THEN data[from + i - s.index]
                                   ELSE s.bufs[s.page][i])
    <2>1. IsPut(r, s, data, from, n)
      BY PutTyped
    <2> HIDE DEF r
    <2> QED BY <2>1 DEF IsPut
  <1>2. s.index \in Nat /\ s.total \in Nat /\ s.written \in Nat /\ s.total = s.written + s.index
    BY DEF Stores, Counted
  <1> HIDE DEF r
  <1>3. SUFFICES Placed(r)
    BY DEF r
  <1>s. SUFFICES ASSUME NEW i \in 0 .. r.total - 1 PROVE At(r, i)[2] = i
    BY DEF Placed
  <1>i. i \in 0 .. s.total + n - 1
    BY <1>1, <1>2
  <1>4. CASE i < s.total
    <2>1. At(s, i)[2] = i
      BY <1>4, <1>2 DEF Placed
    <2>2. CASE i < s.written
      BY <2>1, <2>2, <1>1 DEF At
    <2>3. CASE ~(i < s.written)
      <3>1. i - s.written \in 0 .. Page - 1 /\ i - s.written \notin s.index .. s.index + n - 1
        BY <2>3, <1>2, <1>4, <1>i DEF Stores
      <3>2. r.bufs[s.page][i - s.written] = s.bufs[s.page][i - s.written]
        BY <3>1, <1>1
      <3> QED BY <3>2, <2>1, <2>3, <1>1 DEF At
    <2> QED BY <2>2, <2>3
  <1>5. CASE ~(i < s.total)
    <2> DEFINE k == i - s.total
               j == i - s.written
    <2>1. k \in 0 .. n - 1 /\ j \in 0 .. Page - 1 /\ j \in s.index .. s.index + n - 1
          /\ from + j - s.index = from + k /\ ~(i < s.written) /\ s.total + k = i
      BY <1>2, <1>5, <1>i DEF Fits
    <2> HIDE DEF k, j
    <2>2. r.bufs[s.page][j] = data[from + k]
      BY <2>1, <1>1
    <2>3. data[from + k][2] = i
      BY <2>1
    <2> QED BY <2>1, <2>2, <2>3, <1>1 DEF At, j
  <1> QED BY <1>4, <1>5

(* Writing a page moves its bytes to their places in flash.                *)
LEMMA FlushPlaced ==
    ASSUME NEW s \in Stores, Counted(s), Placed(s), s.total =< FlashSize
    PROVE  LET r == OtaSlWriteFlash(s)
           IN  /\ InFlash(r) /\ Placed(r)
               /\ s.index = Page => Counted(r)
  <1> DEFINE r == OtaSlWriteFlash(s)
  <1>1. /\ r.index = 0 /\ r.total = s.total /\ r.written = s.written + Page
        /\ \A i \in 0 .. FlashSize - 1 :
              r.flash[i] = (IF i \in s.written .. s.written + Page - 1
                            THEN s.bufs[s.page][i - s.written] ELSE s.flash[i])
    BY FlushTyped
  <1>2. s.index \in 0 .. Page /\ s.total \in Nat /\ s.written \in Nat /\ s.total = s.written + s.index
        /\ FlashSize \in Nat
    BY FlashRoom DEF Stores, Counted
  <1> HIDE DEF r
  <1>3. ASSUME NEW i \in 0 .. s.total - 1 PROVE At(r, i)[2] = i
    <2>1. i \in 0 .. FlashSize - 1 /\ i < r.written /\ At(s, i)[2] = i
      BY <1>1, <1>2 DEF Placed
    <2>2. r.flash[i] = At(s, i)
      BY <2>1, <1>1, <1>2 DEF At
    <2> QED BY <2>1, <2>2 DEF At
  <1>4. Placed(r)
    BY <1>1, <1>3 DEF Placed
  <1>5. InFlash(r) /\ (s.index = Page => Counted(r))
    BY <1>1, <1>2 DEF InFlash, Counted
  <1> QED BY <1>4, <1>5 DEF r

(* Full pages have been written, no more than there are.                   *)
Whole(x) == \E a \in Nat : x = a * Page

(* A page with something in it has room in the backup area.                *)
LEMMA RoomForPage ==
    ASSUME NEW s \in Stores, Counted(s), Whole(s.written), s.index > 0, s.total =< FlashSize
    PROVE  s.written + Page =< FlashSize /\ Whole(s.written + Page)
  <1>1. /\ s.index \in Nat /\ s.total \in Nat /\ s.written \in Nat
        /\ s.total = s.written + s.index /\ FlashSize \in Nat
    BY FlashRoom DEF Stores, Counted
  <1>2. PICK a \in Nat : s.written = a * Page
    BY DEF Whole
  <1>3. PICK k \in Nat : FlashSize = k * Page
    BY FlashRoom
  <1>4. a * Page < k * Page
    BY <1>1, <1>2, <1>3
  <1>5. (a + 1) * Page = a * Page + Page /\ a * Page + Page =< k * Page
    BY <1>4, NextMultiple
  <1>6. a + 1 \in Nat /\ s.written + Page = (a + 1) * Page
    BY <1>2, <1>5
  <1> QED BY <1>2, <1>3, <1>5, <1>6 DEF Whole

(* The parts of a store that is within its limits.                         *)
Sound(s) == Counted(s) /\ Whole(s.written) /\ s.total =< FlashSize /\ s.written =< FlashSize

(* Bytes put into a page keep the counts.                                  *)
LEMMA PutSound ==
    ASSUME NEW s \in Stores, NEW r \in Stores, NEW data, NEW from \in Nat, NEW n \in Nat,
           IsPut(r, s, data, from, n), Sound(s), s.total + n =< FlashSize
    PROVE  Sound(r)
  BY FlashRoom DEF Sound, IsPut, Counted, Stores

(* A page that is written is within the backup area.                       *)
LEMMA FlushSound ==
    ASSUME NEW s \in Stores, Sound(s), s.index > 0
    PROVE  LET r == OtaSlWriteFlash(s)
           IN  /\ Whole(r.written) /\ r.written =< FlashSize /\ r.total =< FlashSize
               /\ InFlash(r)
               /\ s.index = Page => Counted(r)
               /\ Placed(s) => Placed(r)
  <1> DEFINE r == OtaSlWriteFlash(s)
  <1>1. r.index = 0 /\ r.total = s.total /\ r.written = s.written + Page
    BY FlushTyped
  <1>2. s.written + Page =< FlashSize /\ Whole(s.written + Page)
    BY RoomForPage DEF Sound
  <1>3. Placed(s) => Placed(r)
    BY FlushPlaced DEF Sound
  <1>4. s.index \in 0 .. Page /\ s.total \in Nat /\ s.written \in Nat
    BY DEF Stores
  <1> HIDE DEF r
  <1>5. InFlash(r) /\ (s.index = Page => Counted(r)) /\ r.total =< FlashSize
    BY <1>1, <1>4 DEF Sound, Counted, InFlash
  <1> QED BY <1>1, <1>2, <1>3, <1>5 DEF r

-----------------------------------------------------------------------------
StoreTyped ==
    /\ header \in Images \cup {NoImage}
    /\ preSeq \in Nat /\ wDataIndex \in 0 .. Page - 1 /\ total \in Nat
    /\ wPageIndex \in 0 .. 1 /\ fileWr \in 0 .. FlashSize /\ Whole(fileWr)
    /\ bufs \in Bufs /\ flash \in Flashes

(* The state of the store has its type.                                    *)
LEMMA StoreKnown ==
    ASSUME StoreTyped
    PROVE  /\ Store \in Stores
           /\ Store.index = wDataIndex /\ Store.total = total /\ Store.page = wPageIndex
           /\ Store.written = fileWr /\ Store.bufs = bufs /\ Store.flash = flash
  <1>1. /\ wDataIndex \in 0 .. Page /\ total \in Nat /\ wPageIndex \in 0 .. 1
        /\ fileWr \in Nat /\ bufs \in Bufs /\ flash \in Flashes
    BY FlashRoom DEF StoreTyped
  <1> QED BY <1>1, Zenon DEF Store, Stores

(* A packet is put away: what is counted, and where it is.                 *)
LEMMA PacketPut ==
    ASSUME StoreTyped, header \in Images,
           NEW data, NEW n \in 1 .. Packet, \A k \in 0 .. n - 1 : data[k] \in Units
    PROVE  LET s == PutPacket(data, n)
           IN  /\ s \in Stores /\ s.index \in 0 .. Page - 1 /\ s.total = total + n
               /\ total = fileWr + wDataIndex /\ total + n =< Size[header] =>
                     /\ s.written =< FlashSize /\ Whole(s.written)
                     /\ s.total < Size[header] => Counted(s)
                     /\ s.total = Size[header] => InFlash(s)
                     /\ Placed(Store) /\ (\A k \in 0 .. n - 1 : data[k][2] = total + k) =>
                           Placed(s)
  <1> DEFINE room  == Page - wDataIndex
             first == IF n =< room THEN n ELSE room
             s0 == Store
             s1 == Put(s0, data, 0, first)
             s2 == FlushIf(PageFull(s1), s1)
             s3 == Put(s2, data, first, n - first)
             s4 == FlushIf(s3.total = Size[header] /\ s3.index # 0, s3)
             enough == total = fileWr + wDataIndex /\ total + n =< Size[header]
             continued == Placed(s0) /\ (\A k \in 0 .. n - 1 : data[k][2] = total + k)
  <1>1. PutPacket(data, n) = s4
    BY DEF PutPacket
  <1>2. /\ s0 \in Stores /\ s0.index = wDataIndex /\ s0.total = total /\ s0.written = fileWr
    BY StoreKnown
  <1>3. /\ wDataIndex \in 0 .. Page - 1 /\ total \in Nat /\ fileWr \in 0 .. FlashSize
        /\ Whole(fileWr) /\ Size[header] \in Nat \ {0} /\ Size[header] =< FlashSize
        /\ FlashSize \in Nat
    BY FlashRoom DEF StoreTyped
  <1>4. /\ first \in 1 .. n /\ wDataIndex + first =< Page /\ n - first \in Nat /\ n - first < Page
        /\ n - first > 0 => wDataIndex + first = Page
        /\ n \in Nat
    BY <1>3
  <1> HIDE DEF s0, first
  <1>5. Fits(s0, data, 0, first)
    <2>1. \A k \in 0 .. first - 1 : k \in 0 .. n - 1 /\ 0 + k = k
      BY <1>4
    <2> QED BY <2>1, <1>2, <1>4 DEF Fits
  <1>6. s1 \in Stores /\ IsPut(s1, s0, data, 0, first)
    BY <1>2, <1>4, <1>5, PutTyped
  <1>7. s1.index = wDataIndex + first /\ s1.total = total + first /\ s1.written = fileWr
    BY <1>2, <1>6 DEF IsPut
  <1>8. enough => Sound(s1)
    <2>1. SUFFICES ASSUME enough PROVE Sound(s1)
      OBVIOUS
    <2>2. Sound(s0) /\ s0.total + first =< FlashSize
      BY <2>1, <1>2, <1>3, <1>4 DEF Sound, Counted
    <2> HIDE DEF s1
    <2> QED BY <2>2, <1>2, <1>4, <1>6, PutSound
  <1>9. enough /\ continued => Placed(s1)
    <2>1. SUFFICES ASSUME enough, continued PROVE Placed(s1)
      OBVIOUS
    <2>2. Counted(s0) /\ Placed(s0)
      BY <2>1, <1>2 DEF Counted
    <2>3. \A k \in 0 .. first - 1 : data[0 + k][2] = s0.total + k
      <3>1. \A k \in 0 .. first - 1 : k \in 0 .. n - 1 /\ 0 + k = k
        BY <1>4
      <3> QED BY <3>1, <2>1, <1>2
    <2>4. first \in Nat /\ 0 \in Nat /\ s0 \in Stores
      BY <1>2, <1>4
    <2> QED BY ONLY <2>2, <2>3, <2>4, <1>5, PutPlaced
  <1> HIDE DEF s1
  <1>10. /\ s2 \in Stores /\ s2.index \in 0 .. Page - 1 /\ s2.total = total + first
         /\ s2.index + (n - first) =< Page - 1
         /\ enough => Sound(s2)
         /\ enough /\ continued => Placed(s2)
    <2>1. CASE PageFull(s1)
      <3>1. s1.index = Page
        BY <2>1, <1>4, <1>7, <1>3 DEF PageFull
      <3>2. s2 = OtaSlWriteFlash(s1)
        BY <2>1 DEF FlushIf
      <3>3. s2 \in Stores /\ s2.index = 0 /\ s2.total = s1.total
        BY <3>2, <1>6, FlushTyped
      <3>4. enough => Sound(s2)
        <4>1. SUFFICES ASSUME enough PROVE Sound(s2)
          OBVIOUS
        <4>2. Sound(s1) /\ s1.index > 0
          BY <4>1, <3>1, <1>8
        <4> QED BY <4>2, <3>1, <3>2, <1>6, FlushSound DEF Sound
      <3>5. enough /\ continued => Placed(s2)
        <4>1. SUFFICES ASSUME enough, continued PROVE Placed(s2)
          OBVIOUS
        <4>2. Sound(s1) /\ s1.index > 0 /\ Placed(s1)
          BY <4>1, <3>1, <1>8, <1>9
        <4> QED BY <4>2, <3>2, <1>6, FlushSound
      <3> HIDE DEF s2
      <3>6. s2.index \in 0 .. Page - 1 /\ s2.index + (n - first) =< Page - 1
        BY <3>3, <1>4
      <3> QED BY <3>3, <3>4, <3>5, <3>6, <1>7
    <2>2. CASE ~PageFull(s1)
      <3>1. s2 = s1
        BY <2>2 DEF FlushIf
      <3>2. s1.index < Page
        BY <2>2, <1>4, <1>7, <1>3 DEF PageFull
      <3>3. n - first = 0
        BY <3>2, <1>4, <1>7, <1>3
      <3> HIDE DEF s2
      <3>4. s2.index \in 0 .. Page - 1 /\ s2.index + (n - first) =< Page - 1
        BY <3>1, <3>2, <3>3, <1>3, <1>4, <1>7
      <3> QED BY <3>1, <3>4, <1>6, <1>7, <1>8, <1>9
    <2> QED BY <2>1, <2>2
  <1> HIDE DEF s2
  <1>11. Fits(s2, data, first, n - first)
    <2>1. \A k \in 0 .. n - first - 1 : first + k \in 0 .. n - 1
      BY <1>4
    <2>2. s2.index + (n - first) =< Page
      BY <1>10, <1>4
    <2> QED BY <2>1, <2>2 DEF Fits
  <1>12. s3 \in Stores /\ IsPut(s3, s2, data, first, n - first)
    BY <1>4, <1>10, <1>11, PutTyped
  <1>13. s3.index \in 0 .. Page - 1 /\ s3.total = total + n
    <2>1. s3.index = s2.index + (n - first) /\ s3.total = s2.total + (n - first)
      BY <1>12 DEF IsPut
    <2> HIDE DEF s3
    <2> QED BY <2>1, <1>10, <1>4, <1>3
  <1>14. enough => Sound(s3)
    <2>1. SUFFICES ASSUME enough PROVE Sound(s3)
      OBVIOUS
    <2>2. Sound(s2) /\ s2.total + (n - first) =< FlashSize
      BY <2>1, <1>10, <1>3, <1>4
    <2> HIDE DEF s3
    <2>3. n - first \in Nat /\ first \in Nat
      BY <1>4
    <2> QED BY <2>2, <2>3, <1>10, <1>12, PutSound
  <1>15. enough /\ continued => Placed(s3)
    <2>1. SUFFICES ASSUME enough, continued PROVE Placed(s3)
      OBVIOUS
    <2>2. Counted(s2) /\ Placed(s2)
      BY <2>1, <1>10 DEF Sound
    <2>3. \A k \in 0 .. n - first - 1 : data[first + k][2] = s2.total + k
      <3>1. ASSUME NEW k \in 0 .. n - first - 1 PROVE data[first + k][2] = s2.total + k
        <4>1. first + k \in 0 .. n - 1 /\ total + (first + k) = s2.total + k
          BY <1>3, <1>4, <1>10
        <4> QED BY <4>1, <2>1
      <3> QED BY <3>1
    <2>4. n - first \in Nat /\ first \in Nat
      BY <1>4
    <2> QED BY <2>2, <2>3, <2>4, <1>10, <1>11, PutPlaced
  <1>s. SUFFICES /\ s4 \in Stores /\ s4.index \in 0 .. Page - 1 /\ s4.total = total + n
                 /\ enough => /\ s4.written =< FlashSize /\ Whole(s4.written)
                              /\ s4.total < Size[header] => Counted(s4)
                              /\ s4.total = Size[header] => InFlash(s4)
                              /\ continued => Placed(s4)
    <2> HIDE DEF s4
    <2> QED BY <1>1, Zenon DEF s0
  <1> HIDE DEF s3, enough, continued
  <1>16. CASE s3.total = Size[header] /\ s3.index # 0
    <2>1. s4 = OtaSlWriteFlash(s3)
      BY <1>16 DEF FlushIf
    <2>2. s4 \in Stores /\ s4.index = 0 /\ s4.total = s3.total
      BY <2>1, <1>12, FlushTyped
    <2>3. s3.index > 0
      BY <1>16, <1>13
    <2>4. enough => /\ Whole(s4.written) /\ s4.written =< FlashSize /\ InFlash(s4)
                    /\ Placed(s3) => Placed(s4)
      BY <2>1, <2>3, <1>12, <1>14, FlushSound
    <2> HIDE DEF s4
    <2>5. s4.index \in 0 .. Page - 1 /\ s4.total = total + n /\ ~(s4.total < Size[header])
      BY <2>2, <1>3, <1>13, <1>16
    <2> QED BY <2>2, <2>4, <2>5, <1>15
  <1>17. CASE ~(s3.total = Size[header] /\ s3.index # 0)
    <2>1. s4 = s3
      BY <1>17 DEF FlushIf
    <2>2. enough /\ s3.total = Size[header] => InFlash(s3)
      <3>1. SUFFICES ASSUME enough, s3.total = Size[header] PROVE InFlash(s3)
        OBVIOUS
      <3>2. s3.index = 0 /\ Counted(s3)
        BY <3>1, <1>17, <1>14 DEF Sound
      <3>3. s3.written \in Nat
        BY <1>12 DEF Stores
      <3> QED BY <3>2, <3>3 DEF Counted, InFlash
    <2> HIDE DEF s4
    <2> QED BY <2>1, <2>2, <1>12, <1>13, <1>14, <1>15 DEF Sound
  <1> QED BY <1>16, <1>17

-----------------------------------------------------------------------------
(* The invariant.                                                          *)

HostTyped ==
    /\ bootMark \in BOOLEAN /\ upgradeLen \in Nat
    /\ img \in Images /\ step \in Nat /\ waiting \in BOOLEAN
    /\ toBms \in Seq(Messages) /\ Len(toBms) =< MaxWaiting
    /\ toHost \in Seq(Answers) /\ Len(toHost) =< MaxWaiting

(* What has been counted is in the page buffer and in flash; when it is    *)
(* all there is, in flash.                                                 *)
Counts ==
    preSeq > 0 =>
       /\ header \in Images /\ total =< Size[header]
       /\ total < Size[header] => total = fileWr + wDataIndex
       /\ total = Size[header] => fileWr >= total

OInv == StoreTyped /\ HostTyped /\ Counts /\ WholeImage

(* What sending and receiving leave of a bounded queue.                    *)
LEMMA QueueKept ==
    ASSUME NEW S, NEW q \in Seq(S), NEW m \in Nat, Len(q) =< m
    PROVE  /\ q # <<>> => Head(q) \in S /\ Tail(q) \in Seq(S) /\ Len(Tail(q)) =< m
           /\ \A x \in S : Append(q, x) \in Seq(S)
           /\ \A x \in S : Len(q) < m => Len(Append(q, x)) =< m
  BY HeadTailProperties, AppendProperties

(* An answer, queued or lost.                                              *)
LEMMA AnswerKept ==
    ASSUME HostTyped, NEW kind \in Answers, Answer(kind)
    PROVE  toHost' \in Seq(Answers) /\ Len(toHost') =< MaxWaiting
  BY QueueKept DEF HostTyped, Answer

(* A packet is taken from the queue.                                       *)
LEMMA PacketTaken ==
    ASSUME HostTyped, Received
    PROVE  /\ pkt \in Messages /\ toBms' \in Seq(Messages) /\ Len(toBms') =< MaxWaiting
           /\ img' = img /\ step' = step /\ waiting' = waiting
  BY QueueKept DEF HostTyped, Received, pkt, host

(* The data packet: its place in the file, and the store after it.         *)
LEMMA DataKnown ==
    ASSUME StoreTyped, HostTyped, DataPacket
    PROVE  /\ header \in Images /\ pkt.img \in Images /\ preSeq > 0 /\ pkt.seq = preSeq + 1
           /\ pkt.seq \in 2 .. DataPackets(pkt.img) + 1
  <1>1. Received /\ pkt.kind = "data" /\ pkt.seq # 1 /\ pkt.seq = preSeq + 1 /\ header # NoImage
    BY DEF DataPacket, InSequence
  <1>2. pkt \in Messages
    BY <1>1, PacketTaken
  <1>3. pkt.img \in Images /\ pkt.seq \in 1 .. DataPackets(pkt.img) + 1
    BY <1>1, <1>2 DEF Messages
  <1>4. DataPackets(pkt.img) \in Nat /\ preSeq \in Nat /\ header \in Images
    BY <1>1, <1>3, PacketsOfImage DEF StoreTyped
  <1> QED BY <1>1, <1>3, <1>4

(* What PacketPut says of the data of the packet that came in.             *)
LEMMA DataPut ==
    ASSUME StoreTyped, HostTyped, DataPacket
    PROVE  LET n == Length(pkt.seq, pkt.img)
               s == PutPacket(Payload(pkt.seq, pkt.img), n)
           IN  /\ n \in 1 .. Packet
               /\ s \in Stores /\ s.index \in 0 .. Page - 1 /\ s.total = total + n
               /\ total = fileWr + wDataIndex /\ total + n =< Size[header] =>
                     /\ s.written =< FlashSize /\ Whole(s.written)
                     /\ s.total < Size[header] => Counted(s)
                     /\ s.total = Size[header] => InFlash(s)
                     /\ Placed(Store) /\ total = First(pkt.seq) => Placed(s)
  <1> DEFINE i == pkt.img
             seq == pkt.seq
             n == Length(seq, i)
             data == Payload(seq, i)
  <1>1. header \in Images /\ i \in Images /\ seq \in 2 .. DataPackets(i) + 1
    BY DataKnown
  <1> HIDE DEF i, seq
  <1>2. /\ First(seq) \in Nat /\ n \in 1 .. Packet
        /\ \A k \in 0 .. n - 1 : data[k] = <<i, First(seq) + k>> /\ data[k] \in Units
    BY <1>1, PayloadKnown
  <1> HIDE DEF n, data
  <1>3. \A k \in 0 .. n - 1 : data[k] \in Units
    BY <1>2
  <1>4. total = First(seq) => \A k \in 0 .. n - 1 : data[k][2] = total + k
    BY <1>2
  <1> DEFINE s == PutPacket(data, n)
  <1>5. /\ s \in Stores /\ s.index \in 0 .. Page - 1 /\ s.total = total + n
        /\ total = fileWr + wDataIndex /\ total + n =< Size[header] =>
              /\ s.written =< FlashSize /\ Whole(s.written)
              /\ s.total < Size[header] => Counted(s)
              /\ s.total = Size[header] => InFlash(s)
              /\ Placed(Store) /\ (\A k \in 0 .. n - 1 : data[k][2] = total + k) => Placed(s)
    BY <1>1, <1>2, <1>3, PacketPut
  <1> HIDE DEF s
  <1>6. /\ s \in Stores /\ s.index \in 0 .. Page - 1 /\ s.total = total + n
        /\ total = fileWr + wDataIndex /\ total + n =< Size[header] =>
              /\ s.written =< FlashSize /\ Whole(s.written)
              /\ s.total < Size[header] => Counted(s)
              /\ s.total = Size[header] => InFlash(s)
              /\ Placed(Store) /\ total = First(seq) => Placed(s)
    BY <1>4, <1>5
  <1> QED BY <1>2, <1>6 DEF s, n, data, seq, i

(* Nothing is a whole number of pages.                                     *)
LEMMA WholeNone == Whole(0)
  <1>1. 0 \in Nat /\ 0 = 0 * Page
    OBVIOUS
  <1> QED BY <1>1 DEF Whole

(* A data packet keeps the types and the counts, accepted or not.          *)
LEMMA DataStep ==
    ASSUME StoreTyped, HostTyped, Counts, DataPacket
    PROVE  StoreTyped' /\ Counts'
  <1> DEFINE n == Length(pkt.seq, pkt.img)
             s == PutPacket(Payload(pkt.seq, pkt.img), n)
  <1>1. /\ n \in 1 .. Packet
        /\ s \in Stores /\ s.index \in 0 .. Page - 1 /\ s.total = total + n
        /\ total = fileWr + wDataIndex /\ total + n =< Size[header] =>
              /\ s.written =< FlashSize /\ Whole(s.written)
              /\ s.total < Size[header] => Counted(s)
              /\ s.total = Size[header] => InFlash(s)
    BY DataPut
  <1>2. /\ TakeStore(s)
        /\ s.total > Size[header] => OtaSlVarInit
        /\ ~(s.total > Size[header]) =>
              preSeq' = pkt.seq /\ wPageIndex' = s.page /\ fileWr' = s.written /\ header' = header
    BY DEF DataPacket
  <1>3. /\ header \in Images /\ pkt.seq \in Nat /\ preSeq > 0 /\ total \in Nat
        /\ Size[header] \in Nat /\ FlashSize \in Nat
    <2>1. DataPackets(pkt.img) \in Nat
      BY DataKnown, PacketsOfImage
    <2> QED BY <2>1, DataKnown, FlashRoom DEF StoreTyped
  <1> HIDE DEF s, n
  <1>4. /\ s.index = wDataIndex' /\ s.total = total' /\ s.bufs = bufs' /\ s.flash = flash'
        /\ s.total \in Nat /\ s.page \in 0 .. 1 /\ s.written \in Nat
        /\ s.bufs \in Bufs /\ s.flash \in Flashes
    BY <1>1, <1>2 DEF TakeStore, Stores
  <1>5. CASE s.total > Size[header]
    <2>1. header' = NoImage /\ fileWr' = 0 /\ wPageIndex' = 0 /\ preSeq' = 0
      BY <1>2, <1>5 DEF OtaSlVarInit
    <2>2. StoreTyped'
      BY <2>1, <1>1, <1>3, <1>4, WholeNone DEF StoreTyped
    <2> QED BY <2>1, <2>2 DEF Counts
  <1>6. CASE ~(s.total > Size[header])
    <2>1. preSeq' = pkt.seq /\ wPageIndex' = s.page /\ fileWr' = s.written /\ header' = header
      BY <1>2, <1>6
    <2>2. total + n =< Size[header] /\ total < Size[header]
      BY <1>1, <1>3, <1>6
    <2>3. total = fileWr + wDataIndex
      BY <2>2, <1>3 DEF Counts
    <2>4. /\ s.written =< FlashSize /\ Whole(s.written)
          /\ s.total < Size[header] => s.total = s.written + s.index
          /\ s.total = Size[header] => s.written >= s.total
      BY <2>2, <2>3, <1>1 DEF Counted, InFlash
    <2>5. StoreTyped'
      BY <2>1, <2>4, <1>1, <1>3, <1>4 DEF StoreTyped
    <2>6. Counts'
      BY <2>1, <2>4, <1>3, <1>4, <1>6 DEF Counts
    <2> QED BY <2>5, <2>6
  <1> QED BY <1>5, <1>6

(* Everything but a commit leaves the boot mark as it was, unset.          *)
LEMMA BootStep ==
    ASSUME HostTyped, StoreTyped, WholeImage, [Next]_vars
    PROVE  bootMark' \in BOOLEAN /\ upgradeLen' \in Nat /\ WholeImage'
  <1>1. CASE Commit
    <2>1. flash' = flash /\ header' = header
      BY <1>1 DEF Commit, store
    <2>2. CASE ChecksumRight
      <3>1. bootMark' = TRUE /\ upgradeLen' = (IF header = NoImage THEN 0 ELSE Size[header])
        BY <1>1, <2>2 DEF Commit
      <3>2. CASE header = NoImage
        BY <3>1, <3>2 DEF WholeImage
      <3>3. CASE header # NoImage
        <4>1. header \in Images /\ upgradeLen' = Size[header] /\ Size[header] \in Nat
          BY <3>1, <3>3, FlashRoom DEF StoreTyped
        <4>2. \A i \in 0 .. Size[header] - 1 : flash[i] = <<header, i>>
          BY <2>2, <3>3 DEF ChecksumRight
        <4> QED BY <3>1, <4>1, <4>2, <2>1 DEF WholeImage
      <3> QED BY <3>2, <3>3
    <2>3. CASE ~ChecksumRight
      BY <1>1, <2>1, <2>3 DEF Commit, boot, HostTyped, WholeImage
    <2> QED BY <2>2, <2>3
  <1>2. CASE UNCHANGED vars
    BY <1>2 DEF vars, store, boot, HostTyped, WholeImage
  <1>3. CASE Next /\ ~Commit
    <2>1. ~bootMark /\ UNCHANGED boot
      BY <1>3 DEF Next, OtaSlReceiveDecode, Start, HeaderPacket, DataPacket, StalePacket, Abort,
           Received, Restart, HostSend, HostReceive, HostAbort, Lose, BecomeCalm
    <2> QED BY <2>1 DEF boot, HostTyped, WholeImage
  <1> QED BY <1>1, <1>2, <1>3

(* The messages the host sends.                                            *)
LEMMA SentTyped ==
    ASSUME HostTyped, step =< CommitStep(img)
    PROVE  PacketAt(step) \in Messages
  <1>1. img \in Images /\ step \in Nat /\ DataPackets(img) \in Nat
    BY PacketsOfImage DEF HostTyped
  <1>2. Kind(step, img) \in {"start", "data", "commit", "abort"}
    BY DEF Kind
  <1>3. Kind(step, img) = "data" => step \in 1 .. DataPackets(img) + 1
    BY <1>1 DEF Kind, CommitStep
  <1> QED BY <1>1, <1>2, <1>3 DEF PacketAt, Msg, Messages

(* The host and the messages under way keep their types.                   *)
LEMMA HostStep ==
    ASSUME HostTyped, StoreTyped, WholeImage, [Next]_vars
    PROVE  HostTyped'
  <1>b. bootMark' \in BOOLEAN /\ upgradeLen' \in Nat
    BY BootStep
  <1>t. img \in Images /\ step \in Nat /\ waiting \in BOOLEAN
        /\ toBms \in Seq(Messages) /\ Len(toBms) =< MaxWaiting
        /\ toHost \in Seq(Answers) /\ Len(toHost) =< MaxWaiting
    BY DEF HostTyped
  <1> SUFFICES /\ img' \in Images /\ step' \in Nat /\ waiting' \in BOOLEAN
               /\ toBms' \in Seq(Messages) /\ Len(toBms') =< MaxWaiting
               /\ toHost' \in Seq(Answers) /\ Len(toHost') =< MaxWaiting
    BY <1>b, Zenon DEF HostTyped
  <1>1. CASE OtaSlReceiveDecode
    <2>1. Received
      BY <1>1 DEF OtaSlReceiveDecode, Start, HeaderPacket, DataPacket, StalePacket, Commit, Abort
    <2>2. toHost' = toHost \/ \E kind \in Answers : Answer(kind)
      BY <1>1 DEF OtaSlReceiveDecode, Start, HeaderPacket, DataPacket, StalePacket, Commit, Abort,
           Answers
    <2>3. toHost' \in Seq(Answers) /\ Len(toHost') =< MaxWaiting
      BY <2>2, <1>t, AnswerKept
    <2> QED BY <2>1, <2>3, <1>t, PacketTaken
  <1>2. CASE Restart
    BY <1>2, <1>t, EmptySeq DEF Restart, host
  <1>3. CASE HostSend
    <2>1. toBms' \in Seq(Messages) /\ Len(toBms') =< MaxWaiting
      <3>1. PacketAt(step) \in Messages
        BY <1>3, SentTyped DEF HostSend
      <3> QED BY <3>1, <1>3, <1>t, QueueKept DEF HostSend, Send
    <2>2. waiting' = TRUE /\ img' = img /\ step' = step /\ toHost' = toHost
      BY <1>3 DEF HostSend
    <2> QED BY <2>1, <2>2, <1>t
  <1>4. CASE HostReceive
    <2>1. toBms' = toBms /\ toHost # <<>> /\ toHost' = Tail(toHost)
      BY <1>4 DEF HostReceive
    <2>2. toHost' \in Seq(Answers) /\ Len(toHost') =< MaxWaiting
      BY <2>1, <1>t, QueueKept
    <2>3. img' \in Images /\ step' \in Nat /\ waiting' \in BOOLEAN
      <3>1. \/ step' = 0 /\ waiting' = FALSE /\ img' \in Images
            \/ step' = step + 1 /\ waiting' = FALSE /\ img' = img
            \/ step' = step /\ waiting' = waiting /\ img' = img
        BY <1>4, Zenon DEF HostReceive, host
      <3>2. img' \in Images /\ step' \in Nat
        BY <3>1, <1>t
      <3>3. waiting' \in BOOLEAN
        BY <3>1, <1>t, Zenon
      <3> QED BY <3>2, <3>3
    <2> QED BY <2>1, <2>2, <2>3, <1>t
  <1>5. CASE HostAbort
    <2>1. toBms' \in Seq(Messages) /\ Len(toBms') =< MaxWaiting
      <3>1. Msg("abort", 1, img) \in Messages
        BY <1>t DEF Msg, Messages
      <3> QED BY <3>1, <1>5, <1>t, QueueKept DEF HostAbort, Send
    <2>2. step' = 0 /\ waiting' = FALSE /\ img' \in Images /\ toHost' = toHost
      BY <1>5 DEF HostAbort
    <2> QED BY <2>1, <2>2, <1>t
  <1>6. CASE Lose
    <2>1. img' = img /\ step' = step /\ waiting' = waiting
      BY <1>6 DEF Lose, host
    <2>2. CASE toBms # <<>> /\ toBms' = Tail(toBms) /\ toHost' = toHost
      BY <2>1, <2>2, <1>t, QueueKept
    <2>3. CASE toHost # <<>> /\ toHost' = Tail(toHost) /\ toBms' = toBms
      BY <2>1, <2>3, <1>t, QueueKept
    <2> QED BY <2>2, <2>3, <1>6 DEF Lose
  <1>7. CASE BecomeCalm \/ UNCHANGED vars
    BY <1>7, <1>t DEF BecomeCalm, vars, host
  <1> QED BY <1>1, <1>2, <1>3, <1>4, <1>5, <1>6, <1>7 DEF Next

(* The steps that do not touch what was received.                          *)
StoreKept == UNCHANGED <<header, store>>

(* So does every other step.                                               *)
LEMMA StoreStep ==
    ASSUME HostTyped, StoreTyped, Counts, [Next]_vars
    PROVE  StoreTyped' /\ Counts'
  <1>1. CASE StoreKept
    BY <1>1 DEF StoreKept, store, StoreTyped, Counts
  <1>2. CASE DataPacket
    BY <1>2, DataStep
  <1>3. CASE Start
    <2>1. preSeq' = 0 /\ UNCHANGED <<header, wDataIndex, total, wPageIndex, fileWr, bufs, flash>>
      BY <1>3 DEF Start
    <2> QED BY <2>1 DEF StoreTyped, Counts
  <1>4. CASE HeaderPacket
    <2>1. /\ header' \in Images
          /\ preSeq' = 1 /\ wPageIndex' = 0 /\ fileWr' = 0 /\ total' = 0 /\ wDataIndex' = 0
          /\ bufs' = bufs /\ flash' = flash
      BY <1>4, PacketTaken DEF HeaderPacket, NewFile, Messages
    <2>2. StoreTyped'
      BY <2>1, FlashRoom, WholeNone DEF StoreTyped
    <2>3. Counts'
      <3>1. Size[header'] \in Nat \ {0}
        BY <2>1, FlashRoom
      <3> QED BY <2>1, <3>1 DEF Counts
    <2> QED BY <2>2, <2>3
  <1>5. CASE Abort
    <2>1. /\ header' = NoImage /\ fileWr' = 0 /\ wPageIndex' = 0 /\ preSeq' = 0
          /\ UNCHANGED <<wDataIndex, total, bufs, flash>>
      BY <1>5 DEF Abort, OtaSlVarInit
    <2> QED BY <2>1, FlashRoom, WholeNone DEF StoreTyped, Counts
  <1>6. CASE Restart
    <2>1. /\ header' = NoImage /\ preSeq' = 0 /\ wDataIndex' = 0 /\ total' = 0
          /\ wPageIndex' = 0 /\ fileWr' = 0 /\ flash' = flash
          /\ bufs' = [p \in 0 .. 1 |-> EmptyPage]
      BY <1>6 DEF Restart
    <2>2. bufs' \in Bufs
      BY <2>1, EmptyPageTyped DEF Bufs
    <2> QED BY <2>1, <2>2, FlashRoom, WholeNone DEF StoreTyped, Counts
  <1> QED
    BY <1>1, <1>2, <1>3, <1>4, <1>5, <1>6
    DEF Next, OtaSlReceiveDecode, StalePacket, Commit, HostSend, HostReceive, HostAbort, Lose,
        BecomeCalm, vars, StoreKept

(* It holds at the start.                                                  *)
LEMMA Initial == Init => OInv
  <1> SUFFICES ASSUME Init PROVE OInv
    OBVIOUS
  <1>1. /\ bufs \in Bufs /\ flash \in Flashes
    BY EmptyPageTyped DEF Init, Bufs, Flashes, Units
  <1>2. StoreTyped
    BY <1>1, FlashRoom, WholeNone DEF Init, StoreTyped
  <1>3. HostTyped
    <2>1. toBms \in Seq(Messages) /\ Len(toBms) = 0 /\ toHost \in Seq(Answers) /\ Len(toHost) = 0
      BY EmptySeq DEF Init
    <2>2. bootMark \in BOOLEAN /\ waiting \in BOOLEAN /\ upgradeLen \in Nat /\ step \in Nat
      BY DEF Init
    <2> QED BY <2>1, <2>2 DEF Init, HostTyped
  <1> QED BY <1>2, <1>3 DEF Init, OInv, Counts, WholeImage

(* One step keeps the invariant.                                           *)
LEMMA Kept == OInv /\ [Next]_vars => OInv'
  BY HostStep, StoreStep, BootStep DEF OInv

(* The invariant of the transfer, over every packet and every fault.       *)
THEOREM TransferInvariantHolds == Spec => []OInv
  BY Initial, Kept, PTL DEF Spec

(* The variables keep the types the C declarations give them, and what was *)
(* accepted ends within the backup area.                                   *)
THEOREM TypeCorrect == Spec => []TypeOK
  <1>1. OInv => TypeOK
    BY DEF OInv, StoreTyped, HostTyped, TypeOK, Bufs, Flashes
  <1> QED BY <1>1, TransferInvariantHolds, PTL

(* A commit points the boot loader at one whole image or, when the header  *)
(* was forgotten, at none: never at a part, a mixture, or one with a hole. *)
THEOREM OnlyWholeImages == Spec => []WholeImage
  BY TransferInvariantHolds, PTL DEF OInv

(* Data are only accepted while the header they are counted against is     *)
(* known, and never more than it announces.                                *)
THEOREM HeaderAlwaysKnown == Spec => []HeaderKnown
  <1>1. OInv => HeaderKnown
    BY DEF OInv, Counts, HeaderKnown
  <1> QED BY <1>1, TransferInvariantHolds, PTL

-----------------------------------------------------------------------------
(* Where the bytes are.                                                    *)

(* All packets so far were full, or no image has another.                  *)
Position ==
    preSeq > 0 =>
       \/ total = (preSeq - 1) * Packet
       \/ \A k \in Images : DataPackets(k) + 1 =< preSeq

(* An accepted packet begins where the one before ended.                   *)
LEMMA PositionStep ==
    ASSUME Aligned, OInv, Position, [Next]_vars
    PROVE  Position'
  <1>t. StoreTyped /\ HostTyped /\ Counts
    BY DEF OInv
  <1>1. CASE preSeq' = preSeq /\ total' = total
    BY <1>1 DEF Position
  <1>2. CASE preSeq' = 0
    BY <1>2 DEF Position
  <1>3. CASE preSeq' = 1 /\ total' = 0
    <2>1. (1 - 1) * Packet = 0
      OBVIOUS
    <2> QED BY <1>3, <2>1 DEF Position
  <1>4. CASE DataPacket
    <2> DEFINE i == pkt.img
               seq == pkt.seq
               n == Length(seq, i)
               s == PutPacket(Payload(seq, i), n)
    <2>1. header \in Images /\ i \in Images /\ preSeq > 0 /\ seq = preSeq + 1
          /\ seq \in 2 .. DataPackets(i) + 1
      BY <1>4, <1>t, DataKnown
    <2>2. total' = total + n
      <3>1. s.total = total + n
        BY <1>4, <1>t, DataPut
      <3>2. total' = s.total
        BY <1>4 DEF DataPacket, TakeStore
      <3> QED BY <3>1, <3>2
    <2>3. preSeq' = 0 \/ preSeq' = seq
      BY <1>4 DEF DataPacket, OtaSlVarInit
    <2>4. DataPackets(i) \in Nat /\ Size[i] \in Nat /\ Packet \in Nat \ {0} /\ total \in Nat
          /\ preSeq \in Nat
      BY <1>t, <2>1, PacketsOfImage, FlashRoom DEF StoreTyped
    <2> HIDE DEF i, s
    <2>5. total = (preSeq - 1) * Packet
      BY <2>1, <2>4 DEF Position
    <2> HIDE DEF seq
    <2>6. First(seq) = total
      BY <2>1, <2>4, <2>5 DEF First
    <2>7. CASE n = Packet
      <3>1. total' = (preSeq - 1) * Packet + Packet
        BY <2>2, <2>5, <2>7
      <3>2. (preSeq - 1) * Packet + Packet = (seq - 1) * Packet
        <4>1. seq - 1 = (preSeq - 1) + 1 /\ preSeq - 1 \in Nat
          BY <2>1, <2>4
        <4> QED BY <4>1, <2>4
      <3> QED BY <3>1, <3>2, <2>3 DEF Position
    <2>8. CASE n # Packet
      <3>1. Size[i] - total < Packet
        BY <2>8, <2>6, <2>4 DEF Length
      <3>2. Size[i] < (seq - 1) * Packet
        <4>1. seq - 1 = (preSeq - 1) + 1 /\ preSeq - 1 \in Nat
          BY <2>1, <2>4
        <4>2. (seq - 1) * Packet = total + Packet
          BY <4>1, <2>4, <2>5
        <4> QED BY <4>2, <3>1, <2>4
      <3>3. DataPackets(i) =< seq - 1
        <4> DEFINE d == DataPackets(i) - 1
                   e == seq - 1
        <4>1. d * Packet < Size[i] /\ d * Packet \in Nat /\ d \in Nat /\ e \in Nat
          BY <2>1, <2>4, PacketsOfImage
        <4>2. d * Packet < e * Packet
          BY <4>1, <3>2, <2>4
        <4> HIDE DEF d, e
        <4>3. d < e
          BY <4>1, <4>2, <2>4, NextMultiple
        <4> QED BY <4>3, <4>1, <2>4, <2>1 DEF d, e
      <3>4. Size[i] # DataPackets(i) * Packet
        <4>1. seq - 1 = DataPackets(i)
          BY <3>3, <2>1, <2>4
        <4> QED BY <4>1, <3>2, <2>4
      <3>5. \A k \in Images : DataPackets(k) =< DataPackets(i)
        BY <3>4, <2>1 DEF Aligned
      <3>6. \A k \in Images : DataPackets(k) + 1 =< seq
        <4>1. ASSUME NEW k \in Images PROVE DataPackets(k) + 1 =< seq
          <5>1. DataPackets(k) \in Nat /\ DataPackets(k) =< DataPackets(i)
            BY <3>5, PacketsOfImage
          <5> QED BY <5>1, <3>3, <2>1, <2>4
        <4> QED BY <4>1
      <3> QED BY <3>6, <2>3 DEF Position
    <2> QED BY <2>7, <2>8
  <1>5. \/ preSeq' = preSeq /\ total' = total
        \/ preSeq' = 0
        \/ preSeq' = 1 /\ total' = 0
        \/ DataPacket
    BY DEF Next, OtaSlReceiveDecode, Start, HeaderPacket, NewFile, StalePacket, Commit, Abort,
           OtaSlVarInit, Restart, HostSend, HostReceive, HostAbort, Lose, BecomeCalm, vars, store
  <1> QED BY <1>1, <1>2, <1>3, <1>4, <1>5

(* And its bytes are put at their offsets.                                 *)
LEMMA OffsetsStep ==
    ASSUME OInv, Position, OffsetsRight, [Next]_vars
    PROVE  OffsetsRight'
  <1>t. StoreTyped /\ HostTyped /\ Counts
    BY DEF OInv
  <1>1. CASE UNCHANGED store
    BY <1>1 DEF store, OffsetsRight, Stored
  <1>2. CASE preSeq' = 0
    BY <1>2 DEF OffsetsRight
  <1>3. CASE preSeq' = 1 /\ total' = 0
    BY <1>3 DEF OffsetsRight
  <1>4. CASE DataPacket
    <2> DEFINE n == Length(pkt.seq, pkt.img)
               s == PutPacket(Payload(pkt.seq, pkt.img), n)
    <2>1. /\ n \in 1 .. Packet
          /\ s \in Stores /\ s.index \in 0 .. Page - 1 /\ s.total = total + n
          /\ total = fileWr + wDataIndex /\ total + n =< Size[header] =>
                (Placed(Store) /\ total = First(pkt.seq) => Placed(s))
      BY <1>4, <1>t, DataPut
    <2>2. header \in Images /\ pkt.img \in Images /\ preSeq > 0 /\ pkt.seq = preSeq + 1
          /\ pkt.seq \in 2 .. DataPackets(pkt.img) + 1
      BY <1>4, <1>t, DataKnown
    <2>3. /\ TakeStore(s)
          /\ s.total > Size[header] => preSeq' = 0
          /\ ~(s.total > Size[header]) => wPageIndex' = s.page /\ fileWr' = s.written
      BY <1>4 DEF DataPacket, OtaSlVarInit
    <2> HIDE DEF s, n
    <2>4. /\ DataPackets(pkt.img) \in Nat /\ Size[header] \in Nat /\ total \in Nat /\ preSeq \in Nat
      BY <1>t, <2>2, PacketsOfImage, FlashRoom DEF StoreTyped
    <2>5. CASE s.total > Size[header]
      BY <2>3, <2>5 DEF OffsetsRight
    <2>6. CASE ~(s.total > Size[header])
      <3>1. total + n =< Size[header] /\ total < Size[header]
        BY <2>1, <2>4, <2>6
      <3>2. total = fileWr + wDataIndex
        BY <3>1, <2>2 DEF OInv, Counts
      <3>3. total = First(pkt.seq)
        <4>1. total = (preSeq - 1) * Packet
          BY <2>2, <2>4 DEF Position
        <4>2. preSeq - 1 = pkt.seq - 2
          BY <2>2, <2>4
        <4> QED BY <4>1, <4>2 DEF First
      <3>4. Placed(Store)
        BY <1>t, <2>2, StoreKnown DEF OffsetsRight, Stored, Placed, At
      <3>5. Placed(s)
        BY <2>1, <3>1, <3>2, <3>3, <3>4
      <3>6. total' = s.total /\ bufs' = s.bufs /\ flash' = s.flash
            /\ wPageIndex' = s.page /\ fileWr' = s.written
        BY <2>3, <2>6 DEF TakeStore
      <3> QED BY <3>5, <3>6 DEF OffsetsRight, Stored, Placed, At
    <2> QED BY <2>5, <2>6
  <1>5. \/ UNCHANGED store
        \/ preSeq' = 0
        \/ preSeq' = 1 /\ total' = 0
        \/ DataPacket
    BY DEF Next, OtaSlReceiveDecode, Start, HeaderPacket, NewFile, StalePacket, Commit, Abort,
           OtaSlVarInit, Restart, HostSend, HostReceive, HostAbort, Lose, BecomeCalm, vars
  <1> QED BY <1>1, <1>2, <1>3, <1>4, <1>5

(* Every accepted byte is at its offset in the file, in a page buffer or   *)
(* in flash, when images are never continued by the rest of another.       *)
THEOREM BytesAtTheirPlace ==
    ASSUME Aligned
    PROVE  Spec => []OffsetsRight
  <1> DEFINE PInv == OInv /\ Position /\ OffsetsRight
  <1>1. Init => PInv
    BY Initial DEF Init, Position, OffsetsRight
  <1>2. PInv /\ [Next]_vars => PInv'
    BY Kept, PositionStep, OffsetsStep
  <1>3. PInv => OffsetsRight
    OBVIOUS
  <1> QED BY <1>1, <1>2, <1>3, PTL DEF Spec

-----------------------------------------------------------------------------
(* OtaFrame.                                                               *)

HIDE ConstantsAssumption
USE FrameAssumption

(* A packet under construction has its type and room for another frame.    *)
FrameInv == FrameTypeOK /\ RoomLeft

(* A packet has a length and at least one frame.                           *)
LEMMA FramesKnown ==
    ASSUME NEW p \in Packets
    PROVE  /\ Bytes[p] \in Nat /\ Bytes[p] >= 12 /\ Bytes[p] =< RxPackSize
           /\ Frames(p) \in Nat /\ Frames(p) >= 1
  BY DEF Frames

(* A frame that is needed finds its place: OtaRxPack holds whole frames.   *)
LEMMA FrameFits ==
    ASSUME NEW n \in Nat, n * 8 < RxPackSize
    PROVE  (n + 1) * 8 =< RxPackSize
  BY FrameAssumption

(* What a frame taken from the queue or put into it leaves of the queue.   *)
LEMMA QueueTyped ==
    ASSUME NEW q \in Seq(Frame), Len(q) =< MaxBus
    PROVE  /\ q # <<>> => Head(q) \in Frame /\ Tail(q) \in Seq(Frame)
                          /\ Len(Tail(q)) =< MaxBus
           /\ \A f \in Frame : Len(q) < MaxBus =>
                 Append(q, f) \in Seq(Frame) /\ Len(Append(q, f)) =< MaxBus
  BY HeadTailProperties, AppendProperties

(* The reassembly starts well.                                             *)
LEMMA FrameInitial == FrameInit => FrameInv
  <1> SUFFICES ASSUME FrameInit PROVE FrameInv
    OBVIOUS
  <1>1. next \in 1 .. Frames(sent) + 1
    BY FramesKnown DEF FrameInit
  <1>2. bus \in Seq(Frame) /\ got \in Seq(Frame) /\ Len(bus) =< MaxBus
    BY EmptySeq DEF FrameInit
  <1>3. 0 \in 0 .. RxPackSize /\ 0 =< MaxBus
    OBVIOUS
  <1>4. got = <<>> /\ frameLen \in 0 .. RxPackSize
    BY <1>3 DEF FrameInit
  <1>5. FrameTypeOK
    <2> HIDE FrameAssumption
    <2> QED BY <1>1, <1>2, <1>4 DEF FrameInit, FrameTypeOK
  <1> QED BY <1>4, <1>5 DEF FrameInv, RoomLeft

(* And every frame leaves it well.                                         *)
LEMMA FrameKept == FrameInv /\ [FrameNext]_frameVars => FrameInv'
  <1> SUFFICES ASSUME FrameInv, [FrameNext]_frameVars PROVE FrameInv'
    OBVIOUS
  <1> USE DEF FrameInv
  <1>t. FrameTypeOK
    OBVIOUS
  <1>f. Frames(sent) \in Nat /\ Frames(sent) >= 1
    BY <1>t, FramesKnown DEF FrameTypeOK
  <1>1. CASE FirstFrame
    <2>1. Head(bus) \in Frame /\ bus' \in Seq(Frame) /\ Len(bus') =< MaxBus
      BY <1>1, <1>t, QueueTyped DEF FirstFrame, Receive, FrameTypeOK
    <2>2. CASE got' = got /\ frameLen' = frameLen
      BY <2>1, <2>2, <1>1, <1>t DEF FirstFrame, Receive, sender, FrameTypeOK, RoomLeft, Frames
    <2>3. CASE ~(got' = got /\ frameLen' = frameLen)
      <3>1. /\ frame.n = 1 /\ frame.pkt # Other
            /\ upgrading' = TRUE /\ got' = <<frame>> /\ frameLen' = Bytes[frame.pkt]
        BY <1>1, <2>3 DEF FirstFrame
      <3>2. frame.pkt \in Packets
        BY <3>1, <2>1 DEF frame, Frame
      <3>3. /\ Bytes[frame.pkt] \in Nat /\ Bytes[frame.pkt] >= 12
            /\ Bytes[frame.pkt] =< RxPackSize
        BY <3>2, FramesKnown
      <3>4. <<frame>> \in Seq(Frame) /\ <<frame>>[1] = frame /\ Len(<<frame>>) = 1
        BY <2>1 DEF frame
      <3>5. RoomLeft'
        <4>1. 1 * 8 < RxPackSize
          BY <3>3
        <4>2. (1 + 1) * 8 =< RxPackSize
          BY <4>1, FrameFits
        <4> QED BY <3>1, <3>3, <3>4, <4>2 DEF RoomLeft
      <3>6. FrameTypeOK'
        BY <3>1, <3>3, <3>4, <2>1, <1>1, <1>t DEF FirstFrame, Receive, sender, FrameTypeOK, Frames
      <3> QED BY <3>5, <3>6
    <2> QED BY <2>2, <2>3
  <1>2. CASE NextFrame
    <2>1. Head(bus) \in Frame /\ bus' \in Seq(Frame) /\ Len(bus') =< MaxBus
      BY <1>2, <1>t, QueueTyped DEF NextFrame, Receive, FrameTypeOK
    <2> DEFINE fs == Append(got, frame)
    <2>2. /\ fs \in Seq(Frame) /\ Len(fs) = Len(got) + 1
          /\ got # <<>> => fs[1] = got[1]
      BY <2>1, <1>t, AppendProperties DEF frame, FrameTypeOK
    <2>a. got # <<>> /\ frameLen' = frameLen
      BY <1>2 DEF NextFrame
    <2>3. CASE ~Complete(Len(fs))
      <3>1. got' = fs /\ UNCHANGED <<answer, delivered, upgrading>>
        BY <1>2, <2>3 DEF NextFrame
      <3>2. RoomLeft'
        <4>1. /\ Len(fs) \in Nat /\ frameLen \in 0 .. RxPackSize
              /\ Len(fs) * 8 < frameLen
          BY <2>2, <2>3, <1>t DEF Complete, FrameTypeOK
        <4> HIDE DEF fs
        <4>2. Len(fs) * 8 < RxPackSize
          BY <4>1
        <4>3. (Len(fs) + 1) * 8 =< RxPackSize
          BY <4>1, <4>2, FrameFits
        <4> QED BY <3>1, <2>a, <4>1, <4>3 DEF RoomLeft
      <3>3. FrameTypeOK'
        BY <3>1, <2>1, <2>2, <2>a, <1>2, <1>t DEF NextFrame, Receive, sender, FrameTypeOK, Frames
      <3> QED BY <3>2, <3>3
    <2>4. CASE Complete(Len(fs))
      <3>1. /\ got' = <<>> /\ answer' \in {"ack", "fail"}
            /\ delivered' \in {delivered, TRUE} /\ upgrading' \in {upgrading, FALSE}
        BY <1>2, <2>4 DEF NextFrame
      <3>2. upgrading' \in BOOLEAN /\ delivered' \in BOOLEAN /\ got' \in Seq(Frame)
        BY <3>1, <1>t, EmptySeq DEF FrameTypeOK
      <3>3. sent' = sent /\ next' = next /\ silent' = silent /\ settled' = settled
        BY <1>2 DEF NextFrame, Receive, sender
      <3>4. FrameTypeOK'
        BY <3>1, <3>2, <3>3, <2>1, <2>a, <1>t DEF FrameTypeOK, Frames
      <3> QED BY <3>1, <3>4 DEF RoomLeft
    <2> QED BY <2>3, <2>4
  <1>3. CASE HostFrame
    <2>1. [pkt |-> sent, n |-> next] \in Frame
      BY <1>t, <1>f DEF FrameTypeOK, Frame
    <2>2. bus' \in Seq(Frame) /\ Len(bus') =< MaxBus
      BY <2>1, <1>3, <1>t, QueueTyped DEF HostFrame, PutFrame, FrameTypeOK
    <2>3. next' \in 1 .. Frames(sent) + 1
      BY <1>3, <1>t, <1>f DEF HostFrame, FrameTypeOK
    <2> QED BY <2>2, <2>3, <1>3, <1>t DEF HostFrame, rx, FrameTypeOK, RoomLeft, Frames
  <1>4. CASE HostRepeat \/ HostLeaves \/ BecomeSettled \/ UNCHANGED frameVars
    <2>1. bus' = bus /\ got' = got /\ frameLen' = frameLen /\ sent' = sent
      BY <1>4 DEF HostRepeat, HostLeaves, BecomeSettled, frameVars, rx, sender
    <2>2. next' \in 1 .. Frames(sent) + 1
      BY <1>4, <1>t, <1>f DEF HostRepeat, HostLeaves, BecomeSettled, frameVars, rx, sender, FrameTypeOK
    <2>3. /\ upgrading' \in BOOLEAN /\ answer' \in {"none", "ack", "fail"}
          /\ delivered' \in BOOLEAN /\ silent' \in BOOLEAN /\ settled' \in BOOLEAN
      BY <1>4, <1>t DEF HostRepeat, HostLeaves, BecomeSettled, frameVars, rx, sender, FrameTypeOK
    <2> QED BY <2>1, <2>2, <2>3, <1>t DEF FrameTypeOK, RoomLeft, Frames
  <1>5. CASE HostAcked \/ HostChanges
    <2>1. bus' = bus /\ got' = got /\ frameLen' = frameLen /\ sent' \in Packets /\ next' = 1
      BY <1>5 DEF HostAcked, HostChanges, rx
    <2>2. next' \in 1 .. (Frames(sent) + 1)'
      BY <2>1, FramesKnown DEF Frames
    <2>3. /\ upgrading' \in BOOLEAN /\ answer' \in {"none", "ack", "fail"}
          /\ delivered' \in BOOLEAN /\ silent' \in BOOLEAN /\ settled' \in BOOLEAN
      BY <1>5, <1>t DEF HostAcked, HostChanges, rx, FrameTypeOK
    <2> QED BY <2>1, <2>2, <2>3, <1>t DEF FrameTypeOK, RoomLeft
  <1>6. CASE Neighbour
    <2>1. \A n \in 1 .. 2 : [pkt |-> Other, n |-> n] \in Frame
      BY DEF Frame
    <2>2. bus' \in Seq(Frame) /\ Len(bus') =< MaxBus
      BY <2>1, <1>6, <1>t, QueueTyped DEF Neighbour, PutFrame, FrameTypeOK
    <2> QED BY <2>2, <1>6, <1>t DEF Neighbour, rx, sender, FrameTypeOK, RoomLeft, Frames
  <1>7. CASE LoseFrame
    <2>1. bus' \in Seq(Frame) /\ Len(bus') =< MaxBus
      BY <1>7, <1>t, QueueTyped DEF LoseFrame, FrameTypeOK
    <2> QED BY <2>1, <1>7, <1>t DEF LoseFrame, sender, FrameTypeOK, RoomLeft, Frames
  <1> QED BY <1>1, <1>2, <1>3, <1>4, <1>5, <1>6, <1>7 DEF FrameNext

(* The invariant of the reassembly, over every frame lost or mixed in.     *)
THEOREM FrameInvariantHolds == FrameSpec => []FrameInv
  BY FrameInitial, FrameKept, PTL DEF FrameSpec

(* The variables keep their types, and the length in use is that of the    *)
(* packet whose first frame is in the buffer.                              *)
THEOREM FrameTypeCorrect == FrameSpec => []FrameTypeOK
  BY FrameInvariantHolds, PTL DEF FrameInv

(* Whatever the packets, as long as they fit into OtaRxPack: no frame is   *)
(* copied beyond it, although frames of different packets are mixed after  *)
(* a loss, and the state that refuses every frame is not reached.          *)
THEOREM AlwaysRoom == FrameSpec => []RoomLeft
  BY FrameInvariantHolds, PTL DEF FrameInv
=============================================================================
