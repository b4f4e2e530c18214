--------------------------- MODULE PowerKeyProofs ---------------------------
(***************************************************************************)
(* Theorems of PowerKey for all delays and any number of commands: no      *)
(* supply is cut before the shortest delay announced.                      *)
(***************************************************************************)
EXTENDS PowerKey, TLAPS

USE DelaysAssumption

(* The two countdowns that can cut the supply, each tied to the passes     *)
(* since PowerOff.  PowerOffTimer is at most one past PreOff when PowerOff *)
(* is set, and grows by at most one in a pass that counts for the notice;  *)
(* ShutDownTimer starts at no less than what was promised and falls by one *)
(* in such a pass.  ShutDown never stands without PowerOff.                *)
CutInv ==
    /\ promised <= CutDelay
    /\ ~powerOff => notice = 0 /\ offTimer <= PreOff
    /\ shutDown => powerOff
    /\ notice < CutDelay => offTimer <= PreOff + 1 + notice
    /\ shutDown => notice + shutTimer >= promised
    /\ CutAfterNotice

(* TypeOK, with the flags one by one.                                      *)
Flags ==
    /\ asked \in BOOLEAN /\ keyOn \in BOOLEAN /\ powerOff \in BOOLEAN
    /\ shutDown \in BOOLEAN /\ fault \in BOOLEAN /\ plugin \in BOOLEAN
    /\ test \in BOOLEAN /\ upgrading \in BOOLEAN /\ supply \in BOOLEAN

Ranges ==
    /\ task \in Tasks /\ key \in BOOLEAN
    /\ pressed \in 0 .. KeyDelay /\ released \in 0 .. KeyDelay
    /\ shutTimer \in Nat /\ offTimer \in Nat
    /\ comTimer \in 0 .. ComOver
    /\ charge \in {"no", "mode", "charging"}
    /\ testTimer \in 0 .. TestTime + 1 /\ commands \in 0 .. MaxCommands
    /\ notice \in 0 .. CutDelay /\ promised \in Nat

LEMMA Typed == (TypeOK <=> Flags /\ Ranges) /\ (TypeOK' <=> Flags' /\ Ranges')
  BY DEF TypeOK, Flags, Ranges

Inv == Flags /\ Ranges /\ CutInv

LEMMA Starts == Init => Inv
  <1> SUFFICES ASSUME Init PROVE Inv
    OBVIOUS
  <1>1. Flags
    BY DEF Init, Flags
  <1>2. Ranges
    BY DEF Init, Ranges, Tasks
  <1>3. CutInv
    BY DEF Init, CutInv, CutAfterNotice
  <1> QED BY <1>1, <1>2, <1>3 DEF Inv

LEMMA LeastIs ==
    ASSUME NEW a \in Nat, NEW b \in Nat
    PROVE  Least(a, b) \in Nat /\ Least(a, b) <= a /\ Least(a, b) <= b
  BY DEF Least

(* A request announces its timer, and the promise is no longer than that.  *)
LEMMA RequestKeeps ==
    ASSUME Flags, Ranges, CutInv, NEW timer \in Nat, RequestOff(timer),
           supply, UNCHANGED <<supply, notice, offTimer>>
    PROVE  /\ powerOff' \in BOOLEAN /\ shutDown' \in BOOLEAN
           /\ shutTimer' \in Nat /\ promised' \in Nat
           /\ CutInv'
  <1>1. /\ promised' \in Nat /\ promised' <= promised /\ promised' <= timer
        /\ powerOff' = TRUE /\ shutDown' = TRUE /\ shutTimer' = timer
    BY LeastIs DEF RequestOff, Ranges
  <1> QED BY <1>1 DEF CutInv, CutAfterNotice, Ranges

(* One pass of ShutDownTimer: the notice n becomes m, the timer t becomes  *)
(* u, and the promise p is no longer than the longest notice d.            *)
LEMMA Countdown ==
    ASSUME NEW d \in Nat, NEW n \in 0 .. d, NEW m \in 0 .. d,
           NEW t \in Nat, NEW u \in Nat, NEW p \in Nat, p <= d, u + 1 >= t,
           n + t >= p, m = d \/ m = n + 1
    PROVE  m + u >= p
  OBVIOUS

LEMMA CountedDown ==
    ASSUME NEW m \in Nat, NEW u \in Nat, NEW p \in Nat, m + u >= p, u = 0
    PROVE  m >= p
  OBVIOUS

(* PowerOffTimer o when it cuts the supply.                                *)
LEMMA CountdownOver ==
    ASSUME NEW d \in Nat, NEW m \in 0 .. d, NEW o \in Nat, NEW p \in Nat, p <= d,
           NEW r \in Nat, m < d => o <= r + 1 + m
    PROVE  o > r + d => m >= p
  OBVIOUS

LEMMA KeyKeeps == ASSUME Inv, KeyCheck PROVE Inv'
  <1> USE DEF Inv
  <1>0. /\ supply /\ task = "key" /\ task' = "chg"
        /\ UNCHANGED <<offTimer, comTimer, fault, plugin, charge, upgrading, supply,
                       commands, notice>>
    BY DEF KeyCheck, At
  <1>1. testTimer' \in 0 .. TestTime + 1 /\ test' \in BOOLEAN
    BY DEF KeyCheck, MiscRun, Flags, Ranges
  <1>2. key' \in BOOLEAN /\ pressed' \in 0 .. KeyDelay /\ released' \in 0 .. KeyDelay
    BY DEF KeyCheck, KeyScan, Ranges
  <1>3. asked' \in BOOLEAN
    BY DEF KeyCheck, Flags
  <1>4. keyOn' \in BOOLEAN
    BY DEF KeyCheck, KeyRequest, KeyAfterRequest, Flags
  <1>5. /\ powerOff' \in BOOLEAN /\ shutDown' \in BOOLEAN
        /\ shutTimer' \in Nat /\ promised' \in Nat
        /\ CutInv'
    <2>1. CASE RequestOff(KeyTimer)
      BY <1>0, <2>1, RequestKeeps
    <2>2. CASE UNCHANGED <<powerOff, shutDown, shutTimer, promised>>
      BY <1>0, <2>2 DEF CutInv, CutAfterNotice, Flags, Ranges
    <2> QED BY <2>1, <2>2 DEF KeyCheck, KeyRequest
  <1>6. Flags'
    BY <1>0, <1>1, <1>3, <1>4, <1>5 DEF Flags
  <1>7. Ranges'
    BY <1>0, <1>1, <1>2, <1>5 DEF Ranges, Tasks
  <1> QED BY <1>5, <1>6, <1>7

LEMMA ChargeKeeps == ASSUME Inv, ChgCtrl PROVE Inv'
  <1> USE DEF Inv
  <1>0. /\ supply /\ task' = "host" /\ fault' \in BOOLEAN
        /\ charge' \in {"no", "mode", "charging"}
        /\ UNCHANGED <<lock, powerOff, shutDown, offTimer, comTimer, mode, supply,
                       commands, history>>
    BY DEF ChgCtrl, At
  <1>1. /\ plugin' \in BOOLEAN /\ keyOn' \in BOOLEAN /\ shutTimer' \in Nat
        /\ powerOff => shutTimer' = shutTimer
    BY DEF ChgCtrl, ChgPlugInCheck, Flags, Ranges
  <1>2. Flags'
    BY <1>0, <1>1 DEF Flags, lock, mode
  <1>3. Ranges'
    BY <1>0, <1>1 DEF Ranges, Tasks, lock, mode, history
  <1>4. CutInv'
    BY <1>0, <1>1 DEF CutInv, CutAfterNotice, history, Ranges, Flags
  <1> QED BY <1>2, <1>3, <1>4

LEMMA HostsKeep == ASSUME Inv, Hosts PROVE Inv'
  <1> USE DEF Inv
  <1>1. ASSUME Command
        PROVE  /\ supply /\ commands' \in 0 .. MaxCommands
               /\ UNCHANGED <<task, lock, offTimer, plugin, charge, supply, notice>>
    BY <1>1 DEF Command, Ranges
  <1>2. CASE VehicleOff
    <2>1. Command /\ RequestOff(KeyTimer) /\ keyOn' = FALSE /\ comTimer' = 0
          /\ UNCHANGED <<fault, mode>>
      BY <1>2 DEF VehicleOff
    <2>2. /\ powerOff' \in BOOLEAN /\ shutDown' \in BOOLEAN
          /\ shutTimer' \in Nat /\ promised' \in Nat /\ CutInv'
      BY <1>1, <2>1, RequestKeeps
    <2>3. Flags'
      BY <1>1, <2>1, <2>2 DEF Flags, lock, mode
    <2>4. Ranges'
      BY <1>1, <2>1, <2>2 DEF Ranges, lock, mode
    <2> QED BY <2>2, <2>3, <2>4
  <1>3. CASE TesterOff
    <2>1. PICK timer \in HostTimers : RequestOff(timer)
      BY <1>3 DEF TesterOff
    <2>2. Command /\ fault' = fault
      BY <1>3 DEF TesterOff
    <2>3. /\ powerOff' \in BOOLEAN /\ shutDown' \in BOOLEAN
          /\ shutTimer' \in Nat /\ promised' \in Nat /\ CutInv'
      BY <1>1, <2>1, <2>2, RequestKeeps
    <2>4. /\ keyOn' \in BOOLEAN /\ test' \in BOOLEAN /\ upgrading' = upgrading
          /\ comTimer' \in 0 .. ComOver /\ testTimer' = testTimer
      <3>1. /\ keyOn' \in {keyOn, FALSE} /\ test' \in {test, FALSE}
            /\ upgrading' = upgrading /\ testTimer' = testTimer
            /\ comTimer' = 0 \/ comTimer' = comTimer
        BY <1>3, Zenon DEF TesterOff, mode
      <3>2. comTimer' \in 0 .. ComOver
        BY <3>1 DEF Ranges
      <3>3. keyOn' \in BOOLEAN /\ test' \in BOOLEAN
        BY <3>1 DEF Flags
      <3> QED BY <3>1, <3>2, <3>3
    <2>5. Flags'
      BY <1>1, <2>2, <2>3, <2>4 DEF Flags, lock
    <2>6. Ranges'
      BY <1>1, <2>2, <2>3, <2>4 DEF Ranges, lock
    <2> QED BY <2>3, <2>5, <2>6
  <1>4. CASE ClearStatus \/ KeyOnByBus \/ ChangeMode
    <2>1. Command
      BY <1>4 DEF ClearStatus, KeyOnByBus, ChangeMode
    <2>2. /\ powerOff' = powerOff /\ shutTimer' = shutTimer /\ promised' = promised
          /\ shutDown' \in BOOLEAN /\ (shutDown' => shutDown)
          /\ comTimer' \in 0 .. ComOver /\ testTimer' = testTimer
      <3>1. /\ powerOff' = powerOff /\ shutTimer' = shutTimer /\ promised' = promised
            /\ testTimer' = testTimer /\ shutDown' \in {shutDown, FALSE}
        BY <1>4, Zenon DEF ClearStatus, KeyOnByBus, ChangeMode, mode
      <3>2. comTimer' = 0 \/ comTimer' = comTimer
        BY <1>4 DEF ClearStatus, KeyOnByBus, ChangeMode, mode
      <3>3. comTimer' \in 0 .. ComOver
        BY <3>2 DEF Ranges
      <3>4. shutDown' \in BOOLEAN /\ (shutDown' => shutDown)
        <4>1. CASE shutDown' = shutDown
          BY <4>1, Zenon DEF Flags
        <4>2. CASE shutDown' = FALSE
          BY <4>2, Zenon
        <4> QED BY <3>1, <4>1, <4>2
      <3> QED BY <3>1, <3>3, <3>4
    <2>3. /\ keyOn' \in BOOLEAN /\ fault' \in BOOLEAN /\ test' \in BOOLEAN
          /\ upgrading' \in BOOLEAN
      BY <1>4 DEF ClearStatus, KeyOnByBus, ChangeMode, mode, Flags
    <2>4. Flags'
      BY <1>1, <2>1, <2>2, <2>3 DEF Flags, lock
    <2>5. Ranges'
      BY <1>1, <2>1, <2>2 DEF Ranges, lock
    <2>6. CutInv'
      BY <1>1, <2>1, <2>2 DEF CutInv, CutAfterNotice
    <2> QED BY <2>4, <2>5, <2>6
  <1>5. CASE Reset
    <2>1. supply /\ UNCHANGED <<key, supply>>
      BY <1>5 DEF Reset
    <2>2. Flags'
      BY <1>5 DEF Reset, Flags
    <2>3. Ranges'
      BY <1>5 DEF Reset, Ranges, Tasks
    <2>4. CutInv'
      BY <1>5 DEF Reset, CutInv, CutAfterNotice
    <2> QED BY <2>2, <2>3, <2>4
  <1> QED BY <1>2, <1>3, <1>4, <1>5 DEF Hosts

(* The pass of PowerOffCtrl: whatever counts down has counted for the      *)
(* notice, and what has run out has been announced.                        *)
LEMMA PowerKeeps == ASSUME Inv, PowerOffCtrl PROVE Inv'
  <1> USE DEF Inv
  <1>0. /\ supply /\ task' = "key"
        /\ UNCHANGED <<lock, keyOn, shutDown, fault, plugin, charge, mode, commands,
                       promised>>
    BY DEF PowerOffCtrl, At
  <1>nums. /\ notice \in 0 .. CutDelay /\ promised \in Nat /\ promised <= CutDelay
           /\ shutTimer \in Nat /\ offTimer \in Nat
    BY DEF CutInv, Ranges
  <1>1. comTimer' \in 0 .. ComOver
    BY DEF PowerOffCtrl, Ranges
  <1>2. offTimer' \in Nat /\ offTimer' <= offTimer + 1
    <2>1. Counted \in Nat /\ Counted <= offTimer + 1
      BY DEF Counted, Ranges
    <2> QED BY <2>1 DEF PowerOffCtrl, Ranges
  <1>3. notice' \in 0 .. CutDelay /\ notice <= notice'
    <2>1. notice' = notice \/ (notice < CutDelay /\ notice' = notice + 1)
      BY Zenon DEF PowerOffCtrl
    <2> QED BY <1>nums, <2>1
  <1>pass. /\ powerOff => notice' = CutDelay \/ notice' = notice + 1
           /\ ~powerOff => notice' = notice
    BY <1>nums DEF PowerOffCtrl
  <1>4. shutTimer' \in Nat /\ shutTimer' + 1 >= shutTimer
    <2>1. shutTimer' = shutTimer \/ shutTimer' = IF shutTimer > 0 THEN shutTimer - 1 ELSE 0
      BY Zenon DEF PowerOffCtrl
    <2> QED BY <1>nums, <2>1
  <1>5. /\ powerOff' \in BOOLEAN /\ supply' \in BOOLEAN /\ (powerOff => powerOff')
        /\ ~powerOff' => offTimer' = 0 \/ ~(offTimer' > PreOff)
        /\ ~supply' => \/ offTimer' > PreOff + CutDelay
                       \/ shutDown /\ shutTimer' = 0
    <2>1. CASE Suspended
      <3>1. /\ powerOff' = powerOff /\ supply' = supply /\ offTimer' = 0
        BY <2>1, Zenon DEF PowerOffCtrl
      <3> QED BY <1>0, <3>1, Zenon DEF Flags
    <2>2. CASE ~Suspended
      <3>1. powerOff' = (powerOff \/ offTimer' > PreOff)
            /\ supply' = ~ \/ powerOff' /\ offTimer' > PreOff + CutDelay
                           \/ shutDown /\ shutTimer' = 0
        BY <2>2, Zenon DEF PowerOffCtrl
      <3>2. /\ (powerOff \/ offTimer' > PreOff) \in BOOLEAN
            /\ (~ \/ powerOff' /\ offTimer' > PreOff + CutDelay
                  \/ shutDown /\ shutTimer' = 0) \in BOOLEAN
        OBVIOUS
      <3> QED BY <3>1, <3>2, Zenon
    <2> QED BY <2>1, <2>2
  <1>6. shutDown => notice' + shutTimer' >= promised
    <2>0. CutDelay \in Nat
      OBVIOUS
    <2>1. /\ notice + shutTimer >= promised
          /\ notice' = CutDelay \/ notice' = notice + 1
          => notice' + shutTimer' >= promised
      BY <2>0, <1>nums, <1>3, <1>4, Countdown, Zenon
    <2>2. shutDown => notice + shutTimer >= promised /\ powerOff
      BY Zenon DEF CutInv
    <2> QED BY <1>pass, <2>1, <2>2, Zenon
  <1>7. notice' < CutDelay => offTimer' <= PreOff + 1 + notice'
    <2> SUFFICES ASSUME notice' < CutDelay PROVE offTimer' <= PreOff + 1 + notice'
      OBVIOUS
    <2>1. CASE powerOff
      <3>1. notice' = notice + 1
        BY <1>nums, <1>pass, <2>1
      <3>2. notice < CutDelay
        BY <1>nums, <3>1
      <3>3. offTimer <= PreOff + 1 + notice
        BY <3>2, Zenon DEF CutInv
      <3> QED BY <1>nums, <1>2, <3>1, <3>3
    <2>2. CASE ~powerOff
      <3>1. offTimer <= PreOff /\ notice' = notice
        BY <1>pass, <2>2, Zenon DEF CutInv
      <3> QED BY <1>nums, <1>2, <3>1
    <2> QED BY <2>1, <2>2
  <1>8. ~supply' => notice' >= promised
    <2>0. CutDelay \in Nat /\ PreOff \in Nat
      OBVIOUS
    <2>1. offTimer' > PreOff + CutDelay => notice' >= promised
      BY <2>0, <1>nums, <1>2, <1>3, <1>7, CountdownOver, Zenon
    <2>2. notice' + shutTimer' >= promised /\ shutTimer' = 0 => notice' >= promised
      <3>1. notice' \in Nat
        BY <1>3
      <3> QED BY <3>1, <1>nums, <1>4, CountedDown, Zenon
    <2> QED BY <1>5, <1>6, <2>1, <2>2, Zenon
  <1>quiet. ~powerOff' => notice' = 0 /\ offTimer' <= PreOff
    <2> SUFFICES ASSUME ~powerOff' PROVE notice' = 0 /\ offTimer' <= PreOff
      OBVIOUS
    <2>1. notice' = 0
      BY <1>pass, <1>5, Zenon DEF CutInv
    <2>2. offTimer' = 0 \/ ~(offTimer' > PreOff)
      BY <1>5
    <2> QED BY <1>2, <2>1, <2>2
  <1>9. Flags'
    BY <1>0, <1>5 DEF Flags, lock, mode
  <1>10. Ranges'
    BY <1>0, <1>1, <1>2, <1>3, <1>4 DEF Ranges, Tasks, lock, mode
  <1>11. CutInv'
    <2>1. (promised <= CutDelay)' /\ (shutDown => powerOff)'
      BY <1>0, <1>5, Zenon DEF CutInv
    <2>2. (shutDown => notice + shutTimer >= promised)'
      BY <1>0, <1>6
    <2>3. CutAfterNotice'
      BY <1>0, <1>8 DEF CutAfterNotice
    <2> QED BY <1>7, <1>quiet, <2>1, <2>2, <2>3, Zenon DEF CutInv
  <1> QED BY <1>9, <1>10, <1>11

LEMMA HostsDoneKeeps == ASSUME Inv, HostsDone PROVE Inv'
  <1> USE DEF Inv
  <1>1. /\ supply /\ task' = "power" /\ comTimer' \in 0 .. ComOver
        /\ UNCHANGED <<lock, keyOn, powerOff, shutDown, shutTimer, offTimer, fault,
                       plugin, charge, mode, supply, commands, history>>
    BY DEF HostsDone, At, Ranges
  <1>2. Flags'
    BY <1>1 DEF Flags, lock, mode
  <1>3. Ranges'
    BY <1>1 DEF Ranges, Tasks, lock, mode, history
  <1>4. CutInv'
    BY <1>1 DEF CutInv, CutAfterNotice, history
  <1> QED BY <1>2, <1>3, <1>4

LEMMA Steps == Inv /\ [Next]_vars => Inv'
  <1> SUFFICES ASSUME Inv, [Next]_vars PROVE Inv'
    OBVIOUS
  <1>1. CASE UNCHANGED vars
    <2>1. Flags'
      BY <1>1 DEF vars, lock, mode, history, Flags, Inv
    <2>2. Ranges'
      BY <1>1 DEF vars, lock, mode, history, Ranges, Inv
    <2>3. CutInv'
      BY <1>1 DEF vars, history, CutInv, CutAfterNotice, Inv
    <2> QED BY <2>1, <2>2, <2>3 DEF Inv
  <1>2. CASE Next
    BY <1>2, KeyKeeps, ChargeKeeps, HostsKeep, HostsDoneKeeps, PowerKeeps
       DEF Next, Pass
  <1> QED BY <1>1, <1>2

(* The inductive invariant: types and both countdowns.                     *)
THEOREM InvariantHolds == Spec => []Inv
  BY Starts, Steps, PTL DEF Spec

(* Every counter and flag keeps its type; the debounce counters and the    *)
(* one of the silent bus saturate.                                         *)
THEOREM TypeCorrect == Spec => []TypeOK
  <1>1. Inv => TypeOK
    BY Typed DEF Inv
  <1> QED BY <1>1, InvariantHolds, PTL

(* PowerOffCtrl never cuts the supply before the shortest delay that the   *)
(* countdown or any request has announced, whatever holds the countdown    *)
(* up, takes requests back or repeats them in between.                     *)
THEOREM CutComesAfterNotice == Spec => []CutAfterNotice
  <1>1. Inv => CutAfterNotice
    BY DEF Inv, CutInv
  <1> QED BY <1>1, InvariantHolds, PTL
=============================================================================
