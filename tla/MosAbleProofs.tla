--------------------------- MODULE MosAbleProofs ---------------------------
(***************************************************************************)
(* Theorems about the two permissions, for every delay and every width of  *)
(* the lock's counter.  First DisMosAble alone: the counters stay in range *)
(* and the two guarantees that hold in the very pass, whatever the         *)
(* counters and the verdict of earlier passes are.  Then both together:    *)
(* the discharge side keeps its guarantees in the composition, and the     *)
(* charge side bounds the charge current into a banned pack.               *)
(***************************************************************************)
EXTENDS MosAble, TLAPS

Record == [able : BOOLEAN, grant : 0 .. Delay + 1, revoke : 0 .. Delay + 1,
           against : 0 .. Delay + 1, lock : {"init", "off", "on"},
           last : {"unknown", "ok", "banned"}]

LEMMA CountInRange ==
    ASSUME NEW n \in 0 .. Delay + 1 PROVE Count(n) \in 0 .. Delay + 1
  BY DelayAssumption DEF Count

(* Each part of the update takes the statics to well-typed statics.        *)
LEMMA LockUpdateTyped ==
    ASSUME NEW s \in Record PROVE LockUpdate(s) \in Record
  <1>1. Count(s.against) \in 0 .. Delay + 1 /\ 0 \in 0 .. Delay + 1
    BY CountInRange, DelayAssumption DEF Record
  <1> QED BY <1>1 DEF LockUpdate, Record

LEMMA FaultEdgeTyped ==
    ASSUME NEW s \in Record PROVE FaultEdge(s) \in Record
  <1>0. 0 \in 0 .. Delay + 1 /\ FALSE \in BOOLEAN
    BY DelayAssumption
  <1>1. [s EXCEPT !.able = FALSE, !.grant = 0, !.lock = "on", !.last = "banned"]
           \in Record
    BY <1>0, Zenon DEF Record
  <1>2. /\ [s EXCEPT !.last = "ok"] \in Record
        /\ [s EXCEPT !.last = "banned"] \in Record
    BY DEF Record
  <1>3. [s EXCEPT !.last = IF ok' THEN "ok" ELSE "banned"] \in Record
    BY <1>2
  <1> QED BY <1>1, <1>3, Zenon DEF FaultEdge

LEMMA UnderVoltageTyped ==
    ASSUME NEW s \in Record PROVE UnderVoltage(s) \in Record
  <1>0. 0 \in 0 .. Delay + 1 /\ FALSE \in BOOLEAN
    BY DelayAssumption
  <1>1. [s EXCEPT !.able = FALSE, !.grant = 0] \in Record
    BY <1>0, Zenon DEF Record
  <1> QED BY <1>1, Zenon DEF UnderVoltage

LEMMA DecideTyped ==
    ASSUME NEW s \in Record PROVE Decide(s) \in Record
  <1>1. /\ Count(s.grant) \in 0 .. Delay + 1 /\ Count(s.revoke) \in 0 .. Delay + 1
        /\ 0 \in 0 .. Delay + 1
    BY CountInRange, DelayAssumption DEF Record
  <1>2. (s.able \/ Due(s.grant)) \in BOOLEAN
        /\ (~(Due(s.revoke) \/ s.lock # "off")) \in BOOLEAN
    OBVIOUS
  <1> QED BY <1>1, <1>2 DEF Decide, Record

(* Every variable keeps its type; the counters do not pass the delay.      *)
THEOREM TypeCorrect == Spec => []TypeOK
  <1>1. Init => TypeOK
    <2>1. 0 \in 0 .. Delay + 1
      BY DelayAssumption
    <2> QED BY <2>1, Zenon DEF Init, TypeOK, Currents
  <1>2. TypeOK /\ [Next]_vars => TypeOK'
    <2> SUFFICES ASSUME TypeOK, Next PROVE TypeOK'
      BY DEF vars, TypeOK
    <2>1. Statics \in Record
      BY DEF Statics, Record, TypeOK
    <2> DEFINE r == Decide(UnderVoltage(FaultEdge(LockUpdate(Statics))))
    <2>2. r \in Record
      BY <2>1, LockUpdateTyped, FaultEdgeTyped, UnderVoltageTyped, DecideTyped
    <2>3. /\ able' = r.able /\ grant' = r.grant /\ revoke' = r.revoke
          /\ against' = r.against /\ lock' = r.lock /\ last' = r.last
      BY DEF Next, DisMosAbleUpdate
    <2> HIDE DEF r
    <2>4. /\ able' \in BOOLEAN /\ grant' \in 0 .. Delay + 1
          /\ revoke' \in 0 .. Delay + 1 /\ against' \in 0 .. Delay + 1
          /\ lock' \in {"init", "off", "on"}
          /\ last' \in {"unknown", "ok", "banned"}
      BY <2>2, <2>3 DEF Record
    <2>5. ok' \in BOOLEAN /\ cur' \in Currents /\ uv' \in BOOLEAN
      BY DEF Next
    <2>6. odd' \in BOOLEAN
      BY DEF Next, TypeOK
    <2> QED BY <2>4, <2>5, <2>6 DEF TypeOK
  <1> QED BY <1>1, <1>2, PTL DEF Spec

(* Under-voltage without a charger takes the permission in the same pass.  *)
THEOREM UnderVoltageAlwaysRevokes == Spec => UnderVoltageRevokes
  <1>1. Next => (uv' /\ cur' \in {"discharge", "small"} => ~able')
    <2> SUFFICES ASSUME DisMosAbleUpdate, uv', cur' \in {"discharge", "small"}
                 PROVE  ~able'
      BY DEF Next
    <2> DEFINE s == FaultEdge(LockUpdate(Statics))
               u == UnderVoltage(s)
    <2>1. u = [s EXCEPT !.able = FALSE, !.grant = 0]
      BY DEF UnderVoltage
    <2>2. able' = Decide(u).able
      BY DEF DisMosAbleUpdate
    <2>3. s \in [able : {s.able}, grant : {s.grant}, revoke : {s.revoke},
                 against : {s.against}, lock : {s.lock}, last : {s.last}]
      BY DEF FaultEdge, LockUpdate, Statics
    <2>4. u \in [able : {FALSE}, grant : {0}, revoke : {s.revoke},
                 against : {s.against}, lock : {s.lock}, last : {s.last}]
      BY <2>1, <2>3
    <2>5. ~Due(u.grant)
      BY <2>4, DelayAssumption DEF Due
    <2> HIDE DEF u
    <2>6. ~Decide(u).able
      BY <2>4, <2>5 DEF Decide
    <2> QED BY <2>2, <2>6
  <1> QED BY <1>1, PTL DEF Spec, UnderVoltageRevokes

(* A locked permission does not come back while the ban lasts and no       *)
(* charge current flows.                                                   *)
THEOREM LockAlwaysHolds == Spec => LockHolds
  <1>1. TypeOK /\ Next => (lock = "on" /\ ~able /\ ~ok' /\ cur' # "charge" => ~able')
    <2> SUFFICES ASSUME TypeOK, DisMosAbleUpdate, lock = "on", ~able, ~ok',
                        cur' # "charge"
                 PROVE  ~able'
      BY DEF Next
    <2> DEFINE s == LockUpdate(Statics)
               f == FaultEdge(s)
               u == UnderVoltage(f)
    <2>1. Statics \in Record /\ Statics.lock = "on" /\ ~Statics.able
      BY DEF Statics, Record, TypeOK
    <2>2. s \in Record /\ s.lock = "on" /\ ~s.able
      BY <2>1, LockUpdateTyped DEF LockUpdate, Record
    <2>3. f = s
      BY <2>2 DEF FaultEdge
    <2>4. u \in Record /\ u.lock = "on" /\ ~u.able
      BY <2>2, <2>3, UnderVoltageTyped DEF UnderVoltage, Record
    <2>5. able' = Decide(u).able
      BY DEF DisMosAbleUpdate
    <2> HIDE DEF u
    <2>6. ~MayGrant(u)
      BY <2>4 DEF MayGrant
    <2>7. ~Decide(u).able
      BY <2>4, <2>6 DEF Decide, Record
    <2> QED BY <2>5, <2>7
  <1> QED BY <1>1, TypeCorrect, PTL DEF Spec, LockHolds

-----------------------------------------------------------------------------
(* The composition.                                                        *)

LEMMA DisClassTyped == ASSUME NEW a \in Amperes PROVE DisClass(a) \in Currents
  BY DEF Amperes, DisClass, Currents

(* A pass of both updates is one of the discharge update with a            *)
(* measurement DisMosAble allows.                                          *)
LEMMA BothImplyDischarge == BothSpec => Spec
  <1>1. BothInit => Init
    BY DEF BothInit
  <1>2. [BothUpdate]_both => [Next]_vars
    <2>1. BothUpdate => Next
      BY DisClassTyped DEF BothUpdate, Measure, Next
    <2>2. UNCHANGED both => UNCHANGED vars
      BY DEF both
    <2> QED BY <2>1, <2>2
  <1> QED BY <1>1, <1>2, PTL DEF BothSpec, Spec

(* What the discharge side guarantees alone it guarantees beside the       *)
(* charge side, with one current and common bans.                          *)
THEOREM DischargeSideKept == BothSpec => LockHolds /\ UnderVoltageRevokes
  BY BothImplyDischarge, LockAlwaysHolds, UnderVoltageAlwaysRevokes

(* The charge side.  While charge current flows into a banned pack, every  *)
(* pass of it has also been counted for the lock, and the lock was not due *)
(* before; the count can start higher, never lower, than the flow.         *)
ChgRecord == [able : BOOLEAN, grant : 0 .. GrantDelay + 1, against : 0 .. Span - 1,
              lock : BOOLEAN, last : BOOLEAN]

ChgInv ==
    /\ C!Statics \in ChgRecord
    /\ chgOk \in BOOLEAN /\ full \in BOOLEAN /\ regrant \in BOOLEAN
    /\ flow \in Nat
    /\ flow > 0 => flow <= chgAgainst /\ chgAgainst <= LockDelay + 1

LEMMA ChgCounts ==
    /\ \A n \in 0 .. GrantDelay + 1 : C!Count(n) \in 0 .. GrantDelay + 1
    /\ \A n \in 0 .. Span - 1 : C!Wrapped(n) \in 0 .. Span - 1
    /\ \A n \in 0 .. LockDelay : n \in 0 .. Span - 1 /\ C!Wrapped(n) = n + 1
    /\ 0 \in 0 .. GrantDelay + 1 /\ 0 \in 0 .. Span - 1
  BY SpanAssumption DEF C!Count, C!Wrapped

LEMMA ChgLockTyped ==
    ASSUME NEW s \in ChgRecord PROVE C!LockUpdate(s) \in ChgRecord
  <1>1. /\ C!Wrapped(s.against) \in 0 .. Span - 1
        /\ (s.lock \/ s.against > LockDelay) \in BOOLEAN
    BY ChgCounts DEF ChgRecord
  <1>2. /\ [s EXCEPT !.lock = FALSE, !.against = 0] \in ChgRecord
        /\ [s EXCEPT !.against = 0] \in ChgRecord
    BY ChgCounts DEF ChgRecord
  <1>3. [s EXCEPT !.grant = 0, !.against = C!Wrapped(s.against),
                  !.lock = s.lock \/ s.against > LockDelay] \in ChgRecord
    BY <1>1, ChgCounts, Zenon DEF ChgRecord
  <1> QED BY <1>2, <1>3, Zenon DEF C!LockUpdate

LEMMA ChgEdgeTyped ==
    ASSUME NEW s \in ChgRecord, chgOk' \in BOOLEAN
    PROVE  C!FaultEdge(s) \in ChgRecord
  <1>1. [s EXCEPT !.able = FALSE, !.grant = 0, !.lock = TRUE, !.last = FALSE] \in ChgRecord
    <2>1. FALSE \in BOOLEAN /\ TRUE \in BOOLEAN
      OBVIOUS
    <2> QED BY <2>1, ChgCounts, Zenon DEF ChgRecord
  <1>2. [s EXCEPT !.last = chgOk'] \in ChgRecord
    BY Zenon DEF ChgRecord
  <1> QED BY <1>1, <1>2, Zenon DEF C!FaultEdge

LEMMA ChgFullTyped ==
    ASSUME NEW s \in ChgRecord PROVE C!FullPack(s) \in ChgRecord
  <1>1. [s EXCEPT !.able = FALSE, !.grant = 0] \in ChgRecord
    <2>1. FALSE \in BOOLEAN
      OBVIOUS
    <2> QED BY <2>1, ChgCounts, Zenon DEF ChgRecord
  <1> QED BY <1>1, Zenon DEF C!FullPack

LEMMA ChgDecideTyped ==
    ASSUME NEW s \in ChgRecord PROVE C!Decide(s) \in ChgRecord
  <1>1. /\ C!Count(s.grant) \in 0 .. GrantDelay + 1
        /\ (s.able \/ s.grant > GrantDelay) \in BOOLEAN
        /\ (s.lock /\ ~(s.grant > GrantDelay /\ chgCur' = "discharge")) \in BOOLEAN
        /\ (~(chgCur' \in {"charge", "small"} /\ ~chgOk')) \in BOOLEAN
    BY ChgCounts DEF ChgRecord
  <1>2. [s EXCEPT !.grant = 0] \in ChgRecord
    BY ChgCounts DEF ChgRecord
  <1>3. [s EXCEPT !.grant = C!Count(s.grant), !.able = s.able \/ s.grant > GrantDelay,
                  !.lock = s.lock /\ ~(s.grant > GrantDelay /\ chgCur' = "discharge")]
           \in ChgRecord
    BY <1>1, Zenon DEF ChgRecord
  <1>4. [s EXCEPT !.grant = 0, !.able = ~(chgCur' \in {"charge", "small"} /\ ~chgOk')]
           \in ChgRecord
    BY <1>1, ChgCounts, Zenon DEF ChgRecord
  <1> QED BY <1>2, <1>3, <1>4, Zenon DEF C!Decide

(* A pass in which charge current flows into a banned pack, whose FET the  *)
(* parallel control did not just permit, is counted, and the lock was not  *)
(* due: with the lock Decide takes the permission at once.                 *)
LEMMA FlowIsCounted ==
    ASSUME NEW s \in ChgRecord, chgOk' \in BOOLEAN, ~chgOk', chgCur' = "charge",
           C!Decide(C!FullPack(C!FaultEdge(C!LockUpdate(s)))).able
    PROVE  /\ s.against <= LockDelay
           /\ C!Decide(C!FullPack(C!FaultEdge(C!LockUpdate(s)))).against = s.against + 1
  <1> DEFINE l == C!LockUpdate(s)
             f == C!FaultEdge(l)
             u == C!FullPack(f)
  <1>1. /\ l \in ChgRecord /\ l.against = C!Wrapped(s.against)
        /\ s.against > LockDelay => l.lock
    <2>1. l = [s EXCEPT !.grant = 0, !.against = C!Wrapped(s.against),
                        !.lock = s.lock \/ s.against > LockDelay]
      BY DEF C!LockUpdate
    <2> QED BY <2>1, ChgLockTyped DEF ChgRecord
  <1> HIDE DEF l
  <1>2. f \in ChgRecord /\ f.against = l.against /\ (l.lock => f.lock)
    <2>1. f \in [able : BOOLEAN, grant : 0 .. GrantDelay + 1, against : {l.against},
                 lock : {l.lock, TRUE}, last : BOOLEAN]
      <3>1. l \in [able : BOOLEAN, grant : 0 .. GrantDelay + 1, against : {l.against},
                   lock : {l.lock, TRUE}, last : BOOLEAN]
        BY <1>1 DEF ChgRecord
      <3>2. FALSE \in BOOLEAN /\ TRUE \in {l.lock, TRUE}
        OBVIOUS
      <3>3. [l EXCEPT !.able = FALSE, !.grant = 0, !.lock = TRUE, !.last = FALSE]
               \in [able : BOOLEAN, grant : 0 .. GrantDelay + 1, against : {l.against},
                    lock : {l.lock, TRUE}, last : BOOLEAN]
        BY <3>1, <3>2, ChgCounts, Zenon
      <3>4. [l EXCEPT !.last = chgOk']
               \in [able : BOOLEAN, grant : 0 .. GrantDelay + 1, against : {l.against},
                    lock : {l.lock, TRUE}, last : BOOLEAN]
        BY <3>1, <3>2, Zenon
      <3>5. f = l \/ f = [l EXCEPT !.last = chgOk']
            \/ f = [l EXCEPT !.able = FALSE, !.grant = 0, !.lock = TRUE, !.last = FALSE]
        BY Zenon DEF C!FaultEdge, f
      <3> QED BY <3>1, <3>3, <3>4, <3>5, Zenon
    <2> QED BY <1>1, <2>1 DEF ChgRecord
  <1> HIDE DEF f
  <1>3. u \in ChgRecord /\ u.against = f.against /\ (f.lock => u.lock)
    <2>1. u = f \/ u = [f EXCEPT !.able = FALSE, !.grant = 0]
      BY DEF C!FullPack
    <2> QED BY <1>2, <2>1, ChgFullTyped DEF ChgRecord
  <1> HIDE DEF u
  <1>4. C!Decide(u).able /\ C!Decide(u).against = u.against /\ ~u.lock
    <2>1. C!Decide(u).able
      BY DEF u, f, l
    <2>2. u.lock => ~C!Decide(u).able
      <3> SUFFICES ASSUME u.lock PROVE ~C!Decide(u).able
        OBVIOUS
      <3>1. CASE ~u.able
        <4>1. C!Decide(u) = [u EXCEPT !.grant = 0]
          BY <1>3, <3>1 DEF C!Decide, C!MayGrant
        <4> QED BY <1>3, <3>1, <4>1 DEF ChgRecord
      <3>2. CASE u.able
        <4>1. C!Decide(u) = [u EXCEPT !.grant = 0, !.able = FALSE]
          BY <1>3, <3>2 DEF C!Decide
        <4> QED BY <1>3, <4>1 DEF ChgRecord
      <3> QED BY <3>1, <3>2
    <2>3. C!Decide(u).against = u.against
      BY <1>3 DEF C!Decide, ChgRecord
    <2> QED BY <2>1, <2>2, <2>3
  <1>5. s.against <= LockDelay
    BY <1>1, <1>2, <1>3, <1>4, SpanAssumption DEF ChgRecord
  <1>6. C!Wrapped(s.against) = s.against + 1
    BY <1>5, ChgCounts, SpanAssumption DEF ChgRecord
  <1> QED BY <1>1, <1>2, <1>3, <1>4, <1>5, <1>6 DEF u, f, l

LEMMA ChgStarts == BothInit => ChgInv
  <1> SUFFICES ASSUME BothInit PROVE ChgInv
    OBVIOUS
  <1>1. /\ chgAble = FALSE /\ chgGrant = 0 /\ chgAgainst = 0 /\ chgLock = FALSE
        /\ chgLast = FALSE /\ flow = 0
        /\ chgOk = FALSE /\ full = FALSE /\ regrant = FALSE
    BY DEF BothInit, C!Init
  <1>2. C!Statics = [able |-> FALSE, grant |-> 0, against |-> 0, lock |-> FALSE,
                     last |-> FALSE]
    BY <1>1 DEF C!Statics
  <1>3. C!Statics \in ChgRecord
    BY <1>2, ChgCounts DEF ChgRecord
  <1>4. FALSE \in BOOLEAN /\ flow \in Nat /\ ~(flow > 0)
    BY <1>1
  <1> QED BY <1>1, <1>3, <1>4, Zenon DEF ChgInv

LEMMA ChgStep == ChgInv /\ [BothUpdate]_both => ChgInv'
  <1> SUFFICES ASSUME ChgInv, [BothUpdate]_both PROVE ChgInv'
    OBVIOUS
  <1>1. CASE UNCHANGED both
    BY <1>1 DEF both, ChgInv, C!Statics
  <1>2. CASE BothUpdate
    <2> DEFINE s == C!Statics
               r == C!Decide(C!FullPack(C!FaultEdge(C!LockUpdate(s))))
    <2>1. chgOk' \in BOOLEAN /\ full' \in BOOLEAN /\ regrant' \in BOOLEAN
      BY <1>2 DEF BothUpdate, Measure
    <2>2. s \in ChgRecord /\ r \in ChgRecord
      BY <2>1, ChgLockTyped, ChgEdgeTyped, ChgFullTyped, ChgDecideTyped DEF ChgInv
    <2>3. s.against = chgAgainst
      BY DEF C!Statics
    <2>4. /\ chgAble' = (r.able \/ regrant') /\ chgLock' = (r.lock /\ ~regrant')
          /\ chgGrant' = r.grant /\ chgAgainst' = r.against /\ chgLast' = r.last
          /\ flow' = IF chgAble' /\ ~chgOk' /\ chgCur' = "charge" /\ ~regrant'
                     THEN flow + 1 ELSE 0
      BY <1>2, Zenon DEF BothUpdate, C!ChgMosAbleUpdate
    <2>5. ASSUME flow' # 0
          PROVE  flow' <= chgAgainst' /\ chgAgainst' <= LockDelay + 1
      <3>1. r.able /\ ~chgOk' /\ chgCur' = "charge" /\ flow' = flow + 1
        BY <2>4, <2>5
      <3>2. s.against <= LockDelay /\ r.against = s.against + 1
        BY <2>1, <2>2, <3>1, FlowIsCounted
      <3> HIDE DEF r, s
      <3>3. flow <= chgAgainst
        BY <2>2, <2>3 DEF ChgInv, ChgRecord
      <3> QED BY <2>2, <2>3, <2>4, <3>1, <3>2, <3>3, SpanAssumption DEF ChgInv, ChgRecord
    <2> HIDE DEF r, s
    <2>6. C!Statics' \in ChgRecord
      <3>1. C!Statics' = [able |-> chgAble', grant |-> chgGrant', against |-> chgAgainst',
                          lock |-> chgLock', last |-> chgLast']
        BY DEF C!Statics
      <3>2. chgAble' \in BOOLEAN /\ chgLock' \in BOOLEAN
        BY <2>4
      <3>3. /\ chgGrant' \in 0 .. GrantDelay + 1 /\ chgAgainst' \in 0 .. Span - 1
            /\ chgLast' \in BOOLEAN
        BY <2>2, <2>4 DEF ChgRecord
      <3> QED BY <3>1, <3>2, <3>3 DEF ChgRecord
    <2>7. flow' \in Nat
      BY <2>4 DEF ChgInv
    <2> QED BY <2>1, <2>5, <2>6, <2>7 DEF ChgInv
  <1> QED BY <1>1, <1>2

(* Every variable of the charge side keeps its type, for every delay.      *)
THEOREM ChargeInvariantHolds == BothSpec => []ChgInv
  BY ChgStarts, ChgStep, PTL DEF BothSpec

(* Charge current flows into a banned pack through its FET for the passes  *)
(* of the lock at most, wherever the u8 count stood when the parallel      *)
(* control took the lock away.                                             *)
THEOREM BannedChargeIsBounded == BothSpec => []BannedChargeBounded
  <1>1. ChgInv => BannedChargeBounded
    <2> SUFFICES ASSUME ChgInv PROVE flow <= LockDelay + 1
      BY DEF BannedChargeBounded, C!BannedChargeBounded
    <2>1. chgAgainst \in 0 .. Span - 1
      BY DEF ChgInv, ChgRecord, C!Statics
    <2> QED BY <2>1, SpanAssumption DEF ChgInv
  <1> QED BY <1>1, ChargeInvariantHolds, PTL
============================================================================
