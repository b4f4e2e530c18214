-------------------------- MODULE MtControlProofs --------------------------
(***************************************************************************)
(* Theorems about packs that share a bus.  For any number of packs and all *)
(* delays every variable keeps its type.  For two packs, current that      *)
(* rushes from one into the other ends within RushBound rounds: the pack   *)
(* that takes it hears of it by the second round, and from then on counts, *)
(* first the passes after a negotiation, then those of rule 6.  And when   *)
(* the world is left alone two packs settle: within the delays named in    *)
(* Settling no current rushes, the load is driven by every pack that       *)
(* discharges, the charger charges every pack that charges, and equals are *)
(* in parallel.                                                            *)
(***************************************************************************)
EXTENDS MtControl, TLAPS

USE DelaysAssumption, VoltagesAssumption, BusesAssumption

-----------------------------------------------------------------------------
(* Types.                                                                  *)

LEMMA CountTyped ==
    ASSUME NEW d \in Nat, NEW n \in 0 .. d
    PROVE  Count(n, d) \in 0 .. d /\ d \in 0 .. d /\ 0 \in 0 .. d
  BY DEF Count

LEMMA CompanyTyped ==
    ASSUME NEW p \in Packs, NEW s \in Statics
    PROVE  Company(p, s) \in Statics
  <1>1. MtOsDelay \in 0 .. MtOsDelay /\ 0 \in 0 .. ChgOn
    OBVIOUS
  <1> QED BY <1>1, Zenon DEF Company, Statics

LEMMA Rule1Typed ==
    ASSUME NEW p \in Packs, NEW s \in Statics
    PROVE  Rule1(p, s) \in Statics
  <1> DEFINE quick == LowerOffCmos(p) /\ (TotalCur(p) =< -1 \/ Current(p) >= 1)
             t == [s EXCEPT !.dison = 0,
                            !.offtoon = IF quick THEN 0 ELSE @,
                            !.lvdison = IF quick THEN DisOn1 ELSE @]
  <1>1. /\ 0 \in 0 .. DisOn /\ 0 \in 0 .. MtOsDelay
        /\ 0 \in 0 .. DisOn1 /\ DisOn1 \in 0 .. DisOn1
    OBVIOUS
  <1>2. t \in Statics /\ [s EXCEPT !.lvdison = 0] \in Statics
    BY <1>1, Zenon DEF Statics
  <1> HIDE DEF t
  <1>3. t.offtoon \in 0 .. MtOsDelay /\ t.lvdison \in 0 .. DisOn1 /\ t.dis \in BOOLEAN
    BY <1>2 DEF Statics
  <1>4. t.offtoon > 0 => [t EXCEPT !.offtoon = @ - 1] \in Statics
    <2>1. t.offtoon > 0 => t.offtoon - 1 \in 0 .. MtOsDelay
      BY <1>3
    <2> QED BY <1>2, <2>1, Zenon DEF Statics
  <1>5. [t EXCEPT !.lvdison = Count(@, DisOn1), !.dis = @ \/ Due(t.lvdison, DisOn1)]
           \in Statics
    <2>1. Count(t.lvdison, DisOn1) \in 0 .. DisOn1
      BY <1>3, CountTyped
    <2>2. (t.dis \/ Due(t.lvdison, DisOn1)) \in BOOLEAN
      OBVIOUS
    <2> QED BY <1>2, <2>1, <2>2, Zenon DEF Statics
  <1> QED BY <1>2, <1>4, <1>5, Zenon DEF Rule1, t

LEMMA Rule2Typed ==
    ASSUME NEW p \in Packs, NEW s \in Statics
    PROVE  Rule2(p, s) \in Statics
  <1> DEFINE waits == s.mtos > 0 /\ s.single
             n == IF waits \/ s.offtoon > 0 THEN 0 ELSE s.dison
             on == s.dis \/ Due(n, DisOn)
             held == ~on /\ s.single /\ PortLive(p) /\ Current(p) =< 0
  <1>1. /\ s.mtos \in 0 .. MtOsDelay /\ s.offtoon \in 0 .. MtOsDelay
        /\ s.dison \in 0 .. DisOn /\ 0 \in 0 .. DisOn /\ 0 \in 0 .. MtOsDelay
    BY DEF Statics
  <1>2. (IF waits THEN s.mtos - 1 ELSE s.mtos) \in 0 .. MtOsDelay
    BY <1>1
  <1>3. (IF s.offtoon > 0 THEN s.offtoon - 1 ELSE 0) \in 0 .. MtOsDelay
    BY <1>1
  <1>4. (IF held THEN 0 ELSE Count(n, DisOn)) \in 0 .. DisOn
    <2>1. n \in 0 .. DisOn
      BY <1>1
    <2> HIDE DEF n
    <2> QED BY <1>1, <2>1, CountTyped
  <1>5. on \in BOOLEAN
    OBVIOUS
  <1> HIDE DEF waits, n, on, held
  <1>6. [s EXCEPT !.mtos = IF waits THEN @ - 1 ELSE @,
                  !.offtoon = IF @ > 0 THEN @ - 1 ELSE 0,
                  !.dison = IF held THEN 0 ELSE Count(n, DisOn),
                  !.dis = on] \in Statics
    BY <1>2, <1>3, <1>4, <1>5, Zenon DEF Statics
  <1>7. [s EXCEPT !.dison = 0] \in Statics
    BY <1>1, Zenon DEF Statics
  <1> QED BY <1>6, <1>7, Zenon DEF Rule2, waits, n, on, held

LEMMA AllowTyped ==
    ASSUME NEW s \in Statics
    PROVE  AllowChg(s) \in Statics
  <1>1. 0 \in 0 .. ChgOff
    OBVIOUS
  <1> QED BY <1>1, Zenon DEF AllowChg, Statics

LEMMA Rule3Typed ==
    ASSUME NEW p \in Packs, NEW s \in Statics
    PROVE  Rule3(p, s) \in Statics
  <1> DEFINE n == IF HigherOffDmos(p, VolOffer) /\ TotalCur(p) >= 1
                  THEN ChgOn1 ELSE s.hvchgon
             t == [s EXCEPT !.chgon = 0]
             u == IF Due(n, ChgOn1) THEN AllowChg(t) ELSE t
  <1>1. /\ 0 \in 0 .. ChgOn1 /\ 0 \in 0 .. ChgOn /\ 0 \in 0 .. ChgOff
        /\ ChgOn1 \in 0 .. ChgOn1 /\ s.hvchgon \in 0 .. ChgOn1
    BY DEF Statics
  <1>2. t \in Statics /\ [s EXCEPT !.hvchgon = 0] \in Statics
    BY <1>1, Zenon DEF Statics
  <1> HIDE DEF t
  <1>3. u \in Statics
    BY <1>2, AllowTyped, Zenon
  <1>4. (IF p \in over THEN 0 ELSE Count(n, ChgOn1)) \in 0 .. ChgOn1
    <2>1. n \in 0 .. ChgOn1
      BY <1>1, Zenon
    <2> HIDE DEF n
    <2> QED BY <1>1, <2>1, CountTyped
  <1> HIDE DEF n, u
  <1>5. [u EXCEPT !.hvchgon = IF p \in over THEN 0 ELSE Count(n, ChgOn1),
                  !.chgoff = IF TotalCur(p) >= 1 THEN 0 ELSE @] \in Statics
    BY <1>1, <1>3, <1>4, Zenon DEF Statics
  <1> QED BY <1>2, <1>5, Zenon DEF Rule3, t, n, u

LEMMA Rule4Typed ==
    ASSUME NEW p \in Packs, NEW s \in Statics
    PROVE  Rule4(p, s) \in Statics
  <1> DEFINE top == IsMax(p, VolOffer) /\ able[p].chg
             gives == top /\ Current(p) =< -1
             t == [s EXCEPT !.mtos = IF gives THEN 0 ELSE @,
                            !.chgon = IF gives THEN ChgOn ELSE @]
             waits == t.mtos > 0 /\ t.single
             n == IF waits THEN 0 ELSE t.chgon
             u == IF Due(n, ChgOn) THEN AllowChg(t) ELSE t
  <1>1. 0 \in 0 .. MtOsDelay /\ ChgOn \in 0 .. ChgOn /\ 0 \in 0 .. ChgOn
    OBVIOUS
  <1>2. t \in Statics /\ [s EXCEPT !.chgon = 0] \in Statics
    BY <1>1, Zenon DEF Statics
  <1> HIDE DEF t
  <1>3. u \in Statics /\ u.mtos = t.mtos
    BY <1>2, AllowTyped DEF AllowChg, Statics
  <1>4. (IF waits THEN u.mtos - 1 ELSE u.mtos) \in 0 .. MtOsDelay
    BY <1>2, <1>3 DEF Statics
  <1>5. Count(n, ChgOn) \in 0 .. ChgOn
    <2>1. n \in 0 .. ChgOn
      BY <1>1, <1>2 DEF Statics
    <2> HIDE DEF n
    <2> QED BY <2>1, CountTyped
  <1> HIDE DEF n, u, waits
  <1>6. [u EXCEPT !.mtos = IF waits THEN @ - 1 ELSE @, !.chgon = Count(n, ChgOn)]
           \in Statics
    BY <1>3, <1>4, <1>5, Zenon DEF Statics
  <1> QED BY <1>2, <1>6, Zenon DEF Rule4, t, n, u, waits

LEMMA Rule5Typed ==
    ASSUME NEW p \in Packs, NEW s \in Statics
    PROVE  Rule5(p, s) \in Statics
  <1>1. /\ Count(s.disoff, DisOff) \in 0 .. DisOff /\ 0 \in 0 .. DisOff
        /\ MtOsDelay \in 0 .. MtOsDelay /\ 0 \in 0 .. DisOn /\ 0 \in 0 .. DisOn1
    BY CountTyped DEF Statics
  <1> DEFINE t == [s EXCEPT !.disoff = Count(@, DisOff)]
  <1>2. t \in Statics /\ [s EXCEPT !.disoff = 0] \in Statics
    BY <1>1, Zenon DEF Statics
  <1> HIDE DEF t
  <1>3. [t EXCEPT !.dis = FALSE, !.offtoon = MtOsDelay,
                  !.dison = IF s.dis THEN 0 ELSE @,
                  !.lvdison = IF s.dis THEN 0 ELSE @] \in Statics
    BY <1>1, <1>2, Zenon DEF Statics
  <1> QED BY <1>2, <1>3, Zenon DEF Rule5, t

LEMMA Rule6Typed ==
    ASSUME NEW p \in Packs, NEW s \in Statics
    PROVE  Rule6(p, s) \in Statics
  <1>1. /\ Count(s.chgoff, ChgOff) \in 0 .. ChgOff /\ 0 \in 0 .. ChgOff
        /\ 0 \in 0 .. ChgOn /\ 0 \in 0 .. ChgOn1
    BY CountTyped DEF Statics
  <1> DEFINE t == [s EXCEPT !.chgoff = Count(@, ChgOff)]
  <1>2. t \in Statics /\ [s EXCEPT !.chgoff = 0] \in Statics
    BY <1>1, Zenon DEF Statics
  <1> HIDE DEF t
  <1>3. [t EXCEPT !.chg = FALSE, !.chgon = IF s.chg THEN 0 ELSE @,
                  !.hvchgon = IF s.chg THEN 0 ELSE @] \in Statics
    BY <1>1, <1>2, Zenon DEF Statics
  <1> QED BY <1>2, <1>3, Zenon DEF Rule6, t

LEMMA JudgementTyped ==
    ASSUME NEW p \in Packs, judge[p] \in Statics
    PROVE  MtBmsControlJudge(p) \in Statics
  <1> DEFINE s == Company(p, judge[p])
             t == [s EXCEPT !.multiok = Count(@, OkDelay)]
  <1>1. s \in Statics
    BY CompanyTyped
  <1> HIDE DEF s
  <1>2. Count(s.multiok, OkDelay) \in 0 .. OkDelay /\ 0 \in 0 .. OkDelay
    BY <1>1, CountTyped DEF Statics
  <1>3. t \in Statics /\ [s EXCEPT !.multiok = 0] \in Statics
    BY <1>1, <1>2, Zenon DEF Statics
  <1> HIDE DEF t
  <1>4. Rule6(p, Rule5(p, Rule4(p, Rule3(p, Rule2(p, Rule1(p, t)))))) \in Statics
    BY <1>3, Rule1Typed, Rule2Typed, Rule3Typed, Rule4Typed, Rule5Typed, Rule6Typed
  <1> QED BY <1>3, <1>4, Zenon DEF MtBmsControlJudge, s, t

LEMMA CurrentTyped ==
    ASSUME TypeOK, NEW p \in Packs
    PROVE  Current(p) \in Currents
  <1>1. bus \in Currents /\ -2 \in Currents /\ 0 \in Currents /\ 2 \in Currents
    BY DEF TypeOK, Currents
  <1> QED BY <1>1, Zenon DEF Current

LEMMA ToldTyped ==
    ASSUME TypeOK, NEW p \in Packs, NEW m \in Fets
    PROVE  Told(p, m) \in Report
  <1>1. Current(p) \in Currents
    BY CurrentTyped
  <1>2. volt[p] \in Levels /\ (p \in plug) \in BOOLEAN
    BY DEF TypeOK
  <1>3. /\ Dis(p) \in BOOLEAN /\ Chg(p) \in BOOLEAN
        /\ m.dis \in BOOLEAN /\ m.chg \in BOOLEAN
    BY DEF Fets, Dis, Chg
  <1> QED BY <1>1, <1>2, <1>3, Zenon DEF Told, Report

LEMMA SwitchedTyped ==
    ASSUME NEW p \in Packs, NEW s \in Statics
    PROVE  Switched(p, s) \in Fets
  BY Zenon DEF Switched, Fets

LEMMA HearTyped ==
    ASSUME TypeOK, mos' \in [Packs -> Fets],
           NEW arrives \in [Packs -> BOOLEAN], Hear(arrives)
    PROVE  /\ report' \in [Packs -> [Packs -> Report]]
           /\ heard' \in [Packs -> [Packs -> 0 .. DataDelay]]
  <1> DEFINE news == [p \in Packs |-> {q \in Packs \ {p} : MaySend(q) /\ arrives[q]}]
  <1>1. /\ heard' = [p \in Packs |-> [q \in Packs |->
                       IF q \in news[p] THEN DataDelay
                       ELSE IF heard[p][q] > 0 THEN heard[p][q] - 1 ELSE 0]]
        /\ report' = [p \in Packs |-> [q \in Packs |->
                       IF q \in news[p] THEN Told(q, mos'[q]) ELSE report[p][q]]]
    BY Zenon DEF Hear
  <1> HIDE DEF news
  <1>2. \A p, q \in Packs :
           (IF q \in news[p] THEN DataDelay
            ELSE IF heard[p][q] > 0 THEN heard[p][q] - 1 ELSE 0) \in 0 .. DataDelay
    <2> TAKE p, q \in Packs
    <2>1. heard[p][q] \in 0 .. DataDelay
      BY DEF TypeOK
    <2> QED BY <2>1
  <1>3. \A p, q \in Packs :
           (IF q \in news[p] THEN Told(q, mos'[q]) ELSE report[p][q]) \in Report
    <2> TAKE p, q \in Packs
    <2>1. report[p][q] \in Report /\ mos'[q] \in Fets
      BY DEF TypeOK
    <2> QED BY <2>1, ToldTyped, Zenon
  <1> QED BY <1>1, <1>2, <1>3, Zenon

LEMMA InitTyped == Init => TypeOK
  <1> SUFFICES ASSUME Init PROVE TypeOK
    OBVIOUS
  <1>1. Off \in Fets /\ [dis |-> TRUE, chg |-> TRUE] \in Fets
    BY DEF Off, Fets
  <1>2. Start \in Statics
    BY DEF Start, Statics
  <1>3. RushBound \in Nat /\ 0 \in 0 .. RushBound + 1 /\ 0 \in 0 .. Settle
        /\ 0 \in 0 .. DataDelay
    BY DEF RushBound
  <1>4. bus \in Currents /\ -2 \in Currents /\ 0 \in Currents /\ 2 \in Currents
    BY DEF Init, Currents
  <1>5. \A q \in Packs : Told(q, Off) \in Report
    <2> TAKE q \in Packs
    <2>1. Current(q) \in Currents
      BY <1>4, Zenon DEF Current
    <2>2. volt[q] \in Levels
      BY Zenon DEF Init
    <2>3. Dis(q) \in BOOLEAN /\ Chg(q) \in BOOLEAN
          /\ Off.dis \in BOOLEAN /\ Off.chg \in BOOLEAN
      BY DEF Off, Dis, Chg
    <2> QED BY <2>1, <2>2, <2>3 DEF Told, Report
  <1>6. report \in [Packs -> [Packs -> Report]]
    BY <1>5, Zenon DEF Init
  <1>7. able \in [Packs -> Fets] /\ mos \in [Packs -> Fets] /\ judge \in [Packs -> Statics]
    BY <1>1, <1>2, Zenon DEF Init
  <1>8. heard \in [Packs -> [Packs -> 0 .. DataDelay]] /\ ok \in [Packs -> BOOLEAN]
    BY <1>3, Zenon DEF Init
  <1> QED BY <1>3, <1>6, <1>7, <1>8, Zenon DEF Init, TypeOK

LEMMA RoundTyped == TypeOK /\ Round => TypeOK'
  <1> SUFFICES ASSUME TypeOK, Round PROVE TypeOK'
    OBVIOUS
  <1>1. PICK arrives \in [Packs -> BOOLEAN] :
          /\ judge' = [p \in Packs |-> MtBmsControlJudge(p)]
          /\ mos' = [p \in Packs |-> Switched(p, judge'[p])]
          /\ Hear(arrives)
          /\ rush' = IF \E h, l \in Packs : Surges(h, l)
                     THEN IF rush > RushBound THEN rush ELSE rush + 1
                     ELSE 0
          /\ still' = IF still < Settle THEN still + 1 ELSE still
          /\ ok' = [p \in Packs |-> TRUE]
          /\ UNCHANGED <<bus, volt, able, over, plug, changes>>
    BY Zenon DEF Round
  <1>2. judge' \in [Packs -> Statics]
    <2>1. \A p \in Packs : MtBmsControlJudge(p) \in Statics
      BY JudgementTyped, Zenon DEF TypeOK
    <2> QED BY <1>1, <2>1, Zenon
  <1>3. mos' \in [Packs -> Fets]
    BY <1>1, <1>2, SwitchedTyped, Zenon
  <1>4. /\ report' \in [Packs -> [Packs -> Report]]
        /\ heard' \in [Packs -> [Packs -> 0 .. DataDelay]]
    BY <1>1, <1>3, HearTyped, Zenon
  <1>5. rush' \in 0 .. RushBound + 1 /\ still' \in 0 .. Settle
    <2>1. RushBound \in Nat /\ rush \in 0 .. RushBound + 1 /\ still \in 0 .. Settle
      BY DEF RushBound, TypeOK
    <2>2. (IF rush > RushBound THEN rush ELSE rush + 1) \in 0 .. RushBound + 1
          /\ 0 \in 0 .. RushBound + 1
          /\ (IF still < Settle THEN still + 1 ELSE still) \in 0 .. Settle
      BY <2>1
    <2> QED BY <1>1, <2>2, Zenon
  <1>6. RushBound' = RushBound
    BY DEF RushBound
  <1> QED BY <1>1, <1>2, <1>3, <1>4, <1>5, <1>6, Zenon DEF TypeOK

LEMMA EnvTyped == TypeOK /\ Env => TypeOK'
  <1> SUFFICES ASSUME TypeOK, Env PROVE TypeOK'
    OBVIOUS
  <1>1. /\ bus' \in Buses /\ volt' \in [Packs -> Levels]
        /\ able' \in [Packs -> Fets] /\ over' \subseteq Packs
        /\ plug' \subseteq Packs /\ ok' \in [Packs -> BOOLEAN]
    BY Zenon DEF TypeOK, Env, World, BusChanges, AbleChanges, Overload,
                 ClearStatus, PlugChanges, VoltChanges, Negotiate
  <1>2. RushBound' = RushBound /\ 0 \in 0 .. RushBound + 1 /\ 0 \in 0 .. Settle
    BY DEF RushBound
  <1> QED BY <1>1, <1>2, Zenon DEF TypeOK, Env

LEMMA StartsTyped == TypeOK /\ (Restart \/ KeyAgain) => TypeOK'
  <1> SUFFICES ASSUME TypeOK, Restart \/ KeyAgain PROVE TypeOK'
    OBVIOUS
  <1>1. Off \in Fets /\ Start \in Statics /\ 0 \in 0 .. DataDelay
    BY DEF Off, Fets, Start, Statics
  <1>2. RushBound' = RushBound /\ 0 \in 0 .. RushBound + 1 /\ 0 \in 0 .. Settle
    BY DEF RushBound
  <1>3. \A p \in Packs : [Start EXCEPT !.single = judge[p].single,
                                       !.mtos = judge[p].mtos,
                                       !.offtoon = judge[p].offtoon] \in Statics
    <2> TAKE p \in Packs
    <2>1. judge[p] \in Statics
      BY Zenon DEF TypeOK
    <2>2. judge[p].single \in BOOLEAN /\ judge[p].mtos \in 0 .. MtOsDelay
          /\ judge[p].offtoon \in 0 .. MtOsDelay
      BY <2>1 DEF Statics
    <2> QED BY <1>1, <2>2, Zenon DEF Statics
  <1>4. Restart => TypeOK'
    <2> SUFFICES ASSUME Restart PROVE TypeOK'
      OBVIOUS
    <2>1. /\ judge' \in [Packs -> Statics] /\ mos' \in [Packs -> Fets]
          /\ ok' \in [Packs -> BOOLEAN] /\ over' \subseteq Packs
      BY <1>1 DEF TypeOK, Restart
    <2>2. heard' \in [Packs -> [Packs -> 0 .. DataDelay]]
      BY <1>1 DEF TypeOK, Restart
    <2> QED BY <1>2, <2>1, <2>2, Zenon DEF TypeOK, Restart
  <1>5. KeyAgain => TypeOK'
    <2> SUFFICES ASSUME KeyAgain PROVE TypeOK'
      OBVIOUS
    <2> DEFINE Kept(p) == [Start EXCEPT !.single = judge[p].single,
                                        !.mtos = judge[p].mtos,
                                        !.offtoon = judge[p].offtoon]
    <2>1. PICK p \in Packs : /\ judge' = [judge EXCEPT ![p] = Kept(p)]
                             /\ mos' = [mos EXCEPT ![p] = Off]
                             /\ ok' = [q \in Packs |-> FALSE]
      BY Zenon DEF KeyAgain
    <2>2. Kept(p) \in Statics
      BY <1>3, Zenon
    <2> HIDE DEF Kept
    <2>3. /\ judge' \in [Packs -> Statics] /\ mos' \in [Packs -> Fets]
          /\ ok' \in [Packs -> BOOLEAN]
      BY <1>1, <2>1, <2>2 DEF TypeOK
    <2> QED BY <1>2, <2>3, Zenon DEF TypeOK, KeyAgain
  <1> QED BY <1>4, <1>5

LEMMA NextTyped == TypeOK /\ [Next]_vars => TypeOK'
  <1>1. TypeOK /\ UNCHANGED vars => TypeOK'
    BY Zenon DEF TypeOK, vars, world, RushBound
  <1> QED BY <1>1, RoundTyped, EnvTyped, StartsTyped, Zenon DEF Next

(* Whatever the number of packs, their voltages and the delays, every      *)
(* variable keeps its type: no rule counts past its delay, and whatever is *)
(* measured and reported is one of the classes the rules tell apart.       *)
THEOREM TypeCorrect == Spec => []TypeOK
  BY InitTyped, NextTyped, PTL DEF Spec

-----------------------------------------------------------------------------
(* Current that rushes between two packs.                                  *)

(* The pack that takes the current has a report of the one that gives it,  *)
(* from which rule 6 tells where the current comes from.                   *)
Heard(l, h) ==
    /\ heard[l][h] >= 1
    /\ report[l][h].cur = -2 /\ report[l][h].vol = volt[h] /\ report[l][h].dismos

(* How far its judgement is: passes since the negotiation, then those that *)
(* rule 6 has counted.                                                     *)
Progress(s) ==
    IF s.multiok < OkDelay THEN s.multiok + 1 ELSE OkDelay + 1 + s.chgoff

RushInv ==
    /\ TypeOK
    /\ RushBounded
    /\ \A h, l \in Packs : Surges(h, l) /\ rush > 0 =>
          /\ \A p \in Packs : ok[p]
          /\ Heard(l, h) \/ (rush = 1 /\ heard[l][h] < DataDelay)
          /\ rush =< Progress(judge[l])

(* What is in the reports when there is one of one other pack.             *)
LEMMA OneTotal ==
    ASSUME NEW p \in Packs, NEW h \in Packs, Others(p) = {h},
           Of(p, h).cur \in Int
    PROVE  TotalCur(p) = Of(p, h).cur
  <1> DEFINE Body(f, S) == IF S = {} THEN 0
                           ELSE LET q == CHOOSE q \in S : TRUE
                                IN  Of(p, q).cur + f[S \ {q}]
             Eq(f) == f = [S \in SUBSET Others(p) |-> Body(f, S)]
             F == [S \in SUBSET Others(p) |-> IF S = {} THEN 0 ELSE Of(p, h).cur]
             sum == CHOOSE f : Eq(f)
  <1>1. TotalCur(p) = sum[Others(p)]
    BY DEF TotalCur
  <1>2. \A S \in SUBSET Others(p) : S = {} \/ S = {h}
    BY Zenon
  <1>3. (CHOOSE q \in {h} : TRUE) = h /\ {h} \ {h} = {}
    OBVIOUS
  <1>4. Eq(F)
    <2> SUFFICES ASSUME NEW S \in SUBSET Others(p) PROVE F[S] = Body(F, S)
      OBVIOUS
    <2>1. CASE S = {}
      BY <2>1
    <2>2. CASE S = {h}
      <3>1. F[{}] = 0 /\ F[S] = Of(p, h).cur
        BY <2>2
      <3>2. Body(F, S) = Of(p, h).cur + F[{}]
        BY <1>3, <2>2
      <3> QED BY <3>1, <3>2
    <2> QED BY <1>2, <2>1, <2>2
  <1>5. Eq(sum)
    BY <1>4
  <1>6. sum[{}] = 0
    BY <1>5
  <1>7. sum[{h}] = Of(p, h).cur + sum[{}]
    BY <1>3, <1>5
  <1> QED BY <1>1, <1>6, <1>7

(* The rules that leave alone what rule 6 counts and reads.                *)
Keeps(s, t) ==
    t.multiok = s.multiok /\ t.chgoff = s.chgoff /\ t.single = s.single

LEMMA CompanyKeeps ==
    ASSUME NEW p \in Packs, NEW s \in Statics, Others(p) # {}
    PROVE  /\ Company(p, s).multiok = s.multiok
           /\ Company(p, s).chgoff = s.chgoff
           /\ ~Company(p, s).single
  BY DEF Company, Statics

LEMMA Rule1Keeps ==
    ASSUME NEW p \in Packs, NEW s \in Statics
    PROVE  Keeps(s, Rule1(p, s))
  BY DEF Rule1, Keeps, Statics

LEMMA Rule2Keeps ==
    ASSUME NEW p \in Packs, NEW s \in Statics
    PROVE  Keeps(s, Rule2(p, s))
  BY DEF Rule2, Keeps, Statics

LEMMA Rule5Keeps ==
    ASSUME NEW p \in Packs, NEW s \in Statics
    PROVE  Keeps(s, Rule5(p, s))
  BY DEF Rule5, Keeps, Statics

(* Without a reason to allow the charge FET rules 3 and 4 only reset.      *)
LEMMA Rule3Keeps ==
    ASSUME NEW p \in Packs, NEW s \in Statics, ~HigherReady(p)
    PROVE  Keeps(s, Rule3(p, s))
  BY DEF Rule3, Keeps, Statics

LEMMA Rule4Keeps ==
    ASSUME NEW p \in Packs, NEW s \in Statics,
           ~IsMax(p, VolOffer), ~s.single
    PROVE  Keeps(s, Rule4(p, s))
  BY DEF Rule4, Keeps, Statics

LEMMA Rule6Counts ==
    ASSUME NEW p \in Packs, NEW s \in Statics, MustNotCharge(p, s)
    PROVE  /\ Rule6(p, s).multiok = s.multiok
           /\ Rule6(p, s).chg => Rule6(p, s).chgoff = s.chgoff + 1
  BY DEF Rule6, Due, Count, Statics

LEMMA Rule6Passes ==
    ASSUME NEW p \in Packs, NEW s \in Statics
    PROVE  Rule6(p, s).multiok = s.multiok
  BY DEF Rule6, Statics

LEMMA Rule3Passes ==
    ASSUME NEW p \in Packs, NEW s \in Statics
    PROVE  Rule3(p, s).multiok = s.multiok
  BY DEF Rule3, AllowChg, Statics

LEMMA Rule4Passes ==
    ASSUME NEW p \in Packs, NEW s \in Statics
    PROVE  Rule4(p, s).multiok = s.multiok
  BY DEF Rule4, AllowChg, Statics

(* Two packs in a rush: each measures the current that it should.          *)
LEMMA SurgeCurrents ==
    ASSUME Reporting, TypeOK, NEW h \in Packs, NEW l \in Packs, Surges(h, l)
    PROVE  /\ h # l /\ \A q \in Packs : q = h \/ q = l
           /\ volt[h] \in Nat /\ volt[l] \in Nat
           /\ volt[h] > volt[l] /\ volt[h] > volt[l] + QVolOffer
           /\ Current(h) = -2 /\ Current(l) = 2
  <1>1. volt[h] \in Nat /\ volt[l] \in Nat
    BY DEF TypeOK
  <1>2. Rushes(h, l) /\ volt[h] > volt[l] /\ volt[h] > volt[l] + QVolOffer
    BY DEF Surges, Rushes
  <1>3. h # l
    BY <1>1, <1>2
  <1>4. \A q \in Packs : q = h \/ q = l
    BY <1>3 DEF Reporting
  <1>5. ~\E q \in Packs : Rushes(l, q)
    BY <1>1, <1>2, <1>4 DEF Rushes
  <1>6. Current(h) = -2
    BY <1>2, Zenon DEF Current
  <1>7. Current(l) = 2
    BY <1>2, <1>5, Zenon DEF Current
  <1> QED BY <1>1, <1>2, <1>3, <1>4, <1>6, <1>7

(* What the taker concludes from the report.                               *)
LEMMA SurgeJudged ==
    ASSUME Reporting, TypeOK, NEW h \in Packs, NEW l \in Packs,
           Surges(h, l), Heard(l, h)
    PROVE  /\ Others(l) = {h} /\ TotalCur(l) = -2
           /\ ~HigherReady(l) /\ ~IsMax(l, VolOffer)
  <1>1. /\ h # l /\ \A q \in Packs : q = h \/ q = l
        /\ volt[h] \in Nat /\ volt[l] \in Nat
        /\ volt[h] > volt[l] + QVolOffer /\ Current(l) = 2
    BY SurgeCurrents
  <1>2. heard[l][h] > 0 /\ heard[l][h] \in Nat
    BY DEF Heard, TypeOK
  <1>3. Others(l) = {h}
    BY <1>1, <1>2, Zenon DEF Others
  <1>4. TotalCur(l) = -2
    BY <1>3, OneTotal DEF Heard, Of
  <1>5. VolOffer =< QVolOffer
    BY DEF Reporting
  <1>6. h \in Higher(l, VolOffer)
    BY <1>1, <1>3, <1>5 DEF Higher, Heard, Of
  <1>7. ~HigherOffDmos(l, VolOffer)
    BY <1>6, Zenon DEF HigherOffDmos, Heard, Of
  <1>8. ~HigherReady(l)
    BY <1>1, <1>7 DEF HigherReady
  <1>9. ~IsMax(l, VolOffer)
    BY <1>6, Zenon DEF IsMax
  <1> QED BY <1>3, <1>4, <1>8, <1>9

(* A judgement counts the passes after a negotiation ...                   *)
LEMMA PassCounts ==
    ASSUME NEW p \in Packs, judge[p] \in Statics, ok[p]
    PROVE  LET J == MtBmsControlJudge(p)
           IN  /\ judge[p].multiok < OkDelay =>
                     J.multiok = judge[p].multiok + 1
               /\ judge[p].multiok >= OkDelay => J.multiok = OkDelay
  <1> DEFINE s == Company(p, judge[p])
             t == [s EXCEPT !.multiok = Count(@, OkDelay)]
             t1 == Rule1(p, t)  t2 == Rule2(p, t1)
             t3 == Rule3(p, t2)  t4 == Rule4(p, t3)
             t5 == Rule5(p, t4)  J == Rule6(p, t5)
  <1>1. s \in Statics /\ s.multiok = judge[p].multiok
    BY CompanyTyped DEF Company, Statics
  <1> HIDE DEF s
  <1>2. t \in Statics /\ t.multiok = Count(s.multiok, OkDelay)
    <2>1. Count(s.multiok, OkDelay) \in 0 .. OkDelay
      BY <1>1, CountTyped DEF Statics
    <2> QED BY <1>1, <2>1 DEF Statics
  <1>3. J.multiok = t.multiok
    <2> HIDE DEF t
    <2>1. t1 \in Statics /\ t1.multiok = t.multiok
      BY <1>2, Rule1Typed, Rule1Keeps DEF Keeps
    <2> HIDE DEF t1
    <2>2. t2 \in Statics /\ t2.multiok = t1.multiok
      BY <2>1, Rule2Typed, Rule2Keeps DEF Keeps
    <2> HIDE DEF t2
    <2>3. t3 \in Statics /\ t3.multiok = t2.multiok
      BY <2>2, Rule3Typed, Rule3Passes
    <2> HIDE DEF t3
    <2>4. t4 \in Statics /\ t4.multiok = t3.multiok
      BY <2>3, Rule4Typed, Rule4Passes
    <2> HIDE DEF t4
    <2>5. t5 \in Statics /\ t5.multiok = t4.multiok
      BY <2>4, Rule5Typed, Rule5Keeps DEF Keeps
    <2> HIDE DEF t5
    <2> QED BY <2>1, <2>2, <2>3, <2>4, <2>5, Rule6Passes
  <1>4. MtBmsControlJudge(p) = IF Due(s.multiok, OkDelay) THEN J ELSE t
    BY Zenon DEF MtBmsControlJudge, s
  <1> HIDE DEF J, t
  <1>5. s.multiok \in 0 .. OkDelay
    BY <1>1 DEF Statics
  <1> QED BY <1>1, <1>2, <1>3, <1>4, <1>5 DEF Due, Count

(* ... and then, for a taker that hears where the current comes from, the  *)
(* passes until its charge FET goes off.                                   *)
LEMMA TakerCounts ==
    ASSUME Reporting, TypeOK, NEW h \in Packs, NEW l \in Packs,
           Surges(h, l), Heard(l, h), ok[l], judge[l].multiok = OkDelay,
           MtBmsControlJudge(l).chg
    PROVE  MtBmsControlJudge(l).chgoff = judge[l].chgoff + 1
  <1> DEFINE s == Company(l, judge[l])
             t == [s EXCEPT !.multiok = Count(@, OkDelay)]
             t1 == Rule1(l, t)  t2 == Rule2(l, t1)
             t3 == Rule3(l, t2)  t4 == Rule4(l, t3)
             t5 == Rule5(l, t4)  J == Rule6(l, t5)
  <1>1. judge[l] \in Statics
    BY DEF TypeOK
  <1>2. /\ Others(l) = {h} /\ TotalCur(l) = -2 /\ Current(l) = 2
        /\ ~HigherReady(l) /\ ~IsMax(l, VolOffer)
    BY SurgeJudged, SurgeCurrents
  <1>3. /\ s \in Statics /\ s.multiok = OkDelay /\ ~s.single
        /\ s.chgoff = judge[l].chgoff
    BY <1>1, <1>2, CompanyTyped, CompanyKeeps
  <1> HIDE DEF s
  <1>4. t \in Statics /\ ~t.single /\ t.chgoff = s.chgoff
    <2>1. Count(s.multiok, OkDelay) \in 0 .. OkDelay
      BY <1>3, CountTyped DEF Statics
    <2> QED BY <1>3, <2>1 DEF Statics
  <1>5. MtBmsControlJudge(l) = J
    <2>1. Due(s.multiok, OkDelay)
      BY <1>3 DEF Due
    <2> QED BY <2>1, Zenon DEF MtBmsControlJudge, s
  <1> HIDE DEF t
  <1>6. t1 \in Statics /\ ~t1.single /\ t1.chgoff = t.chgoff
    BY <1>4, Rule1Typed, Rule1Keeps DEF Keeps
  <1> HIDE DEF t1
  <1>7. t2 \in Statics /\ ~t2.single /\ t2.chgoff = t.chgoff
    BY <1>6, Rule2Typed, Rule2Keeps DEF Keeps
  <1> HIDE DEF t2
  <1>8. t3 \in Statics /\ ~t3.single /\ t3.chgoff = t.chgoff
    BY <1>2, <1>7, Rule3Typed, Rule3Keeps DEF Keeps
  <1> HIDE DEF t3
  <1>9. t4 \in Statics /\ ~t4.single /\ t4.chgoff = t.chgoff
    BY <1>2, <1>8, Rule4Typed, Rule4Keeps DEF Keeps
  <1> HIDE DEF t4
  <1>10. t5 \in Statics /\ ~t5.single /\ t5.chgoff = t.chgoff
    BY <1>9, Rule5Typed, Rule5Keeps DEF Keeps
  <1> HIDE DEF t5
  <1>11. MustNotCharge(l, t5)
    BY <1>2, <1>10 DEF MustNotCharge
  <1> QED BY <1>3, <1>4, <1>5, <1>10, <1>11, Rule6Counts

(* By how much a round brings the judgement of the taker forward.          *)
LEMMA ProgressMade ==
    ASSUME Reporting, TypeOK, NEW h \in Packs, NEW l \in Packs,
           Surges(h, l), ok[l], MtBmsControlJudge(l).chg
    PROVE  /\ Progress(MtBmsControlJudge(l)) >= 2
           /\ Heard(l, h) =>
                 Progress(MtBmsControlJudge(l)) >= Progress(judge[l]) + 1
  <1> DEFINE J == MtBmsControlJudge(l)
  <1>1. judge[l] \in Statics /\ J \in Statics
    BY JudgementTyped DEF TypeOK
  <1>2. /\ judge[l].multiok < OkDelay => J.multiok = judge[l].multiok + 1
        /\ judge[l].multiok >= OkDelay => J.multiok = OkDelay
    BY <1>1, PassCounts
  <1>3. /\ judge[l].multiok \in 0 .. OkDelay /\ judge[l].chgoff \in 0 .. ChgOff
        /\ J.multiok \in 0 .. OkDelay /\ J.chgoff \in 0 .. ChgOff
    BY <1>1 DEF Statics
  <1>4. Heard(l, h) /\ judge[l].multiok = OkDelay => J.chgoff = judge[l].chgoff + 1
    BY TakerCounts
  <1> HIDE DEF J
  <1>5. OkDelay > 0
    BY DEF Reporting
  <1>6. Progress(J) >= 2
    BY <1>2, <1>3, <1>5 DEF Progress
  <1>7. ASSUME Heard(l, h) PROVE Progress(J) >= Progress(judge[l]) + 1
    <2>1. CASE judge[l].multiok < OkDelay
      BY <2>1, <1>2, <1>3 DEF Progress
    <2>2. CASE judge[l].multiok = OkDelay
      BY <2>2, <1>2, <1>3, <1>4, <1>7 DEF Progress
    <2> QED BY <1>3, <2>1, <2>2
  <1> QED BY <1>6, <1>7 DEF J

(* A report that arrives tells the taker; one that is lost is the first,   *)
(* and the one before is still valid.                                      *)
LEMMA ReportHeard ==
    ASSUME Reporting, TypeOK, NEW h \in Packs, NEW l \in Packs, h # l,
           NEW arrives \in [Packs -> BOOLEAN], Hear(arrives), volt' = volt,
           Current(h) = -2, mos'[h].dis
    PROVE  /\ arrives[h] /\ ok[h] => Heard(l, h)'
           /\ ~(arrives[h] /\ ok[h]) => heard'[l][h] < DataDelay
           /\ ~(arrives[h] /\ ok[h]) /\ Heard(l, h) /\ heard[l][h] > DataDelay - MaxLost
                 => Heard(l, h)'
  <1> DEFINE news == [p \in Packs |-> {q \in Packs \ {p} : MaySend(q) /\ arrives[q]}]
  <1>1. /\ heard' = [p \in Packs |-> [q \in Packs |->
                       IF q \in news[p] THEN DataDelay
                       ELSE IF heard[p][q] > 0 THEN heard[p][q] - 1 ELSE 0]]
        /\ report' = [p \in Packs |-> [q \in Packs |->
                       IF q \in news[p] THEN Told(q, mos'[q]) ELSE report[p][q]]]
    BY Zenon DEF Hear
  <1>2. h \in news[l] <=> arrives[h] /\ ok[h]
    BY Zenon DEF MaySend
  <1> HIDE DEF news
  <1>3. /\ heard'[l][h] = IF h \in news[l] THEN DataDelay
                          ELSE IF heard[l][h] > 0 THEN heard[l][h] - 1 ELSE 0
        /\ report'[l][h] = IF h \in news[l] THEN Told(h, mos'[h]) ELSE report[l][h]
    BY <1>1, Zenon
  <1>4. /\ Told(h, mos'[h]).vol = volt'[h] /\ Told(h, mos'[h]).cur = -2
        /\ Told(h, mos'[h]).dismos
    BY DEF Told
  <1>5. heard[l][h] \in 0 .. DataDelay
    BY DEF TypeOK
  <1>6. CASE h \in news[l]
    <2>1. Heard(l, h)'
      BY <1>3, <1>4, <1>6 DEF Heard
    <2> QED BY <1>2, <1>6, <2>1
  <1>7. CASE h \notin news[l]
    <2>1. heard'[l][h] < DataDelay
      BY <1>3, <1>5, <1>7
    <2>2. Heard(l, h) /\ heard[l][h] > DataDelay - MaxLost => Heard(l, h)'
      <3> SUFFICES ASSUME Heard(l, h), heard[l][h] > DataDelay - MaxLost
                   PROVE  Heard(l, h)'
        OBVIOUS
      <3>1. heard'[l][h] >= 1 /\ report'[l][h] = report[l][h]
        BY <1>3, <1>5, <1>7 DEF Heard, Reporting
      <3> QED BY <3>1 DEF Heard
    <2> QED BY <1>2, <1>7, <2>1, <2>2
  <1> QED BY <1>6, <1>7

LEMMA ProgressBound ==
    ASSUME NEW s \in Statics
    PROVE  Progress(s) \in Nat /\ Progress(s) + 1 =< RushBound
  BY DEF Progress, RushBound, Statics

LEMMA AllowedOnly ==
    ASSUME NEW p \in Packs, NEW s \in Statics, Switched(p, s).chg
    PROVE  s.chg
  BY DEF Switched, Statics

LEMMA RoundRush ==
    ASSUME Reporting, RushInv, Round
    PROVE  RushInv'
  <1>1. PICK arrives \in [Packs -> BOOLEAN] :
          /\ \A q \in Packs : arrives[q] \/ \A p \in Packs \ {q} :
                ok[q] /\ heard[p][q] > DataDelay - MaxLost
          /\ judge' = [p \in Packs |-> MtBmsControlJudge(p)]
          /\ mos' = [p \in Packs |-> Switched(p, judge'[p])]
          /\ Hear(arrives)
          /\ rush' = IF \E h, l \in Packs : Surges(h, l)
                     THEN IF rush > RushBound THEN rush ELSE rush + 1
                     ELSE 0
          /\ ok' = [p \in Packs |-> TRUE]
          /\ bus' = bus /\ volt' = volt
    BY Zenon DEF Round
  <1>2. TypeOK /\ TypeOK' /\ RushBounded
    BY RoundTyped, Zenon DEF RushInv
  <1>3. RushBound \in Nat /\ RushBound' = RushBound /\ rush \in Nat /\ rush =< RushBound
        /\ RushBound > 0
    BY <1>2 DEF RushBound, RushBounded, TypeOK
  <1>4. rush' > 0 => /\ \E h, l \in Packs : Surges(h, l)
                     /\ rush' = rush + 1
    BY <1>1, <1>3
  <1>5. RushBounded'
    <2>1. CASE rush' > 0 /\ rush > 0
      <3>1. PICK h \in Packs, l \in Packs : Surges(h, l)
        BY <1>4, <2>1
      <3>2. rush =< Progress(judge[l])
        BY <2>1, <3>1, Zenon DEF RushInv
      <3>3. Progress(judge[l]) \in Nat /\ Progress(judge[l]) + 1 =< RushBound
        BY <1>2, ProgressBound DEF TypeOK
      <3> QED BY <1>3, <1>4, <2>1, <3>2, <3>3 DEF RushBounded
    <2>2. CASE ~(rush' > 0 /\ rush > 0)
      BY <1>1, <1>3, <2>2 DEF RushBounded
    <2> QED BY <2>1, <2>2
  <1>6. ASSUME NEW h \in Packs, NEW l \in Packs, Surges(h, l)', rush' > 0
        PROVE  /\ \A p \in Packs : ok'[p]
               /\ Heard(l, h)' \/ (rush' = 1 /\ heard'[l][h] < DataDelay)
               /\ rush' =< Progress(judge'[l])
    <2>1. Surges(h, l)
      <3>1. PICK g \in Packs, m \in Packs : Surges(g, m)
        BY <1>4, <1>6
      <3>2. g # m /\ volt[g] > volt[m] /\ \A q \in Packs : q = g \/ q = m
        BY <1>2, <3>1, SurgeCurrents
      <3>3. volt[h] > volt[l] /\ volt[g] \in Nat /\ volt[m] \in Nat
        BY <1>1, <1>2, <1>6 DEF Surges, Rushes, TypeOK
      <3> QED BY <3>1, <3>2, <3>3
    <2>2. /\ h # l /\ Current(h) = -2
      BY <1>2, <2>1, SurgeCurrents
    <2>3. mos'[h].dis /\ mos'[l].chg
      BY <1>6, Zenon DEF Surges, Rushes, Givers, Takers
    <2>4. judge'[l] = MtBmsControlJudge(l) /\ judge'[l].chg
      <3>1. mos'[l] = Switched(l, judge'[l])
        BY <1>1, Zenon
      <3>2. judge'[l].chg
        <4>1. judge'[l] \in Statics
          BY <1>2, Zenon DEF TypeOK
        <4> QED BY <2>3, <3>1, <4>1, AllowedOnly
      <3> QED BY <1>1, <3>2, Zenon
    <2>5. /\ arrives[h] /\ ok[h] => Heard(l, h)'
          /\ ~(arrives[h] /\ ok[h]) => heard'[l][h] < DataDelay
          /\ ~(arrives[h] /\ ok[h]) /\ Heard(l, h) /\ heard[l][h] > DataDelay - MaxLost
                => Heard(l, h)'
      BY <1>1, <1>2, <2>2, <2>3, ReportHeard
    <2>6. judge'[l] \in Statics
      BY <1>2, Zenon DEF TypeOK
    <2>7. \A p \in Packs : ok'[p]
      BY <1>1, Zenon
    <2>8. CASE rush = 0
      <3>1. rush' = 1
        BY <1>4, <1>6, <2>8
      <3>2. Progress(judge'[l]) >= 1
        BY <2>6 DEF Progress, Statics
      <3> QED BY <2>5, <2>7, <3>1, <3>2
    <2>9. CASE rush > 0
      <3>1. /\ ok[h] /\ ok[l]
            /\ Heard(l, h) \/ (rush = 1 /\ heard[l][h] < DataDelay)
            /\ rush =< Progress(judge[l])
        BY <2>1, <2>9, Zenon DEF RushInv
      <3>2. Heard(l, h)'
        <4>1. CASE arrives[h]
          BY <2>5, <3>1, <4>1, Zenon
        <4>2. CASE ~arrives[h]
          <5>1. heard[l][h] > DataDelay - MaxLost
            BY <1>1, <2>2, <4>2, Zenon
          <5>2. heard[l][h] \in 0 .. DataDelay
            BY <1>2 DEF TypeOK
          <5>3. ~(heard[l][h] < DataDelay)
            BY <5>1, <5>2 DEF Reporting
          <5> QED BY <2>5, <3>1, <4>2, <5>1, <5>3, Zenon
        <4> QED BY <4>1, <4>2
      <3>3. /\ Progress(judge'[l]) >= 2
            /\ Heard(l, h) => Progress(judge'[l]) >= Progress(judge[l]) + 1
        BY <1>2, <2>1, <2>4, <3>1, ProgressMade, Zenon
      <3>4. Progress(judge'[l]) \in Nat /\ Progress(judge[l]) \in Nat
        BY <1>2, <2>6, ProgressBound DEF TypeOK
      <3>5. rush' =< Progress(judge'[l])
        BY <1>3, <1>4, <1>6, <3>1, <3>3, <3>4
      <3> QED BY <2>7, <3>2, <3>5, Zenon
    <2> QED BY <1>3, <2>8, <2>9
  <1> QED BY <1>2, <1>5, <1>6, Zenon DEF RushInv

LEMMA CalmRush ==
    ASSUME TypeOK, rush = 0
    PROVE  RushInv
  BY DEF RushInv, RushBounded, RushBound

LEMMA NextRush ==
    ASSUME Reporting, RushInv, [Next]_vars
    PROVE  RushInv'
  <1>1. TypeOK'
    BY NextTyped, Zenon DEF RushInv
  <1>2. CASE Round
    BY <1>2, RoundRush
  <1>3. CASE Env \/ Restart \/ KeyAgain
    <2>1. rush' = 0
      BY <1>3, Zenon DEF Env, Restart, KeyAgain
    <2> QED BY <1>1, <2>1 DEF RushInv, RushBounded, RushBound
  <1>4. CASE UNCHANGED vars
    BY <1>1, <1>4, Zenon DEF RushInv, RushBounded, RushBound, Heard, Progress,
       Surges, Rushes, Givers, Takers, vars, world
  <1> QED BY <1>2, <1>3, <1>4, Zenon DEF Next

(* Two packs may close on old reports of each other; the current that then *)
(* rushes from the higher into the lower one ends within RushBound rounds, *)
(* for all voltages and all delays: multiCan.c's rule 6 counts in every    *)
(* pass of the rush, since one lost report does not silence the other pack *)
(* and no other rule takes its count back.                                 *)
THEOREM RushIsBounded ==
    ASSUME Reporting
    PROVE  Spec => []RushBounded
  <1>1. Init => RushInv
    BY InitTyped, CalmRush, Zenon DEF Init
  <1>2. RushInv /\ [Next]_vars => RushInv'
    BY NextRush
  <1>3. RushInv => RushBounded
    BY Zenon DEF RushInv
  <1> QED BY <1>1, <1>2, <1>3, PTL DEF Spec

-----------------------------------------------------------------------------
(* Two packs settle.  What each rule does to the variables of the          *)
(* discharge FET, and to those of the charge FET.                          *)

SameDis(s, t) ==
    /\ t.dis = s.dis /\ t.offtoon = s.offtoon /\ t.dison = s.dison
    /\ t.lvdison = s.lvdison /\ t.disoff = s.disoff
SameChg(s, t) ==
    /\ t.chg = s.chg /\ t.chgon = s.chgon /\ t.hvchgon = s.hvchgon
    /\ t.chgoff = s.chgoff

(* How far a discharge FET that is off is on its way to be allowed, by     *)
(* rule 1 for the higher pack and by rule 2 for the lower one.             *)
Rank1(s) ==
    IF s.offtoon > 0 THEN MtOsDelay - s.offtoon ELSE MtOsDelay + s.lvdison
Rank2(s) ==
    IF s.offtoon > 0 THEN MtOsDelay - s.offtoon ELSE MtOsDelay + s.dison

LEMMA Rule1Idle ==
    ASSUME NEW p \in Packs, NEW s \in Statics,
           Lower(p, VolOffer) = {} \/ ~LowerReady(p)
    PROVE  LET t == Rule1(p, s)
           IN  /\ t.dis = s.dis /\ t.offtoon = s.offtoon /\ t.dison = s.dison
               /\ t.disoff = s.disoff
  BY DEF Rule1, Statics

LEMMA Rule1Ready ==
    ASSUME NEW p \in Packs, NEW s \in Statics,
           Lower(p, VolOffer) # {}, LowerReady(p)
    PROVE  LET t == Rule1(p, s)
           IN  /\ s.dis => t.dis
               /\ ~t.dis => ~s.dis /\ Rank1(t) >= Rank1(s) + 1
               /\ t.disoff = s.disoff
  <1> DEFINE quick == LowerOffCmos(p) /\ (TotalCur(p) =< -1 \/ Current(p) >= 1)
             off == IF quick THEN 0 ELSE s.offtoon
             on == IF quick THEN DisOn1 ELSE s.lvdison
             t == Rule1(p, s)
  <1>1. /\ off \in 0 .. MtOsDelay /\ on \in 0 .. DisOn1
        /\ ~quick => off = s.offtoon /\ on = s.lvdison
        /\ quick => off = 0 /\ on = DisOn1
    BY DEF Statics
  <1>2. /\ off > 0 => t.offtoon = off - 1 /\ t.lvdison = on
        /\ ~(off > 0) => t.offtoon = off /\ t.lvdison = Count(on, DisOn1)
        /\ t.disoff = s.disoff
    BY DEF Rule1, Statics
  <1>3. /\ off > 0 => t.dis = s.dis
        /\ ~(off > 0) => t.dis = (s.dis \/ Due(on, DisOn1))
    BY DEF Rule1, Statics
  <1> HIDE DEF quick, off, on, t
  <1>4. s.dis => t.dis
    BY <1>3, Zenon
  <1>5. ASSUME ~t.dis PROVE ~s.dis /\ Rank1(t) >= Rank1(s) + 1
    <2>1. ~s.dis /\ (off > 0 \/ ~Due(on, DisOn1))
      BY <1>3, <1>5, Zenon
    <2>2. off = s.offtoon /\ on = s.lvdison
      BY <1>1, <2>1 DEF Due
    <2>3. s.offtoon \in 0 .. MtOsDelay /\ s.lvdison \in 0 .. DisOn1
      BY DEF Statics
    <2>4. off > 0 => t.offtoon = off - 1 /\ t.lvdison = on
      BY <1>2
    <2>5. ~(off > 0) => t.offtoon = off /\ t.lvdison = on + 1
      BY <1>2, <2>1, <2>2, <2>3 DEF Count, Due
    <2>6. Rank1(t) >= Rank1(s) + 1
      BY ONLY <2>2, <2>3, <2>4, <2>5, MtOsDelay \in Nat, DisOn1 \in Nat DEF Rank1
    <2> QED BY <2>1, <2>6
  <1> QED BY <1>2, <1>4, <1>5 DEF t

LEMMA Rule2Lowest ==
    ASSUME NEW p \in Packs, NEW s \in Statics, ~s.single, IsMin(p, VolOffer)
    PROVE  LET t == Rule2(p, s)
           IN  /\ s.dis => t.dis
               /\ ~t.dis => ~s.dis /\ Rank2(t) >= Rank2(s) + 1
  <1> DEFINE n == IF s.offtoon > 0 THEN 0 ELSE s.dison
             t == Rule2(p, s)
  <1>1. /\ s.offtoon \in 0 .. MtOsDelay /\ s.dison \in 0 .. DisOn
        /\ n \in 0 .. DisOn
    BY DEF Statics
  <1>2. /\ t.offtoon = IF s.offtoon > 0 THEN s.offtoon - 1 ELSE 0
        /\ t.dison = Count(n, DisOn)
        /\ t.dis = (s.dis \/ Due(n, DisOn))
    BY DEF Rule2, Statics
  <1> HIDE DEF t
  <1>3. s.dis => t.dis
    BY <1>2, Zenon
  <1>4. ASSUME ~t.dis PROVE ~s.dis /\ Rank2(t) >= Rank2(s) + 1
    <2>1. ~s.dis /\ ~Due(n, DisOn)
      BY <1>2, <1>4, Zenon
    <2>2. t.dison = n + 1
      BY <1>1, <1>2, <2>1 DEF Count, Due
    <2> QED BY <1>1, <1>2, <2>1, <2>2 DEF Rank2
  <1> QED BY <1>3, <1>4 DEF t

LEMMA Rule2Idle ==
    ASSUME NEW p \in Packs, NEW s \in Statics, ~s.single, ~IsMin(p, VolOffer)
    PROVE  LET t == Rule2(p, s)
           IN  /\ t.dis = s.dis /\ t.offtoon = s.offtoon
               /\ t.lvdison = s.lvdison /\ t.disoff = s.disoff
  BY DEF Rule2, Statics

LEMMA Rule3Idle ==
    ASSUME NEW p \in Packs, NEW s \in Statics,
           Higher(p, VolOffer) = {} \/ ~HigherReady(p)
    PROVE  LET t == Rule3(p, s)
           IN  t.chg = s.chg /\ t.chgon = s.chgon /\ t.chgoff = s.chgoff
  BY DEF Rule3, Statics

LEMMA Rule3Ready ==
    ASSUME NEW p \in Packs, NEW s \in Statics,
           Higher(p, VolOffer) # {}, HigherReady(p), p \notin over
    PROVE  LET t == Rule3(p, s)
           IN  /\ s.chg => t.chg
               /\ t.chg /\ ~s.chg => t.chgoff = 0
               /\ ~t.chg => ~s.chg /\ t.hvchgon >= s.hvchgon + 1
  BY DEF Rule3, AllowChg, Count, Due, Statics

LEMMA Rule4Highest ==
    ASSUME NEW p \in Packs, NEW s \in Statics, ~s.single,
           IsMax(p, VolOffer), able[p].chg
    PROVE  LET t == Rule4(p, s)
           IN  /\ s.chg => t.chg
               /\ ~t.chg => ~s.chg /\ t.chgon >= s.chgon + 1
  BY DEF Rule4, AllowChg, Count, Due, Statics

LEMMA Rule4Idle ==
    ASSUME NEW p \in Packs, NEW s \in Statics, ~s.single, ~IsMax(p, VolOffer)
    PROVE  LET t == Rule4(p, s)
           IN  t.chg = s.chg /\ t.hvchgon = s.hvchgon /\ t.chgoff = s.chgoff
  BY DEF Rule4, Statics

LEMMA Rule5Idle ==
    ASSUME NEW p \in Packs, NEW s \in Statics, ~MakesWay(p), able[p].dis
    PROVE  LET t == Rule5(p, s)
           IN  /\ t.dis = s.dis /\ t.offtoon = s.offtoon /\ t.dison = s.dison
               /\ t.lvdison = s.lvdison
  BY DEF Rule5, Statics

LEMMA Rule5Opens ==
    ASSUME NEW p \in Packs, NEW s \in Statics, MakesWay(p)
    PROVE  Rule5(p, s).dis => s.dis /\ Rule5(p, s).disoff >= s.disoff + 1
  BY DEF Rule5, Count, Due, Statics

LEMMA Rule6Idle ==
    ASSUME NEW p \in Packs, NEW s \in Statics, ~MustNotCharge(p, s)
    PROVE  LET t == Rule6(p, s)
           IN  t.chg = s.chg /\ t.chgon = s.chgon /\ t.hvchgon = s.hvchgon
  BY DEF Rule6, Statics

LEMMA Rule6Opens ==
    ASSUME NEW p \in Packs, NEW s \in Statics, MustNotCharge(p, s)
    PROVE  Rule6(p, s).chg => s.chg /\ Rule6(p, s).chgoff >= s.chgoff + 1
  BY DEF Rule6, Count, Due, Statics

(* A charge FET just allowed is not taken back in the same pass.           *)
LEMMA Rule6Waits ==
    ASSUME NEW p \in Packs, NEW s \in Statics, ChgOff > 0
    PROVE  /\ s.chg /\ s.chgoff = 0 => Rule6(p, s).chg
           /\ ~s.chg => ~Rule6(p, s).chg /\ Rule6(p, s).hvchgon = s.hvchgon
  BY DEF Rule6, Count, Due, Statics

(* What the rules for one FET leave of the other.                          *)
LEMMA DisRules ==
    ASSUME NEW p \in Packs, NEW s \in Statics
    PROVE  /\ SameChg(s, Rule1(p, s)) /\ Rule1(p, s).single = s.single
           /\ SameChg(s, Rule2(p, s)) /\ Rule2(p, s).single = s.single
           /\ SameChg(s, Rule5(p, s)) /\ Rule5(p, s).single = s.single
  <1>1. SameChg(s, Rule1(p, s)) /\ Rule1(p, s).single = s.single
    BY DEF SameChg, Rule1, Statics
  <1>2. SameChg(s, Rule2(p, s)) /\ Rule2(p, s).single = s.single
    BY DEF SameChg, Rule2, Statics
  <1>3. SameChg(s, Rule5(p, s)) /\ Rule5(p, s).single = s.single
    BY DEF SameChg, Rule5, Statics
  <1> QED BY <1>1, <1>2, <1>3

LEMMA ChgRules ==
    ASSUME NEW p \in Packs, NEW s \in Statics
    PROVE  /\ SameDis(s, Rule3(p, s)) /\ Rule3(p, s).single = s.single
           /\ SameDis(s, Rule4(p, s)) /\ Rule4(p, s).single = s.single
           /\ SameDis(s, Rule6(p, s)) /\ Rule6(p, s).single = s.single
  <1>1. SameDis(s, Rule3(p, s)) /\ Rule3(p, s).single = s.single
    BY DEF SameDis, Rule3, AllowChg, Statics
  <1>2. SameDis(s, Rule4(p, s)) /\ Rule4(p, s).single = s.single
    BY DEF SameDis, Rule4, AllowChg, Statics
  <1>3. SameDis(s, Rule6(p, s)) /\ Rule6(p, s).single = s.single
    BY DEF SameDis, Rule6, Statics
  <1> QED BY <1>1, <1>2, <1>3

(* A pass in which the rules are run: each is handed what the one before   *)
(* it has left, so each FET is judged by the rules that are about it.      *)
LEMMA RulesRun ==
    ASSUME NEW p \in Packs, judge[p] \in Statics, Others(p) # {}, ok[p],
           judge[p].multiok = OkDelay, ~judge[p].single
    PROVE  \E s \in Statics :
              /\ SameDis(judge[p], s) /\ SameChg(judge[p], s) /\ ~s.single
              /\ MtBmsControlJudge(p) =
                    Rule6(p, Rule5(p, Rule4(p, Rule3(p, Rule2(p, Rule1(p, s))))))
  <1> DEFINE c == Company(p, judge[p])
             s == [c EXCEPT !.multiok = Count(@, OkDelay)]
  <1>1. /\ c \in Statics /\ c.multiok = OkDelay /\ ~c.single
        /\ SameDis(judge[p], c) /\ SameChg(judge[p], c)
    <2>1. c \in Statics
      BY CompanyTyped
    <2>2. /\ c.multiok = OkDelay /\ ~c.single
          /\ c.offtoon = judge[p].offtoon /\ c.dison = judge[p].dison
          /\ c.lvdison = judge[p].lvdison /\ c.disoff = judge[p].disoff
          /\ c.chgon = judge[p].chgon /\ c.hvchgon = judge[p].hvchgon
          /\ c.chgoff = judge[p].chgoff /\ c.dis = judge[p].dis
      BY DEF Company, Statics
    <2>3. c.chg = judge[p].chg
      BY DEF Company, Statics
    <2> QED BY <2>1, <2>2, <2>3, Zenon DEF SameDis, SameChg
  <1> HIDE DEF c
  <1>2. Count(c.multiok, OkDelay) \in 0 .. OkDelay /\ Due(c.multiok, OkDelay)
    BY <1>1, CountTyped DEF Due, Statics
  <1>3. s \in Statics
    BY <1>1, <1>2, Zenon DEF Statics
  <1>4. ~s.single /\ SameDis(judge[p], s) /\ SameChg(judge[p], s)
    BY <1>1 DEF SameDis, SameChg, Statics
  <1>5. MtBmsControlJudge(p) =
           Rule6(p, Rule5(p, Rule4(p, Rule3(p, Rule2(p, Rule1(p, s))))))
    BY <1>2, Zenon DEF MtBmsControlJudge, c
  <1> HIDE DEF s
  <1> QED BY <1>3, <1>4, <1>5, Zenon

LEMMA DisJudged ==
    ASSUME NEW p \in Packs, judge[p] \in Statics, Others(p) # {}, ok[p],
           judge[p].multiok = OkDelay, ~judge[p].single
    PROVE  \E s, b, d \in Statics :
              /\ SameDis(judge[p], s) /\ ~s.single
              /\ b = Rule1(p, s) /\ ~b.single
              /\ SameDis(Rule2(p, b), d)
              /\ SameDis(Rule5(p, d), MtBmsControlJudge(p))
  <1>1. PICK s \in Statics :
           /\ SameDis(judge[p], s) /\ SameChg(judge[p], s) /\ ~s.single
           /\ MtBmsControlJudge(p) =
                 Rule6(p, Rule5(p, Rule4(p, Rule3(p, Rule2(p, Rule1(p, s))))))
    BY RulesRun
  <1> DEFINE a == Rule1(p, s)  b == Rule2(p, a)  c == Rule3(p, b)
             d == Rule4(p, c)  e == Rule5(p, d)
  <1>2. a \in Statics /\ ~a.single
    BY <1>1, Rule1Typed, DisRules
  <1> HIDE DEF a
  <1>3. b \in Statics
    BY <1>2, Rule2Typed
  <1>4. c \in Statics /\ SameDis(b, c)
    BY <1>3, Rule3Typed, ChgRules
  <1> HIDE DEF c
  <1>5. d \in Statics /\ SameDis(c, d)
    BY <1>4, Rule4Typed, ChgRules
  <1> HIDE DEF d
  <1>6. e \in Statics /\ SameDis(e, Rule6(p, e))
    BY <1>5, Rule5Typed, ChgRules
  <1>7. MtBmsControlJudge(p) = Rule6(p, e)
    BY <1>1, Zenon DEF a, b, c, d
  <1>8. SameDis(b, d)
    BY <1>4, <1>5, Zenon DEF SameDis
  <1> QED BY <1>1, <1>2, <1>5, <1>6, <1>7, <1>8, Zenon DEF a

LEMMA ChgJudged ==
    ASSUME NEW p \in Packs, judge[p] \in Statics, Others(p) # {}, ok[p],
           judge[p].multiok = OkDelay, ~judge[p].single
    PROVE  \E s, c, e \in Statics :
              /\ SameChg(judge[p], s) /\ ~s.single
              /\ c = Rule3(p, s) /\ ~c.single
              /\ SameChg(Rule4(p, c), e) /\ ~e.single
              /\ SameChg(Rule6(p, e), MtBmsControlJudge(p))
  <1>1. PICK s \in Statics :
           /\ SameDis(judge[p], s) /\ SameChg(judge[p], s) /\ ~s.single
           /\ MtBmsControlJudge(p) =
                 Rule6(p, Rule5(p, Rule4(p, Rule3(p, Rule2(p, Rule1(p, s))))))
    BY RulesRun
  <1> DEFINE a == Rule1(p, s)  b == Rule2(p, a)  c == Rule3(p, b)
             d == Rule4(p, c)  e == Rule5(p, d)
  <1>2. a \in Statics /\ ~a.single /\ SameChg(s, a)
    BY <1>1, Rule1Typed, DisRules
  <1> HIDE DEF a
  <1>3. b \in Statics /\ ~b.single /\ SameChg(a, b)
    BY <1>2, Rule2Typed, DisRules
  <1> HIDE DEF b
  <1>4. c \in Statics /\ ~c.single
    BY <1>3, Rule3Typed, ChgRules
  <1> HIDE DEF c
  <1>5. d \in Statics /\ ~d.single
    BY <1>4, Rule4Typed, ChgRules
  <1>6. e \in Statics /\ ~e.single /\ SameChg(d, e)
    BY <1>5, Rule5Typed, DisRules
  <1>7. MtBmsControlJudge(p) = Rule6(p, e)
    BY <1>1, Zenon DEF a, b, c
  <1>8. SameChg(judge[p], b)
    BY <1>1, <1>2, <1>3, Zenon DEF SameChg
  <1>9. SameChg(Rule6(p, e), MtBmsControlJudge(p))
    BY <1>7, Zenon DEF SameChg
  <1> HIDE DEF e
  <1> QED BY <1>3, <1>4, <1>6, <1>8, <1>9, Zenon DEF c, d

-----------------------------------------------------------------------------
(* What two packs measure and know of each other.                          *)

Above(h, l) == volt[h] > volt[l] + VolOffer

(* The FETs of p follow its judgement, where its protections let them.     *)
Obeys(p) ==
    /\ ok[p]
    /\ mos[p].dis => judge[p].dis
    /\ mos[p].chg => judge[p].chg
    /\ Dis(p) => mos[p].dis = judge[p].dis
    /\ Chg(p) => mos[p].chg = judge[p].chg

(* The report p has of q is about the world as it is.                      *)
Knows(p, q) ==
    LET r == report[p][q]
    IN  /\ r.vol = volt[q] /\ r.dis = Dis(q) /\ r.chg = Chg(q)
        /\ r.plug = (q \in plug)
        /\ bus > 0 => r.cur >= 0
        /\ bus =< 0 /\ volt[q] >= volt[p] => r.cur =< 0

(* The rules decide what p does next, and they know.                       *)
Judges(p, q) ==
    /\ Obeys(p) /\ judge[p].multiok = OkDelay /\ ~judge[p].single
    /\ heard[p][q] >= 1 /\ Knows(p, q)

LEMMA Pair ==
    ASSUME Reporting, NEW p \in Packs, NEW q \in Packs, p # q
    PROVE  \A r \in Packs : r = p \/ r = q
  BY DEF Reporting

(* A charger is in nobody's way: the lowest pack that lets it in is charged *)
(* by it.                                                                  *)
LEMMA ChargerCurrent ==
    ASSUME TypeOK, NEW p \in Packs, bus > 0
    PROVE  /\ Current(p) \in Int /\ Current(p) >= 0
           /\ mos[p].chg /\ (\A q \in Packs : volt[q] >= volt[p]) => Current(p) >= 1
  <1>1. bus \in Int
    BY DEF TypeOK, Currents
  <1>2. \A h, l \in Packs : ~Rushes(h, l)
    BY <1>1 DEF Rushes
  <1>3. Current(p) = IF p \in Takers /\ \A q \in Takers : volt[q] >= volt[p]
                     THEN bus ELSE 0
    BY <1>1, <1>2 DEF Current
  <1>4. mos[p].chg /\ (\A q \in Packs : volt[q] >= volt[p]) =>
           p \in Takers /\ \A q \in Takers : volt[q] >= volt[p]
    BY Zenon DEF Takers
  <1> QED BY <1>1, <1>3, <1>4

(* Without a charger the highest pack takes no current, nor does one when  *)
(* no other gives any.                                                     *)
LEMMA LoadCurrent ==
    ASSUME TypeOK, NEW p \in Packs, bus =< 0
    PROVE  /\ Current(p) \in Int
           /\ (\A q \in Packs : volt[q] =< volt[p]) => Current(p) =< 0
           /\ (\A q \in Packs : q = p \/ ~mos[q].dis) => Current(p) =< 0
  <1>1. bus \in Int /\ \A q \in Packs : volt[q] \in Nat
    <2>1. bus \in Int
      BY DEF TypeOK, Currents
    <2>2. \A q \in Packs : volt[q] \in Nat
      BY DEF TypeOK
    <2> QED BY <2>1, <2>2
  <1>2. Current(p) \in {-2, 2, 0, bus}
    BY Zenon DEF Current
  <1>3. Current(p) = 2 => (\E h \in Packs : Rushes(h, p))
    BY <1>1 DEF Current
  <1>4. ASSUME NEW h \in Packs, Rushes(h, p) PROVE volt[h] > volt[p] /\ mos[h].dis /\ h # p
    BY <1>1, <1>4 DEF Rushes, Givers
  <1>5. (\A q \in Packs : volt[q] =< volt[p]) => Current(p) # 2
    BY <1>1, <1>3, <1>4
  <1>6. (\A q \in Packs : q = p \/ ~mos[q].dis) => Current(p) # 2
    BY <1>3, <1>4, Zenon
  <1> QED BY <1>1, <1>2, <1>5, <1>6

(* What the conditions of the rules come to, for a pack that knows.        *)
LEMMA View ==
    ASSUME Reporting, TypeOK, NEW p \in Packs, NEW q \in Packs, p # q,
           heard[p][q] >= 1, Knows(p, q)
    PROVE  /\ Others(p) = {q}
           /\ TotalCur(p) = report[p][q].cur /\ report[p][q].cur \in Int
           /\ volt[p] \in Nat /\ volt[q] \in Nat
           /\ Lower(p, VolOffer) = IF Above(p, q) THEN {q} ELSE {}
           /\ Higher(p, VolOffer) = IF Above(q, p) THEN {q} ELSE {}
           /\ Higher(p, QVolOffer) # {} => Above(q, p)
           /\ IsMin(p, VolOffer) <=> ~Above(p, q)
           /\ IsMax(p, VolOffer) <=> ~Above(q, p)
  <1>1. volt[p] \in Nat /\ volt[q] \in Nat
    BY DEF TypeOK
  <1>2. Others(p) = {q}
    <2>1. heard[p][q] \in 0 .. DataDelay
      BY DEF TypeOK
    <2> QED BY <2>1, Pair DEF Others
  <1>3. report[p][q].cur \in Int
    <2>1. report[p][q] \in Report
      BY DEF TypeOK
    <2> QED BY <2>1 DEF Report, Currents
  <1>4. TotalCur(p) = report[p][q].cur
    BY <1>2, <1>3, OneTotal DEF Of
  <1>5. Of(p, q).vol = volt[q]
    BY DEF Of, Knows
  <1>6. Lower(p, VolOffer) = IF Above(p, q) THEN {q} ELSE {}
    BY <1>1, <1>2, <1>5 DEF Lower, Above
  <1>7. Higher(p, VolOffer) = IF Above(q, p) THEN {q} ELSE {}
    BY <1>1, <1>2, <1>5 DEF Higher, Above
  <1>8. Higher(p, QVolOffer) # {} => Above(q, p)
    BY <1>1, <1>2, <1>5 DEF Higher, Above, Reporting
  <1>9. IsMin(p, VolOffer) <=> ~Above(p, q)
    BY <1>2, <1>6 DEF IsMin
  <1>10. IsMax(p, VolOffer) <=> ~Above(q, p)
    BY <1>2, <1>7 DEF IsMax
  <1> QED BY <1>1, <1>2, <1>3, <1>4, <1>6, <1>7, <1>8, <1>9, <1>10

LEMMA ViewDown ==
    ASSUME Reporting, TypeOK, NEW p \in Packs, NEW q \in Packs, p # q,
           heard[p][q] >= 1, Knows(p, q), Above(p, q)
    PROVE  /\ LowerOffCmos(p) <=> ~report[p][q].chgmos
           /\ LowerEnChg(p) <=> Chg(q)
  <1>1. Lower(p, VolOffer) = {q} /\ Of(p, q).chg = Chg(q)
    BY View DEF Knows, Of
  <1> QED BY <1>1, Zenon DEF LowerOffCmos, LowerEnChg, Of

LEMMA ViewUp ==
    ASSUME Reporting, TypeOK, NEW p \in Packs, NEW q \in Packs, p # q,
           heard[p][q] >= 1, Knows(p, q), Above(q, p)
    PROVE  /\ HigherOffDmos(p, VolOffer) <=> ~report[p][q].dismos
           /\ HigherEnDis(p, VolOffer) <=> Dis(q)
  <1>1. Higher(p, VolOffer) = {q} /\ Of(p, q).dis = Dis(q)
    BY View DEF Knows, Of
  <1> QED BY <1>1, Zenon DEF HigherOffDmos, HigherEnDis, Of

LEMMA ViewPlug ==
    ASSUME Reporting, TypeOK, NEW p \in Packs, NEW q \in Packs, p # q,
           heard[p][q] >= 1, Knows(p, q)
    PROVE  /\ MaxChgPlugin(p) <=> plug = Packs
           /\ OtherIsDis(p) <=> report[p][q].cur < 0
  <1>1. /\ Others(p) = {q} /\ Of(p, q).plug = (q \in plug) /\ Of(p, q).vol \in Nat
        /\ plug \subseteq Packs
    BY View DEF Knows, Of, TypeOK
  <1>2. MaxChgPlugin(p) <=> p \in plug /\ q \in plug
    <2>1. \A r \in Others(p) : Of(p, r).vol =< Of(p, q).vol
      BY <1>1
    <2> QED BY <1>1, <2>1, Zenon DEF MaxChgPlugin
  <1>3. plug = Packs <=> p \in plug /\ q \in plug
    BY <1>1, Pair
  <1> QED BY <1>1, <1>2, <1>3 DEF OtherIsDis, Of

-----------------------------------------------------------------------------
(* What a pass brings, for each pack of the two.                           *)

LEMMA SameRank ==
    ASSUME NEW s, NEW t, SameDis(s, t)
    PROVE  Rank1(t) = Rank1(s) /\ Rank2(t) = Rank2(s)
  BY Zenon DEF SameDis, Rank1, Rank2

(* A pack that is not the higher one closes its discharge FET by rule 2.   *)
LEMMA LowestCloses ==
    ASSUME Reporting, TypeOK, NEW p \in Packs, NEW q \in Packs, p # q,
           Judges(p, q), able[p].dis, ~Above(p, q)
    PROVE  LET J == MtBmsControlJudge(p)
           IN  /\ judge[p].dis => J.dis
               /\ ~J.dis => Rank2(J) >= Rank2(judge[p]) + 1
  <1> DEFINE J == MtBmsControlJudge(p)
  <1>1. /\ judge[p] \in Statics /\ ok[p] /\ heard[p][q] >= 1 /\ Knows(p, q)
        /\ judge[p].multiok = OkDelay /\ ~judge[p].single
    BY DEF Judges, Obeys, TypeOK
  <1>2. Others(p) = {q} /\ Lower(p, VolOffer) = {} /\ IsMin(p, VolOffer)
    BY <1>1, View
  <1>3. ~MakesWay(p)
    BY <1>2, Zenon DEF MakesWay
  <1>4. PICK s, b, d \in Statics :
           /\ SameDis(judge[p], s) /\ ~s.single
           /\ b = Rule1(p, s) /\ ~b.single
           /\ SameDis(Rule2(p, b), d)
           /\ SameDis(Rule5(p, d), J)
    BY <1>1, <1>2, DisJudged
  <1> HIDE DEF J
  <1>5. b.dis = judge[p].dis /\ Rank2(b) = Rank2(judge[p])
    <2>1. b.dis = s.dis /\ b.offtoon = s.offtoon /\ b.dison = s.dison
      BY <1>2, <1>4, Rule1Idle
    <2> QED BY <1>4, <2>1, Zenon DEF SameDis, Rank2
  <1> DEFINE c == Rule2(p, b)
  <1>6. (b.dis => c.dis) /\ (~c.dis => Rank2(c) >= Rank2(b) + 1)
    BY <1>2, <1>4, Rule2Lowest
  <1> HIDE DEF c
  <1>7. J.dis = c.dis /\ Rank2(J) = Rank2(c)
    <2> DEFINE e == Rule5(p, d)
    <2>1. /\ e.dis = d.dis /\ e.offtoon = d.offtoon /\ e.dison = d.dison
      BY <1>3, Rule5Idle
    <2>2. SameDis(e, J) /\ SameDis(c, d)
      BY <1>4 DEF c
    <2> HIDE DEF e
    <2> QED BY <2>1, <2>2, Zenon DEF SameDis, Rank2
  <1> QED BY <1>5, <1>6, <1>7 DEF J

(* The higher pack closes its discharge FET by rule 1, once it has heard   *)
(* that the charge FET of the lower one is off.                            *)
LEMMA DriverCloses ==
    ASSUME Reporting, TypeOK, NEW p \in Packs, NEW q \in Packs, p # q,
           Judges(p, q), able[p].dis, Above(p, q), bus =< 0, plug # Packs
    PROVE  LET J == MtBmsControlJudge(p)
           IN  /\ judge[p].dis => J.dis
               /\ ~report[p][q].chgmos /\ ~J.dis =>
                     Rank1(J) >= Rank1(judge[p]) + 1
  <1> DEFINE J == MtBmsControlJudge(p)
  <1>1. /\ judge[p] \in Statics /\ ok[p] /\ heard[p][q] >= 1 /\ Knows(p, q)
        /\ judge[p].multiok = OkDelay /\ ~judge[p].single
    BY DEF Judges, Obeys, TypeOK
  <1>2. Others(p) = {q} /\ Lower(p, VolOffer) # {} /\ ~IsMin(p, VolOffer)
    BY <1>1, View
  <1>3. ~MaxChgPlugin(p)
    BY <1>1, ViewPlug, Zenon
  <1>4. ~report[p][q].chgmos => LowerReady(p)
    BY <1>1, <1>3, ViewDown, Zenon DEF LowerReady
  <1>5. ~MakesWay(p)
    <2>1. \A r \in Packs : volt[r] =< volt[p]
      BY <1>1, View, Pair DEF Above
    <2>2. Current(p) \in Int /\ Current(p) =< 0
      BY <2>1, LoadCurrent
    <2>3. ~(Current(p) > 0)
      BY <2>2
    <2> QED BY <1>3, <2>3, Zenon DEF MakesWay
  <1>6. PICK s, b, d \in Statics :
           /\ SameDis(judge[p], s) /\ ~s.single
           /\ b = Rule1(p, s) /\ ~b.single
           /\ SameDis(Rule2(p, b), d)
           /\ SameDis(Rule5(p, d), J)
    BY <1>1, <1>2, DisJudged
  <1> HIDE DEF J
  <1>7. /\ s.dis = judge[p].dis /\ Rank1(s) = Rank1(judge[p])
    BY <1>6, SameRank, Zenon DEF SameDis
  <1>8. /\ s.dis => b.dis
        /\ LowerReady(p) /\ ~b.dis => Rank1(b) >= Rank1(s) + 1
    <2>1. CASE LowerReady(p)
      BY <1>2, <1>6, <2>1, Rule1Ready
    <2>2. CASE ~LowerReady(p)
      BY <1>6, <2>2, Rule1Idle
    <2> QED BY <2>1, <2>2
  <1>9. J.dis = b.dis /\ Rank1(J) = Rank1(b)
    <2> DEFINE c == Rule2(p, b)  e == Rule5(p, d)
    <2>1. /\ c.dis = b.dis /\ c.offtoon = b.offtoon /\ c.lvdison = b.lvdison
      BY <1>2, <1>6, Rule2Idle
    <2>2. /\ e.dis = d.dis /\ e.offtoon = d.offtoon /\ e.lvdison = d.lvdison
      BY <1>5, Rule5Idle
    <2>3. SameDis(e, J) /\ SameDis(c, d)
      BY <1>6
    <2> HIDE DEF c, e
    <2> QED BY <2>1, <2>2, <2>3, Zenon DEF SameDis, Rank1
  <1> QED BY <1>4, <1>7, <1>8, <1>9 DEF J

(* The higher pack opens its discharge FET by rule 5 to let the charger    *)
(* into the lower one.                                                     *)
LEMMA HigherMakesWay ==
    ASSUME Reporting, TypeOK, NEW p \in Packs, NEW q \in Packs, p # q,
           Judges(p, q), Chg(q), Above(p, q), bus > 0, plug = Packs,
           ~report[p][q].chgmos, MtBmsControlJudge(p).dis
    PROVE  /\ judge[p].dis
           /\ MtBmsControlJudge(p).disoff >= judge[p].disoff + 1
  <1> DEFINE J == MtBmsControlJudge(p)
  <1>1. /\ judge[p] \in Statics /\ ok[p] /\ heard[p][q] >= 1 /\ Knows(p, q)
        /\ judge[p].multiok = OkDelay /\ ~judge[p].single
    BY DEF Judges, Obeys, TypeOK
  <1>2. /\ Others(p) = {q} /\ ~IsMin(p, VolOffer)
        /\ report[p][q].cur \in Int
    BY <1>1, View
  <1>3. MaxChgPlugin(p) /\ (OtherIsDis(p) <=> report[p][q].cur < 0)
    BY <1>1, ViewPlug, Zenon
  <1>4. LowerOffCmos(p) /\ LowerEnChg(p)
    BY <1>1, ViewDown, Zenon
  <1>5. ~LowerReady(p)
    BY <1>3, <1>4, Zenon DEF LowerReady
  <1>6. MakesWay(p)
    <2>1. ~(report[p][q].cur < 0)
      BY <1>1, <1>2 DEF Knows
    <2> QED BY <1>2, <1>3, <1>4, <2>1, Zenon DEF MakesWay
  <1>7. PICK s, b, d \in Statics :
           /\ SameDis(judge[p], s) /\ ~s.single
           /\ b = Rule1(p, s) /\ ~b.single
           /\ SameDis(Rule2(p, b), d)
           /\ SameDis(Rule5(p, d), J)
    BY <1>1, <1>2, DisJudged
  <1> HIDE DEF J
  <1> DEFINE c == Rule2(p, b)  e == Rule5(p, d)
  <1>8. b.dis = s.dis /\ b.disoff = s.disoff
    BY <1>5, <1>7, Rule1Idle
  <1>9. c.dis = b.dis /\ c.disoff = b.disoff
    BY <1>2, <1>7, Rule2Idle
  <1>10. e.dis => d.dis /\ e.disoff >= d.disoff + 1
    BY <1>6, Rule5Opens
  <1>11. SameDis(e, J) /\ SameDis(c, d) /\ J.dis
    BY <1>7 DEF J
  <1> HIDE DEF c, e
  <1>12. /\ e.dis = J.dis /\ e.disoff = J.disoff
         /\ d.dis = judge[p].dis /\ d.disoff = judge[p].disoff
    BY <1>7, <1>8, <1>9, <1>11, Zenon DEF SameDis
  <1> QED BY <1>10, <1>11, <1>12 DEF J

(* A pack that is not the lower one closes its charge FET by rule 4.       *)
LEMMA HighestTakes ==
    ASSUME Reporting, TypeOK, NEW p \in Packs, NEW q \in Packs, p # q,
           Judges(p, q), able[p].chg, ~Above(q, p), bus > 0 \/ volt[p] = volt[q]
    PROVE  LET J == MtBmsControlJudge(p)
           IN  /\ judge[p].chg => J.chg
               /\ ~J.chg => J.chgon >= judge[p].chgon + 1
  <1> DEFINE J == MtBmsControlJudge(p)
  <1>1. /\ judge[p] \in Statics /\ ok[p] /\ heard[p][q] >= 1 /\ Knows(p, q)
        /\ judge[p].multiok = OkDelay /\ ~judge[p].single
    BY DEF Judges, Obeys, TypeOK
  <1>2. /\ Others(p) = {q} /\ Higher(p, VolOffer) = {} /\ IsMax(p, VolOffer)
        /\ TotalCur(p) = report[p][q].cur /\ report[p][q].cur \in Int
        /\ Higher(p, QVolOffer) = {}
        /\ volt[p] \in Nat /\ volt[q] \in Nat /\ bus \in Int
    <2>1. bus \in Int
      BY DEF TypeOK, Currents
    <2> QED BY <1>1, <2>1, View
  <1>3. Current(p) \in Int
        /\ ((Current(p) >= 0 /\ TotalCur(p) >= 0) \/ Current(p) =< 0)
    <2>1. CASE bus > 0
      BY <1>1, <1>2, <2>1, ChargerCurrent DEF Knows
    <2>2. CASE bus =< 0
      <3>1. volt[p] = volt[q]
        BY <1>2, <2>2
      <3>2. \A r \in Packs : volt[r] =< volt[p]
        BY <1>2, <3>1, Pair
      <3> QED BY <2>2, <3>2, LoadCurrent
    <2> QED BY <1>2, <2>1, <2>2
  <1>4. ~HigherEnDis(p, QVolOffer)
    BY <1>2, Zenon DEF HigherEnDis
  <1>5. ~(Current(p) = 2 /\ TotalCur(p) =< -2)
        /\ ~(Current(p) >= 1 /\ TotalCur(p) + Current(p) =< 0)
    BY <1>2, <1>3
  <1>6. \A e \in Statics : ~MustNotCharge(p, e)
    BY <1>2, <1>4, <1>5, Zenon
       DEF MustNotCharge, LetsDrive, TakesFromOthers, Idles
  <1>7. PICK s, c, e \in Statics :
           /\ SameChg(judge[p], s) /\ ~s.single
           /\ c = Rule3(p, s) /\ ~c.single
           /\ SameChg(Rule4(p, c), e) /\ ~e.single
           /\ SameChg(Rule6(p, e), J)
    BY <1>1, <1>2, ChgJudged
  <1> HIDE DEF J
  <1> DEFINE d == Rule4(p, c)  f == Rule6(p, e)
  <1>8. c.chg = s.chg /\ c.chgon = s.chgon
    BY <1>2, <1>7, Rule3Idle
  <1>9. (c.chg => d.chg) /\ (~d.chg => d.chgon >= c.chgon + 1)
    BY <1>2, <1>7, Rule4Highest
  <1>10. f.chg = e.chg /\ f.chgon = e.chgon
    BY <1>6, Rule6Idle
  <1>11. SameChg(d, e) /\ SameChg(f, J)
    BY <1>7
  <1> HIDE DEF d, f
  <1>12. /\ J.chg = d.chg /\ J.chgon = d.chgon
         /\ c.chg = judge[p].chg /\ c.chgon = judge[p].chgon
    BY <1>7, <1>8, <1>10, <1>11, Zenon DEF SameChg
  <1> QED BY <1>9, <1>12 DEF J

(* The lower pack opens its charge FET by rule 6, to let the higher one    *)
(* drive or because it must not be charged, and does not close it again.   *)
LEMMA LowerLetsDrive ==
    ASSUME Reporting, TypeOK, NEW p \in Packs, NEW q \in Packs, p # q,
           Judges(p, q), Dis(q), Above(q, p), bus =< 0, plug # Packs,
           report[p][q].dismos => mos[q].dis
    PROVE  LET J == MtBmsControlJudge(p)
           IN  J.chg => /\ judge[p].chg
                        /\ ~mos[q].dis \/ ~able[p].chg =>
                              J.chgoff >= judge[p].chgoff + 1
  <1> DEFINE J == MtBmsControlJudge(p)
  <1>1. /\ judge[p] \in Statics /\ ok[p] /\ heard[p][q] >= 1 /\ Knows(p, q)
        /\ judge[p].multiok = OkDelay /\ ~judge[p].single
    BY DEF Judges, Obeys, TypeOK
  <1>2. /\ Others(p) = {q} /\ ~IsMax(p, VolOffer)
        /\ TotalCur(p) = report[p][q].cur /\ report[p][q].cur \in Int
        /\ volt[p] \in Nat /\ volt[q] \in Nat /\ volt[q] > volt[p]
    BY <1>1, View DEF Above
  <1>3. TotalCur(p) =< 0
    BY <1>1, <1>2 DEF Knows
  <1>4. HigherEnDis(p, VolOffer) /\ ~MaxChgPlugin(p)
        /\ (HigherOffDmos(p, VolOffer) <=> ~report[p][q].dismos)
    BY <1>1, ViewUp, ViewPlug, Zenon
  <1>5. mos[q].dis => ~(Current(p) =< -1)
    <2> SUFFICES ASSUME mos[q].dis PROVE ~(Current(p) =< -1)
      OBVIOUS
    <2>1. bus \in Int
      BY DEF TypeOK, Currents
    <2>2. \A r \in Packs : ~Rushes(p, r)
      BY <1>2, Pair DEF Rushes
    <2>3. q \in Givers /\ ~(volt[q] =< volt[p])
      BY <1>2 DEF Givers
    <2>4. Current(p) = IF \E r \in Packs : Rushes(r, p) THEN 2
                       ELSE IF bus > 0 /\ p \in Takers /\ \A r \in Takers : volt[r] >= volt[p]
                       THEN bus
                       ELSE 0
      BY <2>2, <2>3, Zenon DEF Current
    <2> QED BY <2>1, <2>4
  <1>6. ~HigherReady(p)
    <2>1. ~(TotalCur(p) >= 1)
      BY <1>2, <1>3
    <2> QED BY <1>4, <1>5, <2>1, Zenon DEF HigherReady
  <1>7. PICK s, c, e \in Statics :
           /\ SameChg(judge[p], s) /\ ~s.single
           /\ c = Rule3(p, s) /\ ~c.single
           /\ SameChg(Rule4(p, c), e) /\ ~e.single
           /\ SameChg(Rule6(p, e), J)
    BY <1>1, <1>2, ChgJudged
  <1>8. ~mos[q].dis \/ ~able[p].chg => MustNotCharge(p, e)
    <2>1. CASE ~able[p].chg
      BY <1>7, <2>1, Zenon DEF MustNotCharge
    <2>2. CASE ~mos[q].dis
      <3>1. \A r \in Packs : r = p \/ ~mos[r].dis
        BY <2>2, Pair, Zenon
      <3>2. Current(p) =< 0
        BY <3>1, LoadCurrent
      <3> QED BY <1>2, <1>3, <1>4, <2>2, <3>2, Zenon DEF MustNotCharge, LetsDrive
    <2> QED BY <2>1, <2>2
  <1> HIDE DEF J
  <1> DEFINE d == Rule4(p, c)  f == Rule6(p, e)
  <1>9. c.chg = s.chg /\ c.chgoff = s.chgoff
    BY <1>6, <1>7, Rule3Idle
  <1>10. d.chg = c.chg /\ d.chgoff = c.chgoff
    BY <1>2, <1>7, Rule4Idle
  <1>11. /\ f.chg => e.chg
         /\ MustNotCharge(p, e) /\ f.chg => f.chgoff >= e.chgoff + 1
    <2>1. CASE MustNotCharge(p, e)
      BY <2>1, Rule6Opens
    <2>2. CASE ~MustNotCharge(p, e)
      BY <2>2, Rule6Idle
    <2> QED BY <2>1, <2>2
  <1>12. SameChg(d, e) /\ SameChg(f, J)
    BY <1>7
  <1> HIDE DEF d, f
  <1>13. /\ J.chg = f.chg /\ J.chgoff = f.chgoff
         /\ e.chg = judge[p].chg /\ e.chgoff = judge[p].chgoff
    BY <1>7, <1>9, <1>10, <1>12, Zenon DEF SameChg
  <1> QED BY <1>8, <1>11, <1>13 DEF J

(* The lower pack closes its charge FET for a charger by rule 3, once it   *)
(* has heard that the discharge FET of the higher one is off.              *)
LEMMA LowerCloses ==
    ASSUME Reporting, TypeOK, NEW p \in Packs, NEW q \in Packs, p # q, ChgOff > 0,
           Judges(p, q), Chg(p), Above(q, p),
           bus > 0, plug = Packs
    PROVE  LET J == MtBmsControlJudge(p)
           IN  /\ judge[p].chg => J.chg
               /\ ~report[p][q].dismos /\ ~J.chg =>
                     J.hvchgon >= judge[p].hvchgon + 1
  <1> DEFINE J == MtBmsControlJudge(p)
  <1>1. /\ judge[p] \in Statics /\ ok[p] /\ heard[p][q] >= 1 /\ Knows(p, q)
        /\ judge[p].multiok = OkDelay /\ ~judge[p].single
        /\ mos[p].chg = judge[p].chg
        /\ able[p].chg /\ p \notin over
    BY DEF Judges, Obeys, TypeOK, Chg
  <1>2. /\ Others(p) = {q} /\ ~IsMax(p, VolOffer) /\ Higher(p, VolOffer) # {}
        /\ TotalCur(p) = report[p][q].cur /\ report[p][q].cur \in Int
        /\ volt[p] \in Nat /\ volt[q] \in Nat /\ volt[q] > volt[p]
    BY <1>1, View DEF Above
  <1>3. Current(p) \in Int /\ Current(p) >= 0 /\ TotalCur(p) >= 0
    BY <1>1, <1>2, ChargerCurrent DEF Knows
  <1>4. ~report[p][q].dismos => HigherReady(p)
    BY <1>1, ViewUp, ViewPlug, Zenon DEF HigherReady
  <1>5. ASSUME judge[p].chg PROVE \A e \in Statics : ~MustNotCharge(p, e)
    <2>1. \A r \in Packs : volt[r] >= volt[p]
      BY <1>2, Pair
    <2>2. Current(p) >= 1
      BY <1>1, <1>5, <2>1, ChargerCurrent
    <2>3. /\ ~(Current(p) =< 0) /\ ~(TotalCur(p) =< -2) /\ Current(p) # 0
          /\ ~(TotalCur(p) + Current(p) =< 0)
      BY <1>2, <1>3, <2>2
    <2> QED BY <1>1, <2>3, Zenon DEF MustNotCharge, LetsDrive, TakesFromOthers, Idles
  <1>6. PICK s, c, e \in Statics :
           /\ SameChg(judge[p], s) /\ ~s.single
           /\ c = Rule3(p, s) /\ ~c.single
           /\ SameChg(Rule4(p, c), e) /\ ~e.single
           /\ SameChg(Rule6(p, e), J)
    BY <1>1, <1>2, ChgJudged
  <1> HIDE DEF J
  <1> DEFINE d == Rule4(p, c)  f == Rule6(p, e)
  <1>7. d.chg = c.chg /\ d.chgoff = c.chgoff /\ d.hvchgon = c.hvchgon
    BY <1>2, <1>6, Rule4Idle
  <1>8. SameChg(d, e) /\ SameChg(f, J)
    BY <1>6
  <1> HIDE DEF d
  <1>9. /\ e.chg = c.chg /\ e.chgoff = c.chgoff /\ e.hvchgon = c.hvchgon
        /\ s.chg = judge[p].chg /\ s.hvchgon = judge[p].hvchgon
        /\ J.chg = f.chg /\ J.hvchgon = f.hvchgon
    BY <1>6, <1>7, <1>8, Zenon DEF SameChg
  <1>10. CASE judge[p].chg
    <2>1. c.chg
      <3>1. CASE HigherReady(p)
        BY <1>1, <1>2, <1>6, <1>9, <1>10, <3>1, Rule3Ready
      <3>2. CASE ~HigherReady(p)
        BY <1>6, <1>9, <1>10, <3>2, Rule3Idle
      <3> QED BY <3>1, <3>2
    <2>2. f.chg = e.chg
      BY <1>1, <1>5, <1>10, Rule6Idle
    <2> QED BY <1>9, <1>10, <2>1, <2>2, Zenon DEF J
  <1>11. CASE ~judge[p].chg
    <2> SUFFICES ASSUME ~report[p][q].dismos, ~J.chg
                 PROVE  J.hvchgon >= judge[p].hvchgon + 1
      BY <1>11 DEF J
    <2>1. /\ c.chg /\ ~s.chg => c.chgoff = 0
          /\ ~c.chg => c.hvchgon >= s.hvchgon + 1
      BY <1>1, <1>2, <1>4, <1>6, Rule3Ready
    <2>2. /\ e.chg /\ e.chgoff = 0 => f.chg
          /\ ~e.chg => f.hvchgon = e.hvchgon
      BY Rule6Waits
    <2> HIDE DEF f
    <2>3. ~c.chg
      BY <1>9, <1>11, <2>1, <2>2, Zenon
    <2> QED BY <1>9, <2>1, <2>2, <2>3
  <1> QED BY <1>10, <1>11 DEF J

-----------------------------------------------------------------------------
(* Rounds: the packs follow their judgement, and hear of each other.       *)

Fresh(p, q) ==
    /\ Knows(p, q)
    /\ report[p][q].dismos = mos[q].dis /\ report[p][q].chgmos = mos[q].chg

(* After one round of the world as it is the FETs follow the judgement,    *)
(* and the reports that arrived are about it; after two every report is,   *)
(* since no two in a row are lost.  The passes since a negotiation count.  *)
Informed ==
    /\ still >= 1 =>
          /\ \A p \in Packs : Obeys(p)
          /\ \A p \in Packs :
                judge[p].multiok >= still - 1 \/ judge[p].multiok = OkDelay
          /\ \A p, q \in Packs : p # q /\ heard[p][q] = DataDelay => Fresh(p, q)
    /\ still >= 2 =>
          \A p, q \in Packs : p # q => heard[p][q] >= 1 /\ Knows(p, q)
    /\ still >= 3 => \A p \in Packs : ~judge[p].single

LEMMA RoundActs ==
    ASSUME TypeOK, Round
    PROVE  /\ \A p \in Packs : /\ judge'[p] = MtBmsControlJudge(p)
                               /\ judge'[p] \in Statics
                               /\ mos'[p] = Switched(p, judge'[p]) /\ ok'[p]
           /\ bus' = bus /\ volt' = volt /\ able' = able
           /\ over' = over /\ plug' = plug
           /\ \A p \in Packs : Dis(p)' = Dis(p) /\ Chg(p)' = Chg(p)
           /\ still \in Nat /\ still' \in Nat /\ still' =< still + 1
  <1>1. /\ judge' = [p \in Packs |-> MtBmsControlJudge(p)]
        /\ mos' = [p \in Packs |-> Switched(p, judge'[p])]
        /\ ok' = [p \in Packs |-> TRUE]
        /\ bus' = bus /\ volt' = volt /\ able' = able
        /\ over' = over /\ plug' = plug
        /\ still' = IF still < Settle THEN still + 1 ELSE still
    BY Zenon DEF Round
  <1>2. TypeOK'
    BY RoundTyped
  <1>3. still \in Nat /\ still' \in Nat /\ still' =< still + 1
    BY <1>1 DEF TypeOK
  <1>4. \A p \in Packs : judge'[p] \in Statics
    BY <1>2, Zenon DEF TypeOK
  <1>5. \A p \in Packs : Dis(p)' = Dis(p) /\ Chg(p)' = Chg(p)
    BY <1>1 DEF Dis, Chg
  <1> QED BY <1>1, <1>3, <1>4, <1>5, Zenon

LEMMA RoundObeys ==
    ASSUME TypeOK, Round, NEW p \in Packs
    PROVE  Obeys(p)'
  <1>1. /\ judge'[p] \in Statics /\ mos'[p] = Switched(p, judge'[p]) /\ ok'[p]
        /\ Dis(p)' = Dis(p) /\ Chg(p)' = Chg(p)
    BY RoundActs
  <1>2. /\ mos'[p].dis => judge'[p].dis
        /\ mos'[p].chg => judge'[p].chg
        /\ Dis(p) => mos'[p].dis = judge'[p].dis
        /\ Chg(p) => mos'[p].chg = judge'[p].chg
    BY <1>1 DEF Switched, Statics
  <1> QED BY <1>1, <1>2, Zenon DEF Obeys

(* A report arrives, or the one before, just arrived, is kept.             *)
LEMMA RoundHears ==
    ASSUME Reporting, TypeOK, Round, NEW p \in Packs, NEW q \in Packs, p # q
    PROVE  /\ heard'[p][q] = DataDelay => report'[p][q] = Told(q, mos'[q])
           /\ ok[q] => \/ heard'[p][q] = DataDelay
                       \/ /\ heard[p][q] = DataDelay /\ heard'[p][q] >= 1
                          /\ report'[p][q] = report[p][q]
  <1>1. PICK arrives \in [Packs -> BOOLEAN] :
          /\ \A r \in Packs : arrives[r] \/ \A g \in Packs \ {r} :
                ok[r] /\ heard[g][r] > DataDelay - MaxLost
          /\ Hear(arrives)
    BY Zenon DEF Round
  <1> DEFINE news == [g \in Packs |-> {r \in Packs \ {g} : MaySend(r) /\ arrives[r]}]
  <1>2. /\ heard' = [g \in Packs |-> [r \in Packs |->
                       IF r \in news[g] THEN DataDelay
                       ELSE IF heard[g][r] > 0 THEN heard[g][r] - 1 ELSE 0]]
        /\ report' = [g \in Packs |-> [r \in Packs |->
                       IF r \in news[g] THEN Told(r, mos'[r]) ELSE report[g][r]]]
    BY <1>1, Zenon DEF Hear
  <1>3. q \in news[p] <=> arrives[q] /\ ok[q]
    BY Zenon DEF MaySend
  <1> HIDE DEF news
  <1>4. /\ heard'[p][q] = IF q \in news[p] THEN DataDelay
                          ELSE IF heard[p][q] > 0 THEN heard[p][q] - 1 ELSE 0
        /\ report'[p][q] = IF q \in news[p] THEN Told(q, mos'[q]) ELSE report[p][q]
    BY <1>2, Zenon
  <1>5. heard[p][q] \in 0 .. DataDelay
    BY DEF TypeOK
  <1>6. CASE q \in news[p]
    BY <1>4, <1>6
  <1>7. CASE q \notin news[p]
    <2>1. heard'[p][q] # DataDelay
      BY <1>4, <1>5, <1>7
    <2>2. ASSUME ok[q] PROVE heard[p][q] > DataDelay - MaxLost
      BY <1>1, <1>3, <1>7, <2>2, Zenon
    <2>3. ok[q] => /\ heard[p][q] = DataDelay /\ heard'[p][q] >= 1
                   /\ report'[p][q] = report[p][q]
      BY <1>4, <1>5, <1>7, <2>2 DEF Reporting
    <2> QED BY <2>1, <2>3
  <1> QED BY <1>6, <1>7

LEMMA ToldFresh ==
    ASSUME Reporting, TypeOK, Round, NEW p \in Packs, NEW q \in Packs, p # q,
           report'[p][q] = Told(q, mos'[q])
    PROVE  Fresh(p, q)'
  <1> DEFINE r == Told(q, mos'[q])
  <1>1. /\ r.vol = volt[q] /\ r.dis = Dis(q) /\ r.chg = Chg(q)
        /\ r.plug = (q \in plug) /\ r.cur = Current(q)
        /\ r.dismos = mos'[q].dis /\ r.chgmos = mos'[q].chg
    BY DEF Told
  <1> HIDE DEF r
  <1>2. bus > 0 => r.cur >= 0
    BY <1>1, ChargerCurrent
  <1>3. ASSUME bus =< 0, volt[q] >= volt[p] PROVE r.cur =< 0
    <2>1. volt[p] \in Nat /\ volt[q] \in Nat
      BY DEF TypeOK
    <2>2. \A g \in Packs : volt[g] =< volt[q]
      BY <1>3, <2>1, Pair
    <2> QED BY <1>1, <1>3, <2>2, LoadCurrent
  <1>4. /\ bus' = bus /\ volt' = volt /\ plug' = plug
        /\ Dis(q)' = Dis(q) /\ Chg(q)' = Chg(q)
    BY RoundActs
  <1>5. report'[p][q] = r
    BY DEF r
  <1> QED BY <1>1, <1>2, <1>3, <1>4, <1>5, Zenon DEF Fresh, Knows

(* A pack that hears another is no longer alone.                           *)
LEMMA JoinedJudged ==
    ASSUME NEW p \in Packs, judge[p] \in Statics, Others(p) # {}
    PROVE  ~MtBmsControlJudge(p).single
  <1> DEFINE c == Company(p, judge[p])
             s == [c EXCEPT !.multiok = Count(@, OkDelay)]
             s1 == Rule1(p, s)   s2 == Rule2(p, s1)  s3 == Rule3(p, s2)
             s4 == Rule4(p, s3)  s5 == Rule5(p, s4)  s6 == Rule6(p, s5)
  <1>1. c \in Statics /\ ~c.single
    BY CompanyTyped, CompanyKeeps
  <1> HIDE DEF c
  <1>2. Count(c.multiok, OkDelay) \in 0 .. OkDelay
    BY <1>1, CountTyped DEF Statics
  <1>3. s \in Statics
    BY <1>1, <1>2, Zenon DEF Statics
  <1>4. ~s.single /\ ~[c EXCEPT !.multiok = 0].single
    BY <1>1 DEF Statics
  <1> HIDE DEF s
  <1>5. s1 \in Statics /\ ~s1.single
    BY <1>3, <1>4, Rule1Typed, DisRules
  <1> HIDE DEF s1
  <1>6. s2 \in Statics /\ ~s2.single
    BY <1>5, Rule2Typed, DisRules
  <1> HIDE DEF s2
  <1>7. s3 \in Statics /\ ~s3.single
    BY <1>6, Rule3Typed, ChgRules
  <1> HIDE DEF s3
  <1>8. s4 \in Statics /\ ~s4.single
    BY <1>7, Rule4Typed, ChgRules
  <1> HIDE DEF s4
  <1>9. s5 \in Statics /\ ~s5.single
    BY <1>8, Rule5Typed, DisRules
  <1> HIDE DEF s5
  <1>10. ~s6.single
    BY <1>9, ChgRules
  <1>11. MtBmsControlJudge(p) \in {[c EXCEPT !.multiok = 0], s, s6}
    BY Zenon DEF MtBmsControlJudge, c, s, s1, s2, s3, s4, s5
  <1> HIDE DEF s6
  <1> QED BY <1>4, <1>10, <1>11, Zenon

LEMMA InformedJudges ==
    ASSUME Reporting, TypeOK, Informed, still >= Judging - 1,
           NEW p \in Packs, NEW q \in Packs, p # q
    PROVE  Judges(p, q)
  <1>1. still >= OkDelay + 2 /\ still >= 1 /\ still >= 2 /\ still >= 3 /\ still \in Nat
    BY DEF Judging, Reporting, TypeOK
  <1>2. /\ Obeys(p) /\ heard[p][q] >= 1 /\ Knows(p, q) /\ ~judge[p].single
        /\ judge[p].multiok >= still - 1 \/ judge[p].multiok = OkDelay
    BY <1>1, Zenon DEF Informed
  <1>3. judge[p].multiok \in 0 .. OkDelay
    BY DEF TypeOK, Statics
  <1>4. judge[p].multiok = OkDelay
    BY <1>1, <1>2, <1>3
  <1> QED BY <1>2, <1>4 DEF Judges

LEMMA RoundInformed ==
    ASSUME Settling, TypeOK, Informed, Round
    PROVE  Informed'
  <1>0. Reporting
    BY DEF Settling
  <1>1. /\ still \in Nat /\ still' \in Nat /\ still' =< still + 1
        /\ bus' = bus /\ volt' = volt /\ plug' = plug
        /\ \A q \in Packs : Dis(q)' = Dis(q) /\ Chg(q)' = Chg(q)
    BY RoundActs
  <1>2. \A p \in Packs : Obeys(p)'
    BY RoundObeys
  <1>3. ASSUME still' >= 1, NEW p \in Packs
        PROVE  judge'[p].multiok >= still' - 1 \/ judge'[p].multiok = OkDelay
    <2>1. judge[p] \in Statics /\ judge'[p] \in Statics
          /\ judge'[p] = MtBmsControlJudge(p)
      BY RoundActs DEF TypeOK
    <2>2. judge[p].multiok \in 0 .. OkDelay /\ judge'[p].multiok \in 0 .. OkDelay
      BY <2>1 DEF Statics
    <2>3. CASE still = 0
      BY <1>1, <2>2, <2>3
    <2>4. CASE still >= 1
      <3>1. /\ ok[p]
            /\ judge[p].multiok >= still - 1 \/ judge[p].multiok = OkDelay
        BY <2>4, Zenon DEF Informed, Obeys
      <3>2. /\ judge[p].multiok < OkDelay => judge'[p].multiok = judge[p].multiok + 1
            /\ judge[p].multiok >= OkDelay => judge'[p].multiok = OkDelay
        BY <2>1, <3>1, PassCounts
      <3> QED BY <1>1, <2>2, <3>1, <3>2
    <2> QED BY <1>1, <2>3, <2>4
  <1>4. \A p, q \in Packs : p # q /\ heard'[p][q] = DataDelay => Fresh(p, q)'
    BY <1>0, RoundHears, ToldFresh
  <1>5. ASSUME still' >= 2, NEW p \in Packs, NEW q \in Packs, p # q
        PROVE  heard'[p][q] >= 1 /\ Knows(p, q)'
    <2>1. still >= 1
      BY <1>1, <1>5
    <2>2. ok[q] /\ (heard[p][q] = DataDelay => Knows(p, q))
      BY <1>5, <2>1, Zenon DEF Informed, Obeys, Fresh
    <2>3. CASE heard'[p][q] = DataDelay
      BY <1>4, <1>5, <2>3 DEF Fresh
    <2>4. CASE heard'[p][q] # DataDelay
      <3>1. /\ heard[p][q] = DataDelay /\ heard'[p][q] >= 1
            /\ report'[p][q] = report[p][q]
        BY <1>5, <1>0, <2>2, <2>4, RoundHears, Zenon
      <3> QED BY <1>1, <2>2, <3>1, Zenon DEF Knows
    <2> QED BY <2>3, <2>4
  <1>6. ASSUME still' >= 3, NEW p \in Packs
        PROVE  ~judge'[p].single
    <2>1. still >= 2
      BY <1>1, <1>6
    <2>2. PICK q \in Packs : q # p
      BY Zenon DEF Settling
    <2>3. heard[p][q] >= 1 /\ Knows(p, q)
      BY <2>1, <2>2, Zenon DEF Informed
    <2>4. Others(p) # {}
      BY <1>0, <2>2, <2>3, View
    <2>5. judge[p] \in Statics /\ judge'[p] = MtBmsControlJudge(p)
      BY RoundActs DEF TypeOK
    <2> QED BY <2>4, <2>5, JoinedJudged
  <1> QED BY <1>2, <1>3, <1>4, <1>5, <1>6 DEF Informed

-----------------------------------------------------------------------------
(* How long each step of the settling may take, counted from the round in  *)
(* which both packs judge from what they know.                             *)
By(n) == still =< Judging + n

(* Between packs of about the same voltage no FET waits for the other pack. *)
LevelInv(p, q) ==
    /\ able[p].dis /\ ~Above(p, q) /\ ~judge[p].dis => By(Rank2(judge[p]))
    /\ able[p].chg /\ ~Above(q, p) /\ (bus > 0 \/ volt[p] = volt[q])
       /\ ~judge[p].chg => By(judge[p].chgon)

(* Without a charger the higher pack drives the bus: the lower one opens   *)
(* its charge FET, the higher one hears of it, then closes its discharge   *)
(* FET; what rushes meanwhile has begun by then.                           *)
Drives(h, l) == bus =< 0 /\ plug # Packs /\ Dis(h) /\ Above(h, l)
DriveInv(h, l) ==
    /\ Drives(h, l) =>
          /\ still >= Judging /\ report[l][h].dismos => mos[h].dis
          /\ judge[l].chg /\ (~judge[h].dis \/ ~able[l].chg) => By(judge[l].chgoff)
          /\ ~judge[h].dis /\ report[h][l].chgmos => By(ChgOff + 1)
          /\ ~judge[h].dis => By(ChgOff + 2 + Rank1(judge[h]))
    /\ Surges(h, l) /\ Noticed => By(ChgOff + 1 + rush)

(* A charger is led to the lower pack: the higher one opens its discharge  *)
(* FET, the lower one hears of it, then closes its charge FET.             *)
Feeds(h, l) ==
    bus > 0 /\ plug = Packs /\ Chg(l) /\ Above(h, l)
FeedInv(h, l) ==
    Feeds(h, l) =>
       /\ still >= Judging /\ report[h][l].chgmos => mos[l].chg
       /\ ~judge[l].chg /\ judge[h].dis => By(judge[h].disoff)
       /\ ~judge[l].chg /\ report[l][h].dismos => By(DisOff + 1)
       /\ ~judge[l].chg => By(DisOff + 2 + judge[l].hvchgon)

LEMMA RankTyped ==
    ASSUME NEW s \in Statics
    PROVE  /\ Rank1(s) \in Nat /\ Rank1(s) =< MtOsDelay + DisOn1
           /\ Rank2(s) \in Nat /\ Rank2(s) =< MtOsDelay + DisOn
           /\ s.chgon \in Nat /\ s.chgon =< ChgOn
           /\ s.hvchgon \in Nat /\ s.hvchgon =< ChgOn1
           /\ s.chgoff \in Nat /\ s.chgoff =< ChgOff
           /\ s.disoff \in Nat /\ s.disoff =< DisOff
  BY DEF Rank1, Rank2, Statics

(* What is reported of a FET that only ever closes, is so.                 *)
LEMMA DisReported ==
    ASSUME Reporting, TypeOK, Informed, Round, still >= 1,
           NEW p \in Packs, NEW q \in Packs, p # q,
           report'[p][q].dismos
    PROVE  mos'[q].dis \/ mos[q].dis
  <1>1. ok[q] /\ (heard[p][q] = DataDelay => Fresh(p, q))
    BY Zenon DEF Informed, Obeys
  <1>2. CASE heard'[p][q] = DataDelay
    <2>1. report'[p][q] = Told(q, mos'[q])
      BY <1>2, RoundHears, Zenon
    <2>2. Told(q, mos'[q]).dismos = mos'[q].dis
      BY DEF Told
    <2> QED BY <2>1, <2>2, Zenon
  <1>3. CASE heard'[p][q] # DataDelay
    BY <1>1, <1>3, RoundHears, Zenon DEF Fresh
  <1> QED BY <1>2, <1>3

LEMMA ChgReported ==
    ASSUME Reporting, TypeOK, Informed, Round, still >= 1,
           NEW p \in Packs, NEW q \in Packs, p # q,
           report'[p][q].chgmos
    PROVE  mos'[q].chg \/ mos[q].chg
  <1>1. ok[q] /\ (heard[p][q] = DataDelay => Fresh(p, q))
    BY Zenon DEF Informed, Obeys
  <1>2. CASE heard'[p][q] = DataDelay
    <2>1. report'[p][q] = Told(q, mos'[q])
      BY <1>2, RoundHears, Zenon
    <2>2. Told(q, mos'[q]).chgmos = mos'[q].chg
      BY DEF Told
    <2> QED BY <2>1, <2>2, Zenon
  <1>3. CASE heard'[p][q] # DataDelay
    BY <1>1, <1>3, RoundHears, Zenon DEF Fresh
  <1> QED BY <1>2, <1>3

LEMMA RoundLevel ==
    ASSUME Settling, TypeOK, Informed, Round,
           NEW p \in Packs, NEW q \in Packs, p # q, LevelInv(p, q)
    PROVE  LevelInv(p, q)'
  <1>1. /\ judge'[p] = MtBmsControlJudge(p) /\ judge'[p] \in Statics
        /\ still \in Nat /\ still' \in Nat /\ still' =< still + 1
        /\ bus' = bus /\ volt' = volt /\ able' = able /\ Judging \in Nat
        /\ judge[p] \in Statics
    BY RoundActs DEF TypeOK, Judging
  <1>2. /\ Rank2(judge[p]) \in Nat /\ Rank2(judge'[p]) \in Nat
        /\ judge[p].chgon \in Nat /\ judge'[p].chgon \in Nat
    BY <1>1, RankTyped
  <1>3. Above(p, q)' = Above(p, q) /\ Above(q, p)' = Above(q, p) /\ Judging' = Judging
    BY <1>1 DEF Above, Judging
  <1>4. CASE still' =< Judging
    <2>1. By(Rank2(judge[p]))' /\ By(judge[p].chgon)'
      BY <1>1, <1>2, <1>3, <1>4 DEF By, Rank2
    <2> QED BY <2>1, Zenon DEF LevelInv
  <1>5. CASE still' > Judging
    <2>1. still >= Judging /\ Reporting /\ Judges(p, q)
      <3>1. still >= Judging /\ still >= Judging - 1
        BY <1>1, <1>5
      <3> QED BY <3>1, InformedJudges DEF Settling
    <2>2. ASSUME able[p].dis, ~Above(p, q), ~judge'[p].dis
          PROVE  By(Rank2(judge[p]))'
      <3>1. ~judge[p].dis /\ Rank2(judge'[p]) >= Rank2(judge[p]) + 1
        BY <1>1, <2>1, <2>2, LowestCloses
      <3>2. still =< Judging + Rank2(judge[p])
        BY <2>2, <3>1, Zenon DEF LevelInv, By
      <3>3. still' =< Judging + Rank2(judge'[p])
        BY <1>1, <1>2, <3>1, <3>2
      <3> QED BY <1>3, <3>3, Zenon DEF By, Rank2
    <2>3. ASSUME able[p].chg, ~Above(q, p), bus > 0 \/ volt[p] = volt[q],
                 ~judge'[p].chg
          PROVE  By(judge[p].chgon)'
      <3>1. ~judge[p].chg /\ judge'[p].chgon >= judge[p].chgon + 1
        BY <1>1, <2>1, <2>3, HighestTakes
      <3>2. still =< Judging + judge[p].chgon
        BY <2>3, <3>1, Zenon DEF LevelInv, By
      <3>3. still' =< Judging + judge'[p].chgon
        BY <1>1, <1>2, <3>1, <3>2
      <3> QED BY <1>3, <3>3, Zenon DEF By
    <2> QED BY <1>1, <1>3, <2>2, <2>3, Zenon DEF LevelInv
  <1> QED BY <1>1, <1>4, <1>5

(* Stated of constants, for the next values of still and rush.             *)
LEMMA Early ==
    ASSUME Judging \in Nat, NEW s \in Nat, NEW r \in Nat, s =< Judging
    PROVE  s =< Judging + ChgOff + 1 + r
  OBVIOUS

LEMMA RoundDrives ==
    ASSUME Settling, TypeOK, TypeOK', Informed, RushBounded, Round,
           NEW h \in Packs, NEW l \in Packs, h # l, DriveInv(h, l)
    PROVE  DriveInv(h, l)'
  <1> DEFINE opening == ~judge[h].dis \/ ~able[l].chg
  <1>1. /\ judge'[h] = MtBmsControlJudge(h) /\ judge'[h] \in Statics
        /\ judge'[l] = MtBmsControlJudge(l) /\ judge'[l] \in Statics
        /\ still \in Nat /\ still' \in Nat /\ still' =< still + 1
        /\ bus' = bus /\ volt' = volt /\ able' = able /\ plug' = plug
        /\ over' = over /\ Dis(h)' = Dis(h) /\ Chg(l)' = Chg(l)
        /\ judge[h] \in Statics /\ judge[l] \in Statics
    BY RoundActs DEF TypeOK
  <1>2. /\ Judging \in Nat /\ Judging >= 4 /\ Reporting
        /\ Drives(h, l)' = Drives(h, l)
    BY <1>1 DEF Judging, Settling, Reporting, Drives, Above
  <1>3. /\ Rank1(judge[h]) \in Nat /\ Rank1(judge'[h]) \in Nat
        /\ judge[l].chgoff \in Nat /\ judge'[l].chgoff \in Nat
        /\ judge[l].chgoff =< ChgOff /\ judge'[l].chgoff =< ChgOff
        /\ rush \in Nat /\ rush' \in Nat
    BY <1>1, RankTyped DEF TypeOK
  <1>4. Obeys(h)' /\ Obeys(l)'
    BY RoundObeys
  <1>5. ASSUME Drives(h, l), still >= Judging - 1
        PROVE  /\ Judges(h, l) /\ Judges(l, h)
               /\ judge[h].dis => judge'[h].dis
               /\ mos[h].dis => mos'[h].dis
               /\ ~report[h][l].chgmos /\ ~judge'[h].dis =>
                     Rank1(judge'[h]) >= Rank1(judge[h]) + 1
    <2>1. Judges(h, l) /\ Judges(l, h)
      BY <1>2, <1>5, InformedJudges
    <2>2. /\ judge[h].dis => judge'[h].dis
          /\ ~report[h][l].chgmos /\ ~judge'[h].dis =>
                Rank1(judge'[h]) >= Rank1(judge[h]) + 1
      BY <1>1, <1>2, <1>5, <2>1, DriverCloses DEF Drives, Dis
    <2>3. mos[h].dis => mos'[h].dis
      BY <1>1, <1>4, <1>5, <2>1, <2>2, Zenon DEF Judges, Obeys, Drives
    <2> QED BY <2>1, <2>2, <2>3
  <1>6. ASSUME Drives(h, l), still >= Judging
        PROVE  /\ judge'[l].chg => judge[l].chg
               /\ judge'[l].chg /\ opening =>
                     judge'[l].chgoff >= judge[l].chgoff + 1
               /\ ~(report[l][h].dismos /\ ~mos[h].dis)
    <2>1. Judges(l, h)
      BY <1>1, <1>2, <1>5, <1>6
    <2>2. report[l][h].dismos => mos[h].dis
      BY <1>6, Zenon DEF DriveInv
    <2>3. Judges(h, l)
      BY <1>1, <1>2, <1>5, <1>6
    <2>4. opening => ~mos[h].dis \/ ~able[l].chg
      BY <2>3, Zenon DEF Judges, Obeys
    <2> QED BY <1>1, <1>2, <1>6, <2>1, <2>2, <2>4, LowerLetsDrive DEF Drives
  <1>7. ASSUME Drives(h, l), still' >= Judging, report'[l][h].dismos
        PROVE  mos'[h].dis
    <2>1. still >= Judging - 1 /\ still >= 1
      BY <1>1, <1>2, <1>7
    <2>2. mos'[h].dis \/ mos[h].dis
      BY <1>2, <1>7, <2>1, DisReported
    <2> QED BY <1>5, <1>7, <2>1, <2>2
  <1>8. ASSUME Drives(h, l), judge'[l].chg, ~judge'[h].dis \/ ~able[l].chg
        PROVE  still' =< Judging + judge'[l].chgoff
    <2>1. CASE still' =< Judging
      BY <1>1, <1>2, <1>3, <2>1
    <2>2. CASE still' > Judging
      <3>1. still >= Judging /\ still >= Judging - 1
        BY <1>1, <1>2, <2>2
      <3>2. opening
        BY <1>5, <1>8, <3>1, Zenon
      <3>3. judge[l].chg /\ judge'[l].chgoff >= judge[l].chgoff + 1
        BY <1>6, <1>8, <3>1, <3>2
      <3>4. still =< Judging + judge[l].chgoff
        BY <1>8, <3>2, <3>3, Zenon DEF DriveInv, By
      <3> QED BY <1>1, <1>2, <1>3, <3>3, <3>4
    <2> QED BY <1>1, <1>2, <2>1, <2>2
  <1>9. ASSUME Drives(h, l), ~judge'[h].dis, report'[h][l].chgmos
        PROVE  still' =< Judging + ChgOff + 1
    <2>1. CASE still' =< Judging
      BY <1>1, <1>2, <2>1
    <2>2. CASE still' > Judging
      <3>1. still >= Judging /\ still >= Judging - 1 /\ still >= 1
        BY <1>1, <1>2, <2>2
      <3>2. ~judge[h].dis
        BY <1>5, <1>9, <3>1, Zenon
      <3>3. CASE mos'[l].chg
        <4>1. judge'[l].chg
          BY <1>4, <3>3, Zenon DEF Obeys
        <4> QED BY <1>1, <1>2, <1>3, <1>8, <1>9, <4>1
      <3>4. CASE mos[l].chg
        <4>1. judge[l].chg
          BY <1>5, <1>9, <3>1, <3>4, Zenon DEF Judges, Obeys
        <4>2. still =< Judging + judge[l].chgoff
          BY <1>9, <3>2, <4>1, Zenon DEF DriveInv, By
        <4> QED BY <1>1, <1>2, <1>3, <4>2
      <3> QED BY <1>2, <1>9, <3>1, <3>3, <3>4, ChgReported
    <2> QED BY <1>1, <1>2, <2>1, <2>2
  <1>10. ASSUME Drives(h, l), ~judge'[h].dis
         PROVE  still' =< Judging + ChgOff + 2 + Rank1(judge'[h])
    <2>1. CASE still' =< Judging + ChgOff + 2
      BY <1>1, <1>2, <1>3, <2>1
    <2>2. CASE still' > Judging + ChgOff + 2
      <3>1. still >= Judging - 1 /\ still > Judging + ChgOff + 1
        BY <1>1, <1>2, <2>2
      <3>2. ~judge[h].dis
        BY <1>5, <1>10, <3>1, Zenon
      <3>3. ~report[h][l].chgmos
        <4>1. report[h][l].chgmos => still =< Judging + (ChgOff + 1)
          BY <1>10, <3>2, Zenon DEF DriveInv, By
        <4> QED BY <1>1, <1>2, <3>1, <4>1
      <3>4. Rank1(judge'[h]) >= Rank1(judge[h]) + 1
        BY <1>5, <1>10, <3>1, <3>3
      <3>5. still =< Judging + (ChgOff + 2 + Rank1(judge[h]))
        BY <1>10, <3>2, Zenon DEF DriveInv, By
      <3> QED BY <1>1, <1>2, <1>3, <3>4, <3>5
    <2> QED BY <1>1, <1>2, <2>1, <2>2
  <1>11. ASSUME Surges(h, l)', Noticed'
         PROVE  still' =< Judging + ChgOff + 1 + rush'
    <2>1. CASE still' =< Judging
      <3>1. still' \in Nat /\ Judging \in Nat /\ rush' \in Nat /\ ChgOff \in Nat
        BY <1>1, <1>2, <1>3
      <3> QED BY <2>1, <3>1, Early
    <2>2. CASE still' > Judging
      <3>1. still >= Judging /\ still >= Judging - 1 /\ still >= 1
        BY <1>1, <1>2, <2>2
      <3>2. /\ volt[h] \in Nat /\ volt[l] \in Nat
            /\ volt[h] > volt[l] + QVolOffer /\ volt[h] > volt[l] /\ bus =< 0
            /\ mos'[h].dis /\ mos'[l].chg
        BY <1>1, <1>11 DEF Surges, Rushes, Givers, Takers, TypeOK
      <3>8. l \notin over
        <4>1. mos'[l] = Switched(l, judge'[l])
          BY RoundActs
        <4>2. Switched(l, judge'[l]).chg =
                 (judge'[l].chg /\ (Chg(l) \/ (Dis(l) /\ Current(l) < 0)))
          BY DEF Switched
        <4> QED BY <3>2, <4>1, <4>2, Zenon DEF Dis, Chg
      <3>3. Dis(h)
        <4>1. \A q \in Packs : volt[q] =< volt[h]
          BY <1>2, <3>2, Pair
        <4>2. Current(h) \in Int /\ Current(h) =< 0
          BY <3>2, <4>1, LoadCurrent
        <4>3. ~(Current(h) > 0)
          BY <4>2
        <4>4. mos'[h].dis => Dis(h) \/ (Chg(h) /\ Current(h) > 0)
          <5>1. mos'[h] = Switched(h, judge'[h])
            BY RoundActs
          <5>2. Switched(h, judge'[h]).dis =
                   (judge'[h].dis /\ (Dis(h) \/ (Chg(h) /\ Current(h) > 0)))
            BY DEF Switched
          <5> QED BY <5>1, <5>2, Zenon
        <4> QED BY <3>2, <4>3, <4>4, Zenon
      <3>4. Drives(h, l)
        <4>1. plug # Packs
          BY <1>1, <1>11, <3>2, Zenon DEF Noticed
        <4>2. Above(h, l)
          BY <1>2, <3>2 DEF Above, Reporting
        <4> QED BY <3>2, <3>3, <4>1, <4>2 DEF Drives
      <3>5. judge[l].chg
        BY <1>4, <1>6, <3>1, <3>2, <3>4, Zenon DEF Obeys
      <3>6. CASE Surges(h, l)
        <4>1. rush' = rush + 1
          <5>1. rush' = IF \E g, m \in Packs : Surges(g, m)
                        THEN IF rush > RushBound THEN rush ELSE rush + 1
                        ELSE 0
            BY Zenon DEF Round
          <5>2. ~(rush > RushBound)
            BY <1>3 DEF RushBounded, RushBound
          <5> QED BY <3>6, <5>1, <5>2, Zenon
        <4>2. still =< Judging + (ChgOff + 1 + rush)
          <5>1. Noticed
            BY <1>1, <1>11, Zenon DEF Noticed
          <5> QED BY <3>6, <5>1, Zenon DEF DriveInv, By
        <4> QED BY <1>1, <1>2, <1>3, <4>1, <4>2
      <3>7. CASE ~Surges(h, l)
        <4>1. ~mos[h].dis \/ ~mos[l].chg
          BY <3>2, <3>7 DEF Surges, Rushes, Givers, Takers
        <4>2. opening
          BY <1>5, <3>1, <3>3, <3>4, <3>5, <3>8, <4>1, Zenon DEF Judges, Obeys, Chg
        <4>3. still =< Judging + judge[l].chgoff
          BY <3>4, <3>5, <4>2, Zenon DEF DriveInv, By
        <4> QED BY <1>1, <1>2, <1>3, <4>3
      <3> QED BY <3>6, <3>7
    <2> QED BY <1>1, <1>2, <2>1, <2>2
  <1> HIDE DEF opening
  <1>12. Judging' = Judging /\ Rank1(judge[h])' = Rank1(judge'[h])
    BY DEF Judging, Rank1
  <1>13. ASSUME Drives(h, l), judge'[l].chg, ~judge'[h].dis \/ ~able[l].chg
         PROVE  By(judge[l].chgoff)'
    BY <1>8, <1>12, <1>13, Zenon DEF By
  <1>14. ASSUME Drives(h, l), ~judge'[h].dis, report'[h][l].chgmos
         PROVE  By(ChgOff + 1)'
    <2>1. still' =< Judging + (ChgOff + 1)
      BY <1>1, <1>2, <1>9, <1>14
    <2> QED BY <1>12, <2>1, Zenon DEF By
  <1>15. ASSUME Drives(h, l), ~judge'[h].dis
         PROVE  By(ChgOff + 2 + Rank1(judge[h]))'
    <2>1. still' =< Judging + (ChgOff + 2 + Rank1(judge'[h]))
      BY <1>1, <1>2, <1>3, <1>10, <1>15
    <2> QED BY <1>12, <2>1, Zenon DEF By
  <1>16. ASSUME Surges(h, l)', Noticed'
         PROVE  By(ChgOff + 1 + rush)'
    <2>1. still' =< Judging + (ChgOff + 1 + rush')
      BY <1>1, <1>2, <1>3, <1>11, <1>16
    <2> QED BY <1>12, <2>1, Zenon DEF By
  <1> QED BY <1>1, <1>2, <1>7, <1>12, <1>13, <1>14, <1>15, <1>16, Zenon DEF DriveInv

LEMMA RoundFeeds ==
    ASSUME Settling, TypeOK, Informed, Round,
           NEW h \in Packs, NEW l \in Packs, h # l, FeedInv(h, l)
    PROVE  FeedInv(h, l)'
  <1>1. /\ judge'[h] = MtBmsControlJudge(h) /\ judge'[h] \in Statics
        /\ judge'[l] = MtBmsControlJudge(l) /\ judge'[l] \in Statics
        /\ still \in Nat /\ still' \in Nat /\ still' =< still + 1
        /\ bus' = bus /\ volt' = volt /\ able' = able
        /\ plug' = plug /\ Chg(l)' = Chg(l)
        /\ judge[h] \in Statics /\ judge[l] \in Statics
    BY RoundActs DEF TypeOK
  <1>2. /\ Judging \in Nat /\ Judging >= 4 /\ Reporting /\ ChgOff > 0
        /\ Feeds(h, l)' = Feeds(h, l)
    BY <1>1 DEF Judging, Settling, Reporting, Feeds, Above
  <1>3. /\ judge[h].disoff \in Nat /\ judge'[h].disoff \in Nat
        /\ judge[h].disoff =< DisOff /\ judge'[h].disoff =< DisOff
        /\ judge[l].hvchgon \in Nat /\ judge'[l].hvchgon \in Nat
    BY <1>1, RankTyped
  <1>4. Obeys(h)' /\ Obeys(l)'
    BY RoundObeys
  <1>5. ASSUME Feeds(h, l), still >= Judging - 1
        PROVE  /\ Judges(h, l) /\ Judges(l, h)
               /\ judge[l].chg => judge'[l].chg
               /\ mos[l].chg => mos'[l].chg
               /\ ~report[l][h].dismos /\ ~judge'[l].chg =>
                     judge'[l].hvchgon >= judge[l].hvchgon + 1
    <2>1. Judges(h, l) /\ Judges(l, h)
      BY <1>2, <1>5, InformedJudges
    <2>2. /\ judge[l].chg => judge'[l].chg
          /\ ~report[l][h].dismos /\ ~judge'[l].chg =>
                judge'[l].hvchgon >= judge[l].hvchgon + 1
      BY <1>1, <1>2, <1>5, <2>1, LowerCloses DEF Feeds
    <2>3. mos[l].chg => mos'[l].chg
      BY <1>1, <1>4, <1>5, <2>1, <2>2, Zenon DEF Judges, Obeys, Feeds
    <2> QED BY <2>1, <2>2, <2>3
  <1>6. ASSUME Feeds(h, l), still >= Judging, ~judge[l].chg, judge'[h].dis
        PROVE  judge[h].dis /\ judge'[h].disoff >= judge[h].disoff + 1
    <2>1. Judges(h, l) /\ Judges(l, h)
      BY <1>1, <1>2, <1>5, <1>6
    <2>2. ~mos[l].chg
      BY <1>6, <2>1, Zenon DEF Judges, Obeys
    <2>3. ~report[h][l].chgmos
      BY <1>6, <2>2, Zenon DEF FeedInv
    <2> QED BY <1>1, <1>2, <1>6, <2>1, <2>3, HigherMakesWay DEF Feeds
  <1>7. ASSUME Feeds(h, l), still' >= Judging, report'[h][l].chgmos
        PROVE  mos'[l].chg
    <2>1. still >= Judging - 1 /\ still >= 1
      BY <1>1, <1>2, <1>7
    <2>2. mos'[l].chg \/ mos[l].chg
      BY <1>2, <1>7, <2>1, ChgReported
    <2> QED BY <1>5, <1>7, <2>1, <2>2
  <1>8. ASSUME Feeds(h, l), ~judge'[l].chg, judge'[h].dis
        PROVE  still' =< Judging + judge'[h].disoff
    <2>1. CASE still' =< Judging
      BY <1>1, <1>2, <1>3, <2>1
    <2>2. CASE still' > Judging
      <3>1. still >= Judging /\ still >= Judging - 1
        BY <1>1, <1>2, <2>2
      <3>2. ~judge[l].chg
        BY <1>5, <1>8, <3>1, Zenon
      <3>3. judge[h].dis /\ judge'[h].disoff >= judge[h].disoff + 1
        BY <1>6, <1>8, <3>1, <3>2
      <3>4. still =< Judging + judge[h].disoff
        BY <1>8, <3>2, <3>3, Zenon DEF FeedInv, By
      <3> QED BY <1>1, <1>2, <1>3, <3>3, <3>4
    <2> QED BY <1>1, <1>2, <2>1, <2>2
  <1>9. ASSUME Feeds(h, l), ~judge'[l].chg, report'[l][h].dismos
        PROVE  still' =< Judging + DisOff + 1
    <2>1. CASE still' =< Judging
      BY <1>1, <1>2, <2>1
    <2>2. CASE still' > Judging
      <3>1. still >= Judging /\ still >= Judging - 1 /\ still >= 1
        BY <1>1, <1>2, <2>2
      <3>2. ~judge[l].chg
        BY <1>5, <1>9, <3>1, Zenon
      <3>3. CASE mos'[h].dis
        <4>1. judge'[h].dis
          BY <1>4, <3>3, Zenon DEF Obeys
        <4> QED BY <1>1, <1>2, <1>3, <1>8, <1>9, <4>1
      <3>4. CASE mos[h].dis
        <4>1. judge[h].dis
          BY <1>5, <1>9, <3>1, <3>4, Zenon DEF Judges, Obeys
        <4>2. still =< Judging + judge[h].disoff
          BY <1>9, <3>2, <4>1, Zenon DEF FeedInv, By
        <4> QED BY <1>1, <1>2, <1>3, <4>2
      <3> QED BY <1>2, <1>9, <3>1, <3>3, <3>4, DisReported
    <2> QED BY <1>1, <1>2, <2>1, <2>2
  <1>10. ASSUME Feeds(h, l), ~judge'[l].chg
         PROVE  still' =< Judging + DisOff + 2 + judge'[l].hvchgon
    <2>1. CASE still' =< Judging + DisOff + 2
      BY <1>1, <1>2, <1>3, <2>1
    <2>2. CASE still' > Judging + DisOff + 2
      <3>1. still >= Judging - 1 /\ still > Judging + DisOff + 1
        BY <1>1, <1>2, <2>2
      <3>2. ~judge[l].chg
        BY <1>5, <1>10, <3>1, Zenon
      <3>3. ~report[l][h].dismos
        <4>1. report[l][h].dismos => still =< Judging + (DisOff + 1)
          BY <1>10, <3>2, Zenon DEF FeedInv, By
        <4> QED BY <1>1, <1>2, <3>1, <4>1
      <3>4. judge'[l].hvchgon >= judge[l].hvchgon + 1
        BY <1>5, <1>10, <3>1, <3>3
      <3>5. still =< Judging + (DisOff + 2 + judge[l].hvchgon)
        BY <1>10, <3>2, Zenon DEF FeedInv, By
      <3> QED BY <1>1, <1>2, <1>3, <3>4, <3>5
    <2> QED BY <1>1, <1>2, <2>1, <2>2
  <1>11. Judging' = Judging
    BY DEF Judging
  <1>12. ASSUME Feeds(h, l), ~judge'[l].chg, judge'[h].dis
         PROVE  By(judge[h].disoff)'
    BY <1>8, <1>11, <1>12, Zenon DEF By
  <1>13. ASSUME Feeds(h, l), ~judge'[l].chg, report'[l][h].dismos
         PROVE  By(DisOff + 1)'
    <2>1. still' =< Judging + (DisOff + 1)
      BY <1>1, <1>2, <1>9, <1>13
    <2> QED BY <1>11, <2>1, Zenon DEF By
  <1>14. ASSUME Feeds(h, l), ~judge'[l].chg
         PROVE  By(DisOff + 2 + judge[l].hvchgon)'
    <2>1. still' =< Judging + (DisOff + 2 + judge'[l].hvchgon)
      BY <1>1, <1>2, <1>3, <1>10, <1>14
    <2> QED BY <1>11, <2>1, Zenon DEF By
  <1> QED BY <1>1, <1>2, <1>7, <1>11, <1>12, <1>13, <1>14, Zenon DEF FeedInv

-----------------------------------------------------------------------------
(* The packs settle.                                                       *)

SettleInv ==
    /\ RushInv
    /\ Informed
    /\ \A p, q \in Packs :
          p # q => LevelInv(p, q) /\ DriveInv(p, q) /\ FeedInv(p, q)

(* Nothing is due in the round of a change.                                *)
LEMMA ChangeSettles ==
    ASSUME Settling, RushInv, still = 0
    PROVE  SettleInv
  <1>1. /\ Judging \in Nat /\ Judging > 0 /\ TypeOK /\ rush \in Nat
        /\ \A p \in Packs : judge[p] \in Statics
    BY DEF Judging, RushInv, TypeOK
  <1>2. Informed
    BY <1>1 DEF Informed
  <1>3. \A n \in Nat : By(n)
    BY <1>1 DEF By
  <1> SUFFICES ASSUME NEW p \in Packs, NEW q \in Packs, p # q
               PROVE  LevelInv(p, q) /\ DriveInv(p, q) /\ FeedInv(p, q)
    BY <1>2, Zenon DEF SettleInv
  <1>4. judge[p] \in Statics /\ judge[q] \in Statics
    BY <1>1
  <1>5. LevelInv(p, q)
    BY <1>3, <1>4, RankTyped DEF LevelInv
  <1>6. ~(still >= Judging)
    BY <1>1
  <1>7. /\ ChgOff + 1 \in Nat /\ ChgOff + 2 + Rank1(judge[p]) \in Nat
        /\ ChgOff + 1 + rush \in Nat /\ judge[q].chgoff \in Nat
        /\ DisOff + 1 \in Nat /\ DisOff + 2 + judge[q].hvchgon \in Nat
        /\ judge[p].disoff \in Nat
    BY <1>1, <1>4, RankTyped
  <1>8. DriveInv(p, q) /\ FeedInv(p, q)
    BY <1>3, <1>6, <1>7, Zenon DEF DriveInv, FeedInv
  <1> QED BY <1>5, <1>8

LEMMA NextSettles ==
    ASSUME Settling, SettleInv, [Next]_vars
    PROVE  SettleInv' \/ (RushInv /\ still = 0)'
  <1>1. TypeOK /\ RushBounded /\ Reporting /\ RushInv' /\ TypeOK'
    BY NextRush, NextTyped, Zenon DEF SettleInv, RushInv, Settling
  <1>2. CASE Round
    <2>1. Informed'
      BY <1>1, <1>2, RoundInformed, Zenon DEF SettleInv
    <2>2. \A p, q \in Packs :
             p # q => LevelInv(p, q)' /\ DriveInv(p, q)' /\ FeedInv(p, q)'
      BY <1>1, <1>2, RoundLevel, RoundDrives, RoundFeeds, Zenon DEF SettleInv
    <2> QED BY <1>1, <2>1, <2>2, Zenon DEF SettleInv
  <1>3. CASE Env \/ Restart \/ KeyAgain
    BY <1>1, <1>3, Zenon DEF Env, Restart, KeyAgain
  <1>4. CASE UNCHANGED vars
    <2>1. Informed'
      <3>1. /\ bus' = bus /\ volt' = volt /\ able' = able /\ plug' = plug
            /\ over' = over /\ ok' = ok /\ mos' = mos /\ report' = report
            /\ heard' = heard /\ judge' = judge /\ still' = still
        BY <1>4, Zenon DEF vars, world
      <3>2. Informed
        BY Zenon DEF SettleInv
      <3> QED BY <3>1, <3>2 DEF Informed, Obeys, Fresh, Knows, Dis, Chg
    <2> SUFFICES ASSUME NEW p \in Packs, NEW q \in Packs, p # q
                 PROVE  LevelInv(p, q)' /\ DriveInv(p, q)' /\ FeedInv(p, q)'
      BY <1>1, <2>1, Zenon DEF SettleInv
    <2>2. Above(p, q)' = Above(p, q) /\ Above(q, p)' = Above(q, p)
          /\ Drives(p, q)' = Drives(p, q)
          /\ Feeds(p, q)' = Feeds(p, q) /\ Surges(p, q)' = Surges(p, q)
          /\ Noticed' = Noticed /\ Judging' = Judging
      BY <1>4, Zenon DEF Drives, Feeds, Dis, Chg, Above, Surges, Rushes, Givers,
         Takers, Noticed, Judging, vars, world
    <2>3. /\ still' = still /\ report' = report /\ mos' = mos /\ judge' = judge
          /\ able' = able /\ rush' = rush /\ bus' = bus /\ volt' = volt
      BY <1>4, Zenon DEF vars, world
    <2>4. LevelInv(p, q)'
      BY <2>2, <2>3, Zenon DEF SettleInv, LevelInv, By, Rank2
    <2>5. DriveInv(p, q)'
      BY <2>2, <2>3, Zenon DEF SettleInv, DriveInv, By, Rank1
    <2>6. FeedInv(p, q)'
      BY <2>2, <2>3, Zenon DEF SettleInv, FeedInv, By
    <2> QED BY <2>4, <2>5, <2>6
  <1> QED BY <1>2, <1>3, <1>4, Zenon DEF Next

LEMMA AlwaysSettles ==
    ASSUME Settling
    PROVE  Spec => []SettleInv
  <1>1. Init => RushInv /\ still = 0
    BY InitTyped, CalmRush, Zenon DEF Init
  <1>2. RushInv /\ still = 0 => SettleInv
    BY ChangeSettles
  <1>3. SettleInv /\ [Next]_vars => SettleInv' \/ (RushInv /\ still = 0)'
    BY NextSettles
  <1> QED BY <1>1, <1>2, <1>3, PTL DEF Spec

(* Once the world is left alone no pack drives another: the lower one has  *)
(* opened its charge FET for a higher one that may discharge, and closes   *)
(* it for nothing but a charger.                                           *)
THEOREM RushesEnd ==
    ASSUME Settling
    PROVE  Spec => []RushEnds
  <1>1. SettleInv => RushEnds
    <2> SUFFICES ASSUME SettleInv, Quiet, Noticed, NEW h \in Packs, NEW l \in Packs,
                        Surges(h, l)
                 PROVE  FALSE
      BY Zenon DEF RushEnds
    <2>1. TypeOK /\ RushBounded /\ Reporting
      BY Zenon DEF SettleInv, RushInv, Settling
    <2>2. h # l
      BY <2>1, SurgeCurrents, Zenon
    <2>3. still =< Judging + (ChgOff + 1 + rush)
      BY <2>2, Zenon DEF SettleInv, DriveInv, By
    <2>4. rush \in Nat /\ Judging \in Nat /\ RushBound \in Nat
      BY <2>1 DEF TypeOK, Judging, RushBound
    <2>5. rush =< RushBound /\ still = Settle /\ Settle > Judging + ChgOff + 1 + RushBound
      BY <2>1 DEF RushBounded, Quiet, Settling
    <2> QED BY <2>3, <2>4, <2>5
  <1> QED BY <1>1, AlwaysSettles, PTL

(* Without a charger every pack that discharges (Dis) ends with its        *)
(* discharge FET on: the rules of the two do not wait for one another.     *)
THEOREM LoadIsServed ==
    ASSUME Settling
    PROVE  Spec => []LoadServed
  <1>1. SettleInv => LoadServed
    <2> SUFFICES ASSUME SettleInv, Quiet, Noticed, bus =< 0,
                        NEW p \in Packs, Dis(p)
                 PROVE  mos[p].dis
      BY Zenon DEF LoadServed, Givers
    <2>1. PICK q \in Packs : q # p
      BY Zenon DEF Settling
    <2>2. /\ TypeOK /\ judge[p] \in Statics /\ Judging \in Nat
          /\ still = Settle /\ still >= 1 /\ able[p].dis
      BY DEF SettleInv, RushInv, TypeOK, Judging, Quiet, Settling, Dis
    <2>3. mos[p].dis = judge[p].dis
      BY <2>2, Zenon DEF SettleInv, Informed, Obeys
    <2>4. judge[p].dis
      <3> SUFFICES ASSUME ~judge[p].dis PROVE FALSE
        OBVIOUS
      <3>1. CASE Above(p, q)
        <4>1. Drives(p, q)
          BY <3>1, Zenon DEF Drives, Noticed
        <4>2. still =< Judging + (ChgOff + 2 + Rank1(judge[p]))
          BY <2>1, <4>1, Zenon DEF SettleInv, DriveInv, By
        <4>3. Rank1(judge[p]) \in Nat /\ Rank1(judge[p]) =< MtOsDelay + DisOn1
          BY <2>2, RankTyped
        <4> QED BY <2>2, <4>2, <4>3 DEF Settling
      <3>2. CASE ~Above(p, q)
        <4>1. still =< Judging + Rank2(judge[p])
          BY <2>1, <2>2, <3>2, Zenon DEF SettleInv, LevelInv, By
        <4>2. Rank2(judge[p]) \in Nat /\ Rank2(judge[p]) =< MtOsDelay + DisOn
          BY <2>2, RankTyped
        <4> QED BY <2>2, <4>1, <4>2 DEF Settling
      <3> QED BY <3>1, <3>2
    <2> QED BY <2>3, <2>4
  <1> QED BY <1>1, AlwaysSettles, PTL

(* A charger that both packs have noticed ends up charging every pack that *)
(* charges (Chg).  The count of rule 3, which an overload restarts on      *)
(* every pass, runs in such a pack: the flags that restart it also stop    *)
(* its charging.                                                           *)
THEOREM ChargerIsServed ==
    ASSUME Settling
    PROVE  Spec => []ChargerServed
  <1>1. SettleInv => ChargerServed
    <2> SUFFICES ASSUME SettleInv, Quiet, bus > 0, plug = Packs,
                        NEW p \in Packs, Chg(p)
                 PROVE  mos[p].chg
      BY Zenon DEF ChargerServed, Takers
    <2>1. PICK q \in Packs : q # p
      BY Zenon DEF Settling
    <2>2. /\ TypeOK /\ judge[p] \in Statics /\ Judging \in Nat
          /\ still = Settle /\ still >= 1 /\ able[p].chg
      BY DEF SettleInv, RushInv, TypeOK, Judging, Quiet, Settling, Chg
    <2>3. mos[p].chg = judge[p].chg
      BY <2>2, Zenon DEF SettleInv, Informed, Obeys
    <2>4. judge[p].chg
      <3> SUFFICES ASSUME ~judge[p].chg PROVE FALSE
        OBVIOUS
      <3>1. /\ judge[p].chgon \in Nat /\ judge[p].chgon =< ChgOn
            /\ judge[p].hvchgon \in Nat /\ judge[p].hvchgon =< ChgOn1
        BY <2>2, RankTyped
      <3>2. CASE Above(q, p)
        <4>1. Feeds(q, p)
          BY <3>2, Zenon DEF Feeds
        <4>2. still =< Judging + (DisOff + 2 + judge[p].hvchgon)
          BY <2>1, <4>1, Zenon DEF SettleInv, FeedInv, By
        <4> QED BY <2>2, <3>1, <4>2 DEF Settling
      <3>3. CASE ~Above(q, p)
        <4>1. still =< Judging + judge[p].chgon
          BY <2>1, <2>2, <3>3, Zenon DEF SettleInv, LevelInv, By
        <4> QED BY <2>2, <3>1, <4>1 DEF Settling
      <3> QED BY <3>2, <3>3
    <2> QED BY <2>3, <2>4
  <1> QED BY <1>1, AlwaysSettles, PTL

(* Healthy packs of the same voltage end in parallel, whatever hangs on    *)
(* the bus and in whichever order they came.                               *)
THEOREM EqualsDoJoin ==
    ASSUME Settling
    PROVE  Spec => []EqualsJoin
  <1>1. SettleInv => EqualsJoin
    <2> SUFFICES ASSUME SettleInv, Quiet, \A p, q \in Packs : volt[p] = volt[q],
                        \A p \in Packs : Dis(p) /\ Chg(p),
                        NEW p \in Packs
                 PROVE  mos[p].dis /\ mos[p].chg
      BY Zenon DEF EqualsJoin, Givers, Takers
    <2>1. PICK q \in Packs : q # p
      BY Zenon DEF Settling
    <2>2. /\ TypeOK /\ judge[p] \in Statics /\ Judging \in Nat
          /\ still = Settle /\ still >= 1 /\ able[p].dis /\ able[p].chg
      BY DEF SettleInv, RushInv, TypeOK, Judging, Quiet, Settling, Dis, Chg
    <2>3. mos[p].dis = judge[p].dis /\ mos[p].chg = judge[p].chg
      BY <2>2, Zenon DEF SettleInv, Informed, Obeys
    <2>4. volt[p] = volt[q] /\ ~Above(p, q) /\ ~Above(q, p)
      <3>1. volt[p] \in Nat /\ volt[p] = volt[q]
        BY <2>2 DEF TypeOK
      <3> QED BY <3>1 DEF Above
    <2>5. judge[p].dis
      <3>1. ~judge[p].dis => still =< Judging + Rank2(judge[p])
        BY <2>1, <2>2, <2>4, Zenon DEF SettleInv, LevelInv, By
      <3>2. Rank2(judge[p]) \in Nat /\ Rank2(judge[p]) =< MtOsDelay + DisOn
        BY <2>2, RankTyped
      <3> QED BY <2>2, <3>1, <3>2 DEF Settling
    <2>6. judge[p].chg
      <3>1. ~judge[p].chg => still =< Judging + judge[p].chgon
        BY <2>1, <2>2, <2>4, Zenon DEF SettleInv, LevelInv, By
      <3>2. judge[p].chgon \in Nat /\ judge[p].chgon =< ChgOn
        BY <2>2, RankTyped
      <3> QED BY <2>2, <3>1, <3>2 DEF Settling
    <2> QED BY <2>3, <2>5, <2>6
  <1> QED BY <1>1, AlwaysSettles, PTL
=============================================================================
