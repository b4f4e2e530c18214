----------------------------- MODULE MtControl -----------------------------
(***************************************************************************)
(* MtBmsControlJudge (multiCan.c): packs with different voltages share one *)
(* bus.  Each pack decides every 10 ms, from its own measurements and the  *)
(* last report of the others, whether its discharge FET and its charge FET *)
(* may be on (MtBmsAllow).  Current must not rush from a pack of higher    *)
(* voltage with its discharge FET on into a lower one with its charge FET  *)
(* on, yet the bus must not be left without a pack that drives it.         *)
(*                                                                         *)
(* One Round is one period in which every pack measures, judges and        *)
(* switches, after which each report arrives or is lost.  Delays are       *)
(* counted in rounds.  Currents are classes: 0, and 1 or 2 (charging), -1  *)
(* or -2 (discharging) for more than 1 A or more than 5 A; every other     *)
(* threshold of the code lies between 0 and 1.                             *)
(***************************************************************************)
EXTENDS Integers, FiniteSets

CONSTANTS
    Packs,
    Levels,       \* voltages
    VolOffer,     \* VOLOFFER, to call another pack higher or lower
    QVolOffer,    \* QVOLOFFER, the same for leaving the parallel operation
    DisOn, DisOn1,    \* DISONDELAY, DISONDELAY1
    ChgOn, ChgOn1,    \* CHGONDELAY, CHGONDELAY1
    MtOsDelay,        \* MTOSDELAYCDON
    DisOff, ChgOff,   \* DISOFFDELAY, CHGOFFDELAY
    OkDelay,          \* MULTICONTROLDELAY
    DataDelay,        \* MTBMSDATADELAY, how long a report is valid
    MaxChanges,       \* bound: changes of the world
    MaxLost,          \* bound: reports of a pack lost in a row
    Buses,            \* bound: what may hang on the bus
    Settle            \* rounds after a change by which the packs settle

ASSUME DelaysAssumption ==
    /\ DisOn \in Nat \ {0} /\ DisOn1 \in Nat \ {0}
    /\ ChgOn \in Nat \ {0} /\ ChgOn1 \in Nat \ {0}
    /\ MtOsDelay \in Nat /\ DisOff \in Nat /\ ChgOff \in Nat
    /\ OkDelay \in Nat /\ DataDelay \in Nat \ {0} /\ Settle \in Nat
ASSUME VoltagesAssumption ==
    Levels \subseteq Nat /\ VolOffer \in Nat /\ QVolOffer \in Nat

Currents == -2 .. 2
ASSUME BusesAssumption == Buses \subseteq Currents

VARIABLES
    bus,      \* what hangs on the bus: a load (< 0), nothing, a charger
    volt,     \* the voltage of each pack
    able,     \* DsgAble and ChgAble
    over,     \* packs with DisSC or DisOC, a discharge that was too strong
    plug,     \* ChgPlugin
    ok,       \* MT_OkMark: the pack holds an address
    mos,      \* AfeDsg and AfeChg
    report,   \* MtBmsData: the last report each pack has of each other
    heard,    \* MtBmsDataDelay: for how long it is still valid
    judge,    \* MtBmsAllow and the static variables of the judgement
    rush,     \* history: rounds since the last change in which current rushed
    still,    \* history: rounds since the last change, up to Settle
    changes   \* changes of the world so far

world == <<bus, volt, able, over, plug, ok>>
vars  == <<world, mos, report, heard, judge, rush, still, changes>>

Fets   == [dis : BOOLEAN, chg : BOOLEAN]
Off    == [dis |-> FALSE, chg |-> FALSE]
Report == [vol : Levels, cur : Currents, dis : BOOLEAN, chg : BOOLEAN,
           dismos : BOOLEAN, chgmos : BOOLEAN, plug : BOOLEAN]

Statics == [dis : BOOLEAN, chg : BOOLEAN, single : BOOLEAN,
            multiok : 0 .. OkDelay, mtos : 0 .. MtOsDelay,
            offtoon : 0 .. MtOsDelay,
            dison : 0 .. DisOn, lvdison : 0 .. DisOn1, disoff : 0 .. DisOff,
            chgon : 0 .. ChgOn, hvchgon : 0 .. ChgOn1, chgoff : 0 .. ChgOff]

Start == [dis |-> FALSE, chg |-> FALSE, single |-> FALSE, multiok |-> 0,
          mtos |-> 0, offtoon |-> 0, dison |-> 0, lvdison |-> 0,
          disoff |-> 0, chgon |-> 0, hvchgon |-> 0, chgoff |-> 0]

-----------------------------------------------------------------------------
(* The bus.  A FET that is off conducts the other way through its diode: a *)
(* pack gives current when its discharge FET is on and takes current when  *)
(* its charge FET is on.                                                   *)
Givers == {p \in Packs : mos[p].dis}
Takers == {p \in Packs : mos[p].chg}

Rushes(h, l) == h \in Givers /\ l \in Takers /\ volt[h] > volt[l] /\ bus =< 0

(* The current is large enough to be noticed by the judgement.             *)
Surges(h, l) == Rushes(h, l) /\ volt[h] > volt[l] + QVolOffer

Current(p) ==
    IF \E l \in Packs : Rushes(p, l) THEN -2
    ELSE IF \E h \in Packs : Rushes(h, p) THEN 2
    ELSE IF bus < 0 /\ p \in Givers /\ \A q \in Givers : volt[q] =< volt[p]
    THEN bus
    ELSE IF bus > 0 /\ p \in Takers /\ \A q \in Takers : volt[q] >= volt[p]
    THEN bus
    ELSE 0

(* BatStatus.Dis and BatStatus.Chg follow the permissions, but an overload *)
(* stops both (DisStopFlag, ChgStopFlag).                                  *)
Dis(p) == able[p].dis /\ p \notin over
Chg(p) == able[p].chg /\ p \notin over

(* VolPack > DIS_UNDER_VOL_TOTAL: the port of p has voltage.               *)
PortLive(p) == bus > 0 \/ Givers # {}

-----------------------------------------------------------------------------
(* What pack p concludes from the reports (multiCondition).                *)

Others(p)  == {q \in Packs \ {p} : heard[p][q] > 0}
Of(p, q)   == report[p][q]

Lower(p, offer)  == {q \in Others(p) : Of(p, q).vol + offer < volt[p]}
Higher(p, offer) == {q \in Others(p) : Of(p, q).vol > volt[p] + offer}

(* mutant: only if no other pack is as low, as high *)
StrictMin(p, offer) ==
    Others(p) # {} /\ \A q \in Others(p) : Of(p, q).vol > volt[p] + offer
StrictMax(p, offer) ==
    Others(p) # {} /\ \A q \in Others(p) : Of(p, q).vol + offer < volt[p]
IsMin(p, offer) == Others(p) # {} /\ Lower(p, offer) = {}
IsMax(p, offer) == Others(p) # {} /\ Higher(p, offer) = {}

LowerOffCmos(p)  == \A q \in Lower(p, VolOffer) : ~Of(p, q).chgmos
LowerEnChg(p)    == \E q \in Lower(p, VolOffer) : Of(p, q).chg
HigherOffDmos(p, offer) == \A q \in Higher(p, offer) : ~Of(p, q).dismos
HigherEnDis(p, offer)   == \E q \in Higher(p, offer) : Of(p, q).dis

(* The highest of the others has seen a charger, and so has this pack.     *)
MaxChgPlugin(p) ==
    /\ p \in plug
    /\ \E q \in Others(p) :
          /\ Of(p, q).plug
          /\ \A r \in Others(p) : Of(p, r).vol =< Of(p, q).vol

OtherIsDis(p) == \E q \in Others(p) : Of(p, q).cur < 0

TotalCur(p) ==
    LET sum[S \in SUBSET Others(p)] ==
            IF S = {} THEN 0
            ELSE LET q == CHOOSE q \in S : TRUE IN Of(p, q).cur + sum[S \ {q}]
    IN  sum[Others(p)]

-----------------------------------------------------------------------------
(* The rules.  Each takes the static variables as the rule before left     *)
(* them.  "if (n++ >= Delay) { n = Delay; fire }"                          *)
Count(n, delay) == IF n < delay THEN n + 1 ELSE delay
Due(n, delay)   == n >= delay

AllowDis(s) == [s EXCEPT !.dis = TRUE]
AllowChg(s) == [s EXCEPT !.chg = TRUE, !.chgoff = IF s.chg THEN @ ELSE 0]

(* Joining others after having been alone, and being alone.                *)
Company(p, s) ==
    IF Others(p) = {} THEN [s EXCEPT !.single = TRUE]
    ELSE [s EXCEPT !.single = FALSE, !.mtos = MtOsDelay,
                   !.chgon = IF s.single THEN 0 ELSE @,
                   !.chg = @ /\ ~(s.single /\ ~mos[p].dis)]

(* Rule 1: there is a lower pack; when may the discharge FET go on?        *)
LowerReady(p) ==
    \/ LowerOffCmos(p) /\ (~LowerEnChg(p) \/ ~MaxChgPlugin(p))
    \/ ~LowerOffCmos(p) /\ Current(p) >= 1
Rule1(p, s) ==
    IF Lower(p, VolOffer) = {} \/ ~LowerReady(p) THEN [s EXCEPT !.lvdison = 0]
    ELSE LET quick == LowerOffCmos(p) /\ (TotalCur(p) =< -1 \/ Current(p) >= 1)
             t == [s EXCEPT !.dison = 0,
                            !.offtoon = IF quick THEN 0 ELSE @,
                            !.lvdison = IF quick THEN DisOn1 ELSE @]
         IN  IF t.offtoon > 0 THEN [t EXCEPT !.offtoon = @ - 1]
             ELSE [t EXCEPT !.lvdison = Count(@, DisOn1),
                            !.dis = @ \/ Due(t.lvdison, DisOn1)]

(* Rule 2: the lowest pack, or alone; when may the discharge FET go on?    *)
(* A port that has voltage although nobody else is heard holds it back.    *)
Rule2(p, s) ==
    IF ~(s.single \/ IsMin(p, VolOffer)) THEN [s EXCEPT !.dison = 0]
    ELSE LET waits == s.mtos > 0 /\ s.single
             n == IF waits \/ s.offtoon > 0 THEN 0 ELSE s.dison
             on == s.dis \/ Due(n, DisOn)
             held == ~on /\ s.single /\ PortLive(p) /\ Current(p) =< 0
         IN  [s EXCEPT !.mtos = IF waits THEN @ - 1 ELSE @,
                       !.offtoon = IF @ > 0 THEN @ - 1 ELSE 0,
                       !.dison = IF held THEN 0 ELSE Count(n, DisOn),
                       !.dis = on]

(* Rule 3: there is a higher pack; when may the charge FET go on?          *)
(* An overload starts the count over.                                      *)
HigherReady(p) ==
    \/ /\ HigherOffDmos(p, VolOffer)
       /\ ~HigherEnDis(p, VolOffer) \/ TotalCur(p) >= 1 \/ MaxChgPlugin(p)
    \/ ~HigherOffDmos(p, VolOffer) /\ Current(p) =< -1
Rule3(p, s) ==
    IF Higher(p, VolOffer) = {} \/ ~HigherReady(p) THEN [s EXCEPT !.hvchgon = 0]
    ELSE LET n == IF HigherOffDmos(p, VolOffer) /\ TotalCur(p) >= 1
                  THEN ChgOn1 ELSE s.hvchgon
             t == [s EXCEPT !.chgon = 0]
             u == IF Due(n, ChgOn1) THEN AllowChg(t) ELSE t
         IN  [u EXCEPT !.hvchgon = IF p \in over THEN 0 ELSE Count(n, ChgOn1),
                       !.chgoff = IF TotalCur(p) >= 1 THEN 0 ELSE @]

(* Rule 4: the highest pack, or alone; when may the charge FET go on?      *)
Rule4(p, s) ==
    LET top == IsMax(p, VolOffer) /\ able[p].chg
    IN  IF ~(s.single \/ top) THEN [s EXCEPT !.chgon = 0]
        ELSE LET gives == top /\ Current(p) =< -1
                 t == [s EXCEPT !.mtos = IF gives THEN 0 ELSE @,
                                !.chgon = IF gives THEN ChgOn ELSE @]
                 waits == t.mtos > 0 /\ t.single
                 n == IF waits THEN 0 ELSE t.chgon
                 u == IF Due(n, ChgOn) THEN AllowChg(t) ELSE t
             IN  [u EXCEPT !.mtos = IF waits THEN @ - 1 ELSE @,
                           !.chgon = Count(n, ChgOn)]

(* mutant: only once the pack is charged itself *)
WaitsForCurrent(p) ==
    /\ ~IsMin(p, VolOffer) /\ Current(p) > 0
    /\ LowerEnChg(p) /\ LowerOffCmos(p) /\ ~OtherIsDis(p)
(* Rule 5: the discharge FET goes off to let a lower pack charge, or       *)
(* because the pack must not discharge.                                    *)
MakesWay(p) ==
    /\ ~IsMin(p, VolOffer)
    /\ Current(p) > 0 \/ MaxChgPlugin(p)
    /\ LowerEnChg(p) /\ LowerOffCmos(p) /\ ~OtherIsDis(p)
Rule5(p, s) ==
    IF ~(MakesWay(p) \/ ~able[p].dis) THEN [s EXCEPT !.disoff = 0]
    ELSE LET t == [s EXCEPT !.disoff = Count(@, DisOff)]
         IN  IF ~Due(s.disoff, DisOff) THEN t
             ELSE [t EXCEPT !.dis = FALSE, !.offtoon = MtOsDelay,
                            !.dison = IF s.dis THEN 0 ELSE @,
                            !.lvdison = IF s.dis THEN 0 ELSE @]

(* Rule 6: the charge FET goes off to let a higher pack drive the bus,     *)
(* because the pack must not charge, or because it takes what the others   *)
(* give.                                                                   *)
LetsDrive(p) ==
    /\ ~IsMax(p, VolOffer)
    /\ HigherEnDis(p, VolOffer) /\ HigherOffDmos(p, VolOffer)
    /\ TotalCur(p) =< 0 /\ Current(p) =< 0
TakesFromOthers(p) ==
    /\ IsMin(p, QVolOffer) /\ ~IsMax(p, QVolOffer)
    /\ Current(p) >= 1 /\ TotalCur(p) + Current(p) =< 0
Idles(p) ==
    /\ HigherEnDis(p, QVolOffer) /\ ~HigherOffDmos(p, QVolOffer)
    /\ able[p].chg /\ Current(p) = 0
(* mutant: a pack that takes what the others give keeps on taking *)
KeepsTaking(p, s) ==
    LetsDrive(p) \/ (~able[p].chg /\ ~s.single) \/ Idles(p)
MustNotCharge(p, s) ==
    \/ LetsDrive(p)
    \/ ~able[p].chg /\ ~s.single
    \/ Current(p) = 2 /\ TotalCur(p) =< -2 /\ ~s.single
    \/ TakesFromOthers(p)
    \/ Idles(p)
Rule6(p, s) ==
    IF ~MustNotCharge(p, s) THEN [s EXCEPT !.chgoff = 0]
    ELSE LET t == [s EXCEPT !.chgoff = Count(@, ChgOff)]
         IN  IF ~Due(s.chgoff, ChgOff) THEN t
             ELSE [t EXCEPT !.chg = FALSE,
                            !.chgon = IF s.chg THEN 0 ELSE @,
                            !.hvchgon = IF s.chg THEN 0 ELSE @]

(* The judgement of one pass.  Without an address, while the addresses are *)
(* negotiated, the verdicts stay as they are.                              *)
MtBmsControlJudge(p) ==
    LET s == Company(p, judge[p])
        t == [s EXCEPT !.multiok = Count(@, OkDelay)]
    IN  IF ~ok[p] THEN [s EXCEPT !.multiok = 0]
        ELSE IF ~Due(s.multiok, OkDelay) THEN t
        ELSE Rule6(p, Rule5(p, Rule4(p, Rule3(p, Rule2(p, Rule1(p, t))))))

-----------------------------------------------------------------------------
(* BmsMosCheck and AfeFetCtrl, as far as the others see them: a FET is on  *)
(* when the pack wants it and the judgement allows it.  A charging pack    *)
(* wants both FETs, and so does a discharging one.                         *)
Switched(p, s) ==
    [dis |-> s.dis /\ (Dis(p) \/ (Chg(p) /\ Current(p) > 0)),
     chg |-> s.chg /\ (Chg(p) \/ (Dis(p) /\ Current(p) < 0))]

(* mutant: the current is left out *)
CurrentLost(p, m) ==
    [vol |-> volt[p], cur |-> 0, dis |-> Dis(p), chg |-> Chg(p),
     dismos |-> m.dis, chgmos |-> m.chg, plug |-> p \in plug]
(* MTCanCtrl and fetchangeflushstatus: what p tells the others.            *)
Told(p, m) == [vol |-> volt[p], cur |-> Current(p),
               dis |-> Dis(p), chg |-> Chg(p),
               dismos |-> m.dis, chgmos |-> m.chg, plug |-> p \in plug]

(* A pack without an address sends no report.                              *)
MaySend(q) == ok[q]

Hear(arrives) ==
    LET news == [p \in Packs |-> {q \in Packs \ {p} : MaySend(q) /\ arrives[q]}]
    IN  /\ heard' = [p \in Packs |-> [q \in Packs |->
                       IF q \in news[p] THEN DataDelay
                       ELSE IF heard[p][q] > 0 THEN heard[p][q] - 1 ELSE 0]]
        /\ report' = [p \in Packs |-> [q \in Packs |->
                       IF q \in news[p] THEN Told(q, mos'[q]) ELSE report[p][q]]]

(* Before a rush ends: the delay after a negotiation, that of rule 6, and a *)
(* round each for the current to be measured and the FET to act on it.     *)
RushBound == OkDelay + ChgOff + 2

Round ==
    \E arrives \in [Packs -> BOOLEAN] :
       /\ \A q \in Packs : arrives[q] \/ \A p \in Packs \ {q} :
             ok[q] /\ heard[p][q] > DataDelay - MaxLost
       /\ judge' = [p \in Packs |-> MtBmsControlJudge(p)]
       /\ mos' = [p \in Packs |-> Switched(p, judge'[p])]
       /\ Hear(arrives)
       /\ rush' = IF \E h, l \in Packs : Surges(h, l)
                  THEN IF rush > RushBound THEN rush ELSE rush + 1
                  ELSE 0
       /\ still' = IF still < Settle THEN still + 1 ELSE still
       /\ ok' = [p \in Packs |-> TRUE]
       /\ UNCHANGED <<bus, volt, able, over, plug, changes>>

-----------------------------------------------------------------------------
(* The world between two rounds.                                           *)

BusChanges ==
    /\ bus' \in Buses
    /\ UNCHANGED <<volt, able, over, plug, ok>>

(* Protections come and go.                                                *)
AbleChanges ==
    /\ \E p \in Packs, a \in Fets : able' = [able EXCEPT ![p] = a]
    /\ UNCHANGED <<bus, volt, over, plug, ok>>

(* DisOverCurCheck, or the front end (AfeModule.c), finds a discharge       *)
(* current that is too strong.                                             *)
Overload ==
    /\ \E p \in Packs : over' = over \cup {p}
    /\ UNCHANGED <<bus, volt, able, plug, ok>>

(* Nothing but a host's command, to one pack or to all, clears the flags   *)
(* of a running pack: the release of DisCurMonitor is compiled out, and    *)
(* ChgPlugInCheck keeps them.                                              *)
ClearStatus ==
    /\ over' \in SUBSET over
    /\ UNCHANGED <<bus, volt, able, plug, ok>>

(* ChgPlugInCheck of one or more packs notices a charger, or its absence.   *)
PlugChanges ==
    /\ plug' \in SUBSET Packs
    /\ IF bus > 0 THEN plug \subseteq plug' ELSE plug' \subseteq plug
    /\ UNCHANGED <<bus, volt, able, over, ok>>

(* A pack that gives current sinks, one that takes current rises.          *)
VoltChanges ==
    /\ volt' \in [Packs -> Levels]
    /\ \A p \in Packs : volt'[p] < volt[p] => Current(p) < 0
    /\ \A p \in Packs : volt'[p] > volt[p] => Current(p) > 0
    /\ \A h \in Givers, l \in Takers : volt'[h] > volt'[l] => volt[h] > volt[l]
    /\ UNCHANGED <<bus, able, over, plug, ok>>

(* All packs negotiate their addresses at the same time (module CanAddr).  *)
Negotiate ==
    /\ ok' = [p \in Packs |-> FALSE]
    /\ UNCHANGED <<bus, volt, able, over, plug>>

World == BusChanges \/ AbleChanges \/ Overload \/ ClearStatus \/ PlugChanges
         \/ VoltChanges \/ Negotiate

Env ==
    /\ changes < MaxChanges /\ changes' = changes + 1
    /\ World
    /\ rush' = 0 /\ still' = 0
    /\ UNCHANGED <<mos, report, heard, judge>>

(* A pack is switched on, or starts again: its FETs are off, and SysVarInit *)
(* clears its protections.                                                 *)
Restart ==
    /\ changes < MaxChanges /\ changes' = changes + 1
    /\ \E p \in Packs :
       /\ judge' = [judge EXCEPT ![p] = Start]
       /\ mos' = [mos EXCEPT ![p] = Off]
       /\ heard' = [heard EXCEPT ![p] = [q \in Packs |-> 0]]
       /\ over' = over \ {p}
       /\ ok' = [q \in Packs |-> FALSE]
       /\ rush' = 0 /\ still' = 0
       /\ UNCHANGED <<bus, volt, able, plug, report>>

(* The key or the identification pin goes off and comes back: the counters *)
(* of the rules start over, and so do the addresses.                       *)
KeyAgain ==
    /\ changes < MaxChanges /\ changes' = changes + 1
    /\ \E p \in Packs :
       /\ judge' = [judge EXCEPT ![p] =
                      [Start EXCEPT !.single = judge[p].single,
                                    !.mtos = judge[p].mtos,
                                    !.offtoon = judge[p].offtoon]]
       /\ mos' = [mos EXCEPT ![p] = Off]
       /\ ok' = [q \in Packs |-> FALSE]
       /\ rush' = 0 /\ still' = 0
       /\ UNCHANGED <<bus, volt, able, over, plug, report, heard>>

Init ==
    /\ bus \in Buses /\ plug = {} /\ over = {}
    /\ volt \in [Packs -> Levels]
    /\ able = [p \in Packs |-> [dis |-> TRUE, chg |-> TRUE]]
    /\ ok = [p \in Packs |-> FALSE]
    /\ mos = [p \in Packs |-> Off]
    /\ report = [p \in Packs |-> [q \in Packs |-> Told(q, Off)]]
    /\ heard = [p \in Packs |-> [q \in Packs |-> 0]]
    /\ judge = [p \in Packs |-> Start]
    /\ rush = 0 /\ still = 0 /\ changes = 0

Next == Round \/ Env \/ Restart \/ KeyAgain

Spec == Init /\ [][Next]_vars

-----------------------------------------------------------------------------
(* Types.                                                                  *)
TypeOK ==
    /\ bus \in Buses /\ volt \in [Packs -> Levels] /\ able \in [Packs -> Fets]
    /\ over \subseteq Packs /\ plug \subseteq Packs /\ ok \in [Packs -> BOOLEAN]
    /\ mos \in [Packs -> Fets]
    /\ report \in [Packs -> [Packs -> Report]]
    /\ heard \in [Packs -> [Packs -> 0 .. DataDelay]]
    /\ judge \in [Packs -> Statics]
    /\ rush \in 0 .. RushBound + 1 /\ still \in 0 .. Settle

(* What RushBounded needs of the constants: two packs, the MAX_MT_NUM of   *)
(* the code; a judgement that waits at least a pass after a negotiation, a *)
(* tolerance for joining within the one for leaving, and no two reports in *)
(* a row lost, nor one that was the last valid.                            *)
Reporting ==
    /\ \A p, q, r \in Packs : p = q \/ q = r \/ p = r
    /\ OkDelay > 0 /\ VolOffer =< QVolOffer
    /\ MaxLost \in {0, 1} /\ MaxLost < DataDelay

(* Two packs may close at the same time, each on a report of the other     *)
(* from before.  The current that then rushes between them is noticed, and *)
(* the charge FET of the lower one is off again within RushBound rounds of *)
(* the last change of the world, even if addresses are negotiated anew.    *)
RushBounded == rush =< RushBound

(* What lets the packs settle: both are there, the charge FET that is       *)
(* allowed is not taken back in the same pass, and the world is left alone *)
(* for longer than the delays that follow one another.  From round Judging *)
(* on each pack judges, from what it has heard of the world as it is.      *)
Judging == OkDelay + 3
Settling ==
    /\ Reporting /\ \E p, q \in Packs : p # q
    /\ ChgOff > 0
    /\ Settle > Judging + ChgOff + 1 + RushBound
    /\ Settle > Judging + MtOsDelay + DisOn
    /\ Settle > Judging + ChgOff + 2 + MtOsDelay + DisOn1
    /\ Settle > Judging + ChgOn
    /\ Settle > Judging + DisOff + 2 + ChgOn1

Quiet == still = Settle

(* One of the packs knows that the charger is gone: each clears ChgPlugin  *)
(* by itself after a while without current (Charge.c).                     *)
Noticed == bus =< 0 => plug # Packs

(* The packs do not close and open in turns: once nothing changes any more *)
(* no pack drives another.                                                 *)
RushEnds == Quiet /\ Noticed => \A h, l \in Packs : ~Surges(h, l)

(* The rules do not wait for one another for ever: without a charger every *)
(* pack that discharges (Dis) drives the bus, the lower one and then, once *)
(* the charge FET of the lower one is off, the higher one.                 *)
LoadServed ==
    Quiet /\ Noticed /\ bus =< 0 => {p \in Packs : Dis(p)} \subseteq Givers

(* A charger that all packs have noticed charges every pack that charges   *)
(* (Chg): the higher one makes way for the lower one, also for one whose   *)
(* overload was cleared a moment ago.                                      *)
ChargerServed ==
    Quiet /\ bus > 0 /\ plug = Packs => {p \in Packs : Chg(p)} \subseteq Takers

(* Healthy packs of the same voltage end with both FETs on: neither is     *)
(* left out for the order in which they arrived.                           *)
EqualsJoin ==
    /\ Quiet
    /\ \A p, q \in Packs : volt[p] = volt[q]
    /\ \A p \in Packs : Dis(p) /\ Chg(p)
    => Givers = Packs /\ Takers = Packs
=============================================================================
