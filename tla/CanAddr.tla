------------------------------ MODULE CanAddr ------------------------------
(***************************************************************************)
(* How packs in parallel give themselves addresses on the CAN bus they     *)
(* share.  Every pack announces a check sum of its chip's identity and     *)
(* collects those of the others; when nothing new was heard for a while it *)
(* takes its rank among them as its address, and from then on reports its  *)
(* data under it.  A pack that starts announces 0xffffffff first, which    *)
(* makes the others start again; two packs that report under one address   *)
(* start again too; a pack that hears its own check sum moves to another.  *)
(*                                                                         *)
(* One pass of MTCanCtrl, every 10 ms, is the action Tick; one frame taken *)
(* from the receive queue is the action Receive.  The packs' clocks have   *)
(* one period and any phase, and a frame arrives before its sender's next  *)
(* pass or is lost.  What the reports say, and how long they are valid, is *)
(* left out.                                                               *)
(***************************************************************************)
EXTENDS Naturals, FiniteSets

CONSTANTS
    Packs,
    Groups,     \* CRCGROUPNUM: the check sums a pack can choose from
    Crc,        \* Ucidcrc: Crc[p][g], the check sum g of pack p
    MaxMt,      \* MAX_MT_NUM: the highest address
    MaxHeard,   \* BROADCASTMAXNUM: room for the check sums heard
    SyncTimes,  \* BROADFFTIMES: announcements of 0xffffffff before the own
    AnnounceTime, \* BROADCASTTIME: passes in which the own is announced
    SilentTime,   \* SETADDRTIME: passes of silence before the ranking
    ReportTime,   \* MTSENDTIME: passes between two reports
    ClashLimit, \* SAMEADDCHECKRESETDELAY: reports under the own address
    CounterSpan \* number of values of the u8 that counts those

ASSUME PacksAssumption ==
    /\ IsFiniteSet(Packs) /\ Groups \in Nat \ {0}
    /\ Crc \in [Packs -> [1 .. Groups -> Nat]]
ASSUME TimesAssumption ==
    /\ MaxMt \in Nat \ {0} /\ MaxHeard \in Nat \ {0} /\ SyncTimes \in Nat
    /\ AnnounceTime \in Nat /\ SilentTime \in Nat /\ ReportTime \in Nat
    /\ ClashLimit \in Nat /\ CounterSpan \in Nat /\ CounterSpan > ClashLimit + 1

VARIABLES
    on,        \* the packs that are powered
    st,        \* the variables of each pack, see State
    bus,       \* frames under way, one copy per pack they still have to reach
    todo,      \* packs that have not run their pass of this period
    env        \* "clean": no frame or state was ever lost; "faulty"; "calm":
               \* from here on nothing is lost, no pack comes or goes

vars == <<on, st, bus, todo, env>>

(* BroadcastMark is 0, or 0x5a plus the number of synchronising frames     *)
(* sent; the model's mark is one more than that number.  noMainComMark     *)
(* stops the pack's own sending: it is "yes", or "waking" when a broadcast *)
(* was heard and the next pass will clear it.                              *)
Announcing == SyncTimes + 1
Marks  == 0 .. Announcing
Delays == 0 .. AnnounceTime + SilentTime + ReportTime
State == [my : Nat,                           \* MyAddr
          mark : Marks,                       \* BroadcastMark
          delay : Delays,                     \* BroadcastDelay
          heard : SUBSET Nat,                 \* MtBmsBroadcastAddr
          group : 1 .. Groups,                \* CurrentCrc
          clashes : 0 .. CounterSpan - 1,     \* delayaddrsamereset
          silent : {"no", "yes", "waking"}]   \* noMainComMark

PoweredOn == [my |-> 0, mark |-> 0, delay |-> 0, heard |-> {}, group |-> 1,
              clashes |-> 0, silent |-> "no"]

(* Frames: address 0 with a check sum or 0xffffffff, or a report.          *)
Sync        == [kind |-> "sync"]
Announce(c) == [kind |-> "crc", crc |-> c]
Report(a)   == [kind |-> "report", addr |-> a]

Init ==
    /\ on = {} /\ st = [p \in Packs |-> PoweredOn]
    /\ bus = {} /\ todo = Packs /\ env = "clean"

-----------------------------------------------------------------------------
(* BroadcastMessage: what hearing a frame does to a pack.                  *)

(* A report under the own address, or when the own address is too high.    *)
HearClashDeaf(s) == s                            \* mutant: never restarts
HearClash(s) ==
    LET t == [s EXCEPT !.clashes = (@ + 1) % CounterSpan]
    IN  IF s.clashes > ClashLimit
        THEN [t EXCEPT !.heard = {}, !.delay = 0, !.my = 0] ELSE t

HearReport(s, a) == IF a = s.my \/ s.my > MaxMt THEN HearClash(s) ELSE s

(* An announcement restarts a pack that had finished.                      *)
Restarted(s) ==
    IF s.mark # 0 THEN s
    ELSE [s EXCEPT !.mark = 1, !.heard = {}, !.delay = 0, !.my = 0,
                   !.silent = IF @ = "yes" THEN "waking" ELSE @]

Remember(s, c) ==
    IF c \in s.heard THEN s
    ELSE [s EXCEPT !.heard = @ \cup {c}, !.delay = 0]

(* The own check sum is somebody else's too: take the next one, and start  *)
(* again if the old one was announced already.                             *)
HearOwnKeeps(s, c) == Remember(s, c)             \* mutant: keeps it
HearOwn(s, c) ==
    LET t == [s EXCEPT !.group = (@ % Groups) + 1]
    IN  IF s.mark < Announcing THEN Remember(t, c)
        ELSE [t EXCEPT !.mark = 1, !.delay = 0]

HearCrc(p, s, c) ==
    IF Cardinality(s.heard) < MaxHeard
    THEN IF c = Crc[p][s.group] THEN HearOwn(s, c) ELSE Remember(s, c)
    ELSE IF c \in s.heard THEN s
    ELSE [s EXCEPT !.mark = 1, !.delay = 0]

Capped(s) == [s EXCEPT !.delay = IF @ > AnnounceTime THEN AnnounceTime ELSE @]

BroadcastMessage(p, s, f) ==
    IF f.kind = "report" THEN HearReport(s, f.addr)
    ELSE LET t == Capped(Restarted(s))
         IN  IF f.kind = "sync" THEN [t EXCEPT !.delay = 0, !.my = 0, !.heard = {}]
             ELSE HearCrc(p, t, f.crc)

Receive(p) ==
    /\ \E m \in bus :
          /\ m.to = p
          /\ bus' = bus \ {m}
          /\ st' = [st EXCEPT ![p] = BroadcastMessage(p, @, m.frame)]
    /\ UNCHANGED <<on, todo, env>>

-----------------------------------------------------------------------------
(* MTCanCtrl: one pass of a pack.                                          *)

Smaller(p, s) == {c \in s.heard : c < Crc[p][s.group]}
MyMtCanAddrSet(p, s) ==
    [s EXCEPT !.my = 1 + Cardinality(Smaller(p, s)), !.mark = 0, !.delay = 0]

Negotiating(s) == s.my = 0 \/ s.mark > 0

(* Announcements go out on every other pass; the first ones synchronise.   *)
Announces(s) == Negotiating(s) /\ s.delay % 2 = 0 /\ s.delay + 1 < AnnounceTime
AnnouncePass(s) ==
    LET t == [s EXCEPT !.my = 0, !.mark = IF @ < Announcing THEN @ + 1 ELSE @]
    IN  IF s.mark = Announcing THEN [t EXCEPT !.delay = @ + 1]
        ELSE [t EXCEPT !.delay = 0, !.heard = {}]

Reports(s) == ~Negotiating(s) /\ s.delay + 1 >= ReportTime

Pass(p, s) ==
    IF Announces(s) THEN AnnouncePass(s)
    ELSE IF Negotiating(s) /\ s.delay + 1 > AnnounceTime + SilentTime
    THEN MyMtCanAddrSet(p, s)
    ELSE [s EXCEPT !.delay = IF Reports(s) THEN 0 ELSE @ + 1]

Sent(p, s) ==
    IF Announces(s)
    THEN {IF s.mark = Announcing THEN Announce(Crc[p][s.group]) ELSE Sync}
    ELSE IF Reports(s) THEN {Report(s.my)} ELSE {}

(* A CAN error, before the pass, or the key turned on again, after it,     *)
(* drop the address and the mark, and nothing else.                        *)
Drops == IF env = "calm" THEN {"none"} ELSE {"none", "error", "key"}
Dropped(s) == [s EXCEPT !.my = 0, !.mark = 0]

(* Silence begins after a report (with no traffic for a while), and ends   *)
(* with a broadcast or with traffic of other nodes.                        *)
Silence(s, reported) ==
    IF s.silent = "no"
    THEN IF reported /\ env # "calm" THEN {"no", "yes"} ELSE {"no"}
    ELSE IF s.silent = "yes" THEN {"yes", "no"} ELSE {"no"}

MTCanCtrl(p, drop) ==
    LET s    == IF drop = "error" THEN Dropped(st[p]) ELSE st[p]
        runs == s.silent = "no"
        t    == IF runs THEN Pass(p, s) ELSE s
        u    == IF drop = "key" THEN [Dropped(t) EXCEPT !.silent = "no"] ELSE t
        sent == IF runs THEN Sent(p, s) ELSE {}
    IN  /\ bus' = bus \cup [to : on \ {p}, from : {p}, frame : sent]
        /\ \E q \in Silence(u, runs /\ Reports(s)) :
              st' = [st EXCEPT ![p] = [u EXCEPT !.silent = q]]

Tick(p) ==
    /\ p \in on /\ p \in todo
    /\ ~\E m \in bus : m.from = p
    /\ \E drop \in Drops :
          /\ MTCanCtrl(p, drop)
          /\ env' = IF drop = "none" THEN env ELSE "faulty"
    /\ todo' = IF todo \cap on \subseteq {p} THEN Packs ELSE todo \ {p}
    /\ UNCHANGED on

-----------------------------------------------------------------------------
(* The bus and the users.                                                  *)

Lose ==
    /\ env # "calm" /\ env' = "faulty"
    /\ \E m \in bus : bus' = bus \ {m}
    /\ UNCHANGED <<on, st, todo>>

PowerOn(p) ==
    /\ env # "calm" /\ p \notin on
    /\ on' = on \cup {p} /\ st' = [st EXCEPT ![p] = PoweredOn]
    /\ UNCHANGED <<bus, todo, env>>

PowerOff(p) ==
    /\ env # "calm" /\ p \in on
    /\ on' = on \ {p} /\ st' = [st EXCEPT ![p] = PoweredOn]
    /\ bus' = {m \in bus : m.to # p}
    /\ todo' = IF todo \cap on' = {} THEN Packs ELSE todo
    /\ UNCHANGED env

CalmDown ==
    /\ env # "calm" /\ \A p \in on : st[p].silent = "no"
    /\ env' = "calm" /\ UNCHANGED <<on, st, bus, todo>>

Next ==
    \/ \E p \in Packs : Tick(p) \/ Receive(p) \/ PowerOn(p) \/ PowerOff(p)
    \/ Lose \/ CalmDown

Spec == Init /\ [][Next]_vars

(* The main loop of a powered pack never stops, and it drains its queue.   *)
FairSpec == Spec /\ \A p \in Packs : WF_vars(Tick(p)) /\ WF_vars(Receive(p))

-----------------------------------------------------------------------------
(* Properties.                                                             *)

(* Every variable has its type.  A pack that negotiates (the mark is set)  *)
(* holds no address, whichever frames restart it.                          *)
TypeOK ==
    /\ on \subseteq Packs /\ todo \subseteq Packs
    /\ env \in {"clean", "faulty", "calm"}
    /\ st \in [Packs -> State]
    /\ \A p \in Packs : IsFiniteSet(st[p].heard)
    /\ \A p \in Packs : st[p].mark > 0 => st[p].my = 0

(* What NoClash needs of the constants.  Two packs, the MAX_MT_NUM of the  *)
(* code: with a third, one pack may have heard the check sum of a pack     *)
(* that left and another not, so that their ranks agree.  A synchronising  *)
(* announcement besides the first, which makes the others forget a check   *)
(* sum that is given up.  Time for one announcement of the own.            *)
Negotiable ==
    /\ \A p, q, r \in Packs : p = q \/ q = r \/ p = r
    /\ SyncTimes > 0 /\ AnnounceTime > 1

(* As long as no frame was lost and no pack dropped its address, packs may *)
(* come, go and fall silent at any time: no two of them ever hold the same *)
(* address, although their first check sums are equal.                     *)
NoClash ==
    env = "clean" =>
       \A p, q \in on : p # q /\ st[p].my # 0 => st[p].my # st[q].my

Addressed ==
    /\ \A p \in on : st[p].my # 0 /\ st[p].mark = 0
    /\ \A p, q \in on : p # q => st[p].my # st[q].my /\ st[p].my =< MaxMt

(* Whatever was lost, restarted or dropped before: once the bus is         *)
(* undisturbed, the packs end with different addresses, none above the     *)
(* highest, and keep them.                                                 *)
AddressesSettle == env = "calm" ~> []Addressed
=============================================================================
