--------------------------- MODULE CanAddrProofs ---------------------------
(* Theorems about the address negotiation: type correctness for any set of *)
(* packs, and in it that a negotiating pack has no address; and that two   *)
(* packs never hold the same address, for any check sums and all times     *)
(* that satisfy Negotiable.                                                *)
EXTENDS CanAddr, FiniteSetTheorems, TLAPS

(* What TypeOK says of one pack.                                           *)
PackOK(s) == /\ s \in State /\ IsFiniteSet(s.heard)
             /\ s.mark > 0 => s.my = 0

(* The values that handlers assign are in range.                           *)
LEMMA Ranges ==
    /\ 0 \in Delays /\ AnnounceTime \in Delays
    /\ 0 \in Marks /\ 1 \in Marks /\ 1 > 0
    /\ \A m \in Marks : m < Announcing => m + 1 \in Marks /\ m + 1 > 0
    /\ \A k \in 0 .. CounterSpan - 1 : (k + 1) % CounterSpan \in 0 .. CounterSpan - 1
    /\ \A g \in 1 .. Groups : (g % Groups) + 1 \in 1 .. Groups
<1>1. 0 \in Delays /\ AnnounceTime \in Delays
  BY TimesAssumption DEF Delays
<1>2. /\ 0 \in Marks /\ 1 \in Marks /\ 1 > 0
      /\ \A m \in Marks : m < Announcing => m + 1 \in Marks /\ m + 1 > 0
  BY TimesAssumption DEF Marks, Announcing
<1>3. \A k \in 0 .. CounterSpan - 1 : (k + 1) % CounterSpan \in 0 .. CounterSpan - 1
  BY TimesAssumption
<1>4. \A g \in 1 .. Groups : (g % Groups) + 1 \in 1 .. Groups
  BY PacksAssumption
<1>5. QED
  BY <1>1, <1>2, <1>3, <1>4

(* A check sum added to those heard, and another group chosen, keep the    *)
(* variables of a pack in order.                                           *)
LEMMA RememberOK ==
    ASSUME NEW s, PackOK(s), NEW c \in Nat
    PROVE  PackOK(Remember(s, c))
<1>1. IsFiniteSet(s.heard \cup {c})
  BY FS_AddElement DEF PackOK
<1>2. QED
  BY <1>1, Ranges DEF PackOK, Remember, State

LEMMA HearOwnOK ==
    ASSUME NEW s, PackOK(s), NEW c \in Nat, s.mark > 0
    PROVE  PackOK(HearOwn(s, c))
<1> DEFINE t == [s EXCEPT !.group = (@ % Groups) + 1]
<1>1. (s.group % Groups) + 1 \in 1 .. Groups
  BY Ranges DEF PackOK, State
<1>2. PackOK(t) /\ t.mark > 0
  BY <1>1 DEF PackOK, State
<1>3. PackOK(Remember(t, c))
  BY <1>2, RememberOK
<1> HIDE DEF t
<1>4. PackOK([t EXCEPT !.mark = 1, !.delay = 0])
  BY <1>2, Ranges DEF PackOK, State
<1>5. QED
  BY <1>3, <1>4 DEF HearOwn, t

(* Frames: what hearing one does to a pack.                                *)
Frames == {Sync} \cup {Announce(c) : c \in Nat} \cup {Report(a) : a \in Nat}

LEMMA BroadcastMessageOK ==
    ASSUME NEW p \in Packs, NEW s, PackOK(s), NEW f \in Frames
    PROVE  PackOK(BroadcastMessage(p, s, f))
<1> DEFINE t == Capped(Restarted(s))
<1>1. PackOK(Restarted(s)) /\ Restarted(s).mark > 0
  <2>1. CASE s.mark = 0
    BY <2>1, FS_EmptySet, Ranges DEF PackOK, State, Restarted
  <2>2. CASE s.mark # 0
    <3>1. s.mark > 0
      BY <2>2 DEF PackOK, State, Marks
    <3>2. QED
      BY <2>2, <3>1 DEF Restarted
  <2>3. QED
    BY <2>1, <2>2
<1>2. PackOK(t) /\ t.mark > 0
  BY <1>1, Ranges DEF PackOK, State, Capped
<1> HIDE DEF t
<1>3. CASE f.kind = "report"
  <2>1. (s.clashes + 1) % CounterSpan \in 0 .. CounterSpan - 1
    BY Ranges DEF PackOK, State
  <2>2. PackOK(HearClash(s))
    BY <2>1, FS_EmptySet, Ranges DEF PackOK, State, HearClash
  <2>3. QED
    BY <1>3, <2>2 DEF BroadcastMessage, HearReport
<1>4. CASE f.kind = "sync"
  <2>1. PackOK([t EXCEPT !.delay = 0, !.my = 0, !.heard = {}])
    BY <1>2, FS_EmptySet, Ranges DEF PackOK, State
  <2>2. QED
    BY <1>4, <2>1 DEF BroadcastMessage, t
<1>5. CASE f.kind = "crc"
  <2>1. f.crc \in Nat
    BY <1>5 DEF Frames, Sync, Announce, Report
  <2>2. PackOK(Remember(t, f.crc)) /\ PackOK(HearOwn(t, f.crc))
    BY <1>2, <2>1, RememberOK, HearOwnOK
  <2>3. PackOK([t EXCEPT !.mark = 1, !.delay = 0])
    BY <1>2, Ranges DEF PackOK, State
  <2>4. PackOK(HearCrc(p, t, f.crc))
    BY <1>2, <2>2, <2>3 DEF HearCrc
  <2>5. QED
    BY <1>5, <2>4 DEF BroadcastMessage, t
<1>6. QED
  BY <1>3, <1>4, <1>5 DEF Frames, Sync, Announce, Report

(* The rank is a number: only finitely many check sums were heard.         *)
LEMMA PassOK ==
    ASSUME NEW p \in Packs, NEW s, PackOK(s)
    PROVE  PackOK(Pass(p, s))
<1>1. CASE Announces(s)
  <2>1. s.delay + 1 \in Delays
    BY <1>1, TimesAssumption DEF Announces, PackOK, State, Delays
  <2> DEFINE w == [s EXCEPT !.my = 0,
                            !.mark = IF @ < Announcing THEN @ + 1 ELSE @]
  <2>2. PackOK(w) /\ w.delay = s.delay
    <3>1. (IF s.mark < Announcing THEN s.mark + 1 ELSE s.mark) \in Marks
      BY Ranges DEF PackOK, State
    <3>2. QED
      BY <3>1 DEF PackOK, State
  <2> HIDE DEF w
  <2>3. /\ PackOK([w EXCEPT !.delay = @ + 1])
        /\ PackOK([w EXCEPT !.delay = 0, !.heard = {}])
    BY <2>1, <2>2, FS_EmptySet, Ranges DEF PackOK, State
  <2>4. QED
    BY <1>1, <2>3 DEF Pass, AnnouncePass, w
<1>2. CASE ~Announces(s) /\ Negotiating(s)
           /\ s.delay + 1 > AnnounceTime + SilentTime
  <2> DEFINE a == 1 + Cardinality(Smaller(p, s))
  <2>1. a \in Nat
    <3>1. IsFiniteSet(Smaller(p, s))
      BY FS_Subset DEF Smaller, PackOK
    <3>2. QED
      BY <3>1, FS_CardinalityType
  <2> HIDE DEF a
  <2> DEFINE v == [s EXCEPT !.my = a, !.mark = 0, !.delay = 0]
  <2>2. v \in State /\ v.mark = 0 /\ v.heard = s.heard
    BY <2>1, Ranges DEF PackOK, State
  <2> HIDE DEF v
  <2>3. PackOK(v)
    BY <2>2 DEF PackOK
  <2>4. QED
    BY <1>2, <2>3 DEF Pass, MyMtCanAddrSet, a, v
<1>3. CASE /\ ~Announces(s)
           /\ ~(Negotiating(s) /\ s.delay + 1 > AnnounceTime + SilentTime)
  <2> DEFINE d == IF Reports(s) THEN 0 ELSE s.delay + 1
  <2>1. d \in Delays
    BY <1>3, TimesAssumption DEF Reports, PackOK, State, Delays
  <2>2. PackOK([s EXCEPT !.delay = d])
    BY <2>1 DEF PackOK, State
  <2>3. QED
    BY <1>3, <2>2 DEF Pass
<1>4. QED
  BY <1>1, <1>2, <1>3

(* The frames under way carry numbers.                                     *)
BusOK == \A m \in bus : m.to \in Packs /\ m.frame \in Frames

IInv == TypeOK /\ BusOK

(* A pack that is powered on or off starts from its initial values.        *)
LEMMA PoweredOnOK == PackOK(PoweredOn)
<1>1. 1 \in 1 .. Groups /\ 0 \in 0 .. CounterSpan - 1
  BY PacksAssumption, TimesAssumption
<1>2. QED
  BY <1>1, FS_EmptySet, Ranges DEF PackOK, PoweredOn, State

LEMMA InitIInv == Init => IInv
<1> SUFFICES ASSUME Init PROVE IInv
  OBVIOUS
<1>1. \A r \in Packs : PackOK(st[r])
  BY PoweredOnOK DEF Init
<1>2. st \in [Packs -> State]
  BY PoweredOnOK DEF Init, PackOK
<1>3. QED
  BY <1>1, <1>2 DEF Init, IInv, TypeOK, BusOK, PackOK

(* One pass of a pack.                                                     *)
LEMMA MTCanCtrlOK ==
    ASSUME NEW p \in Packs, NEW drop, IInv, on \subseteq Packs,
           MTCanCtrl(p, drop)
    PROVE  /\ st' \in [Packs -> State] /\ BusOK'
           /\ \A r \in Packs : PackOK(st'[r])
<1> DEFINE s    == IF drop = "error" THEN Dropped(st[p]) ELSE st[p]
           runs == s.silent = "no"
           t    == IF runs THEN Pass(p, s) ELSE s
           u    == IF drop = "key" THEN [Dropped(t) EXCEPT !.silent = "no"] ELSE t
           sent == IF runs THEN Sent(p, s) ELSE {}
<1>1. \A r \in Packs : PackOK(st[r])
  BY DEF IInv, TypeOK, PackOK
<1>2. PackOK(s)
  <2>1. PackOK(Dropped(st[p]))
    BY <1>1, Ranges DEF PackOK, State, Dropped
  <2>2. QED
    BY <1>1, <2>1
<1>3. PackOK(t)
  BY <1>2, PassOK
<1>4. PackOK(u)
  <2> HIDE DEF t
  <2>1. PackOK([Dropped(t) EXCEPT !.silent = "no"])
    BY <1>3, Ranges DEF PackOK, State, Dropped
  <2>2. QED
    BY <1>3, <2>1
<1>5. sent \subseteq Frames
  BY <1>2, PacksAssumption DEF Sent, Frames, PackOK, State
<1>6. /\ bus' = bus \cup [to : on \ {p}, from : {p}, frame : sent]
      /\ \E q \in Silence(u, runs /\ Reports(s)) :
            st' = [st EXCEPT ![p] = [u EXCEPT !.silent = q]]
  BY DEF MTCanCtrl
<1> HIDE DEF s, runs, t, u, sent
<1>7. BusOK'
  BY <1>5, <1>6 DEF IInv, BusOK
<1>8. PICK q \in {"no", "yes"} : st' = [st EXCEPT ![p] = [u EXCEPT !.silent = q]]
  BY <1>6 DEF Silence
<1>9. PackOK([u EXCEPT !.silent = q])
  BY <1>4 DEF PackOK, State
<1>10. QED
  BY <1>1, <1>7, <1>8, <1>9 DEF IInv, TypeOK, PackOK

LEMMA NextIInv == IInv /\ [Next]_vars => IInv'
<1> SUFFICES ASSUME IInv, [Next]_vars PROVE IInv'
  OBVIOUS
<1>0. \A r \in Packs : PackOK(st[r])
  BY DEF IInv, TypeOK, PackOK
<1>1. ASSUME NEW p \in Packs, Tick(p) PROVE IInv'
  <2>1. PICK drop \in {"none", "error", "key"} :
           /\ MTCanCtrl(p, drop)
           /\ env' = IF drop = "none" THEN env ELSE "faulty"
    BY <1>1 DEF Tick, Drops
  <2>2. /\ st' \in [Packs -> State] /\ BusOK'
        /\ \A r \in Packs : PackOK(st'[r])
    BY <2>1, MTCanCtrlOK DEF IInv, TypeOK
  <2>3. on' = on /\ todo' \subseteq Packs /\ env' \in {"clean", "faulty", "calm"}
    BY <1>1, <2>1 DEF Tick, IInv, TypeOK
  <2>4. QED
    BY <2>2, <2>3 DEF IInv, TypeOK, PackOK
<1>2. ASSUME NEW p \in Packs, Receive(p) PROVE IInv'
  <2>1. PICK m \in bus : /\ bus' = bus \ {m}
                         /\ st' = [st EXCEPT ![p] = BroadcastMessage(p, @, m.frame)]
    BY <1>2 DEF Receive
  <2>2. PackOK(BroadcastMessage(p, st[p], m.frame))
    BY <1>0, BroadcastMessageOK DEF IInv, BusOK
  <2>3. \A r \in Packs : PackOK(st'[r])
    BY <1>0, <2>1, <2>2 DEF IInv, TypeOK
  <2>4. st' \in [Packs -> State]
    BY <2>1, <2>2 DEF IInv, TypeOK, PackOK
  <2>5. QED
    BY <1>2, <2>1, <2>3, <2>4 DEF Receive, IInv, TypeOK, BusOK, PackOK
<1>3. ASSUME NEW p \in Packs, PowerOn(p) \/ PowerOff(p) PROVE IInv'
  <2>1. st' = [st EXCEPT ![p] = PoweredOn]
    BY <1>3 DEF PowerOn, PowerOff
  <2>2. \A r \in Packs : PackOK(st'[r])
    BY <1>0, <2>1, PoweredOnOK DEF IInv, TypeOK
  <2>3. st' \in [Packs -> State]
    BY <2>1, PoweredOnOK DEF IInv, TypeOK, PackOK
  <2>4. bus' \subseteq bus /\ on' \subseteq Packs /\ todo' \subseteq Packs /\ env' = env
    BY <1>3 DEF PowerOn, PowerOff, IInv, TypeOK
  <2>5. QED
    BY <2>2, <2>3, <2>4 DEF IInv, TypeOK, BusOK, PackOK
<1>4. CASE Lose
  BY <1>4 DEF Lose, IInv, TypeOK, BusOK
<1>5. CASE CalmDown
  BY <1>5 DEF CalmDown, IInv, TypeOK, BusOK
<1>6. CASE UNCHANGED vars
  BY <1>6 DEF vars, IInv, TypeOK, BusOK
<1>7. QED
  BY <1>1, <1>2, <1>3, <1>4, <1>5, <1>6 DEF Next

(* Every variable keeps its type, and a pack that negotiates never holds   *)
(* an address: no report goes out under one that is being replaced.        *)
THEOREM TypeCorrect == Spec => []TypeOK
<1>1. IInv => TypeOK
  BY DEF IInv
<1>2. QED
  BY <1>1, InitIInv, NextIInv, PTL DEF Spec

-----------------------------------------------------------------------------
(* Two packs never hold the same address.  The argument does not need the  *)
(* clocks: a pack that could take an address has announced its check sum   *)
(* since the other last forgot what it heard, and the other has heard it,  *)
(* is about to hear it, or is about to make the pack start again.          *)

(* The next announcement is a synchronising one.                           *)
Will(s) == s.my = 0 /\ s.mark < Announcing
(* The own check sum was announced since the pack last started again.      *)
Told(s) == s.my # 0 \/ (s.mark = Announcing /\ s.delay > 0)
Own(p)  == Crc[p][st[p].group]
UnderWay(p, q, f) == [to |-> q, from |-> p, frame |-> f] \in bus

SelfOK(p, s) ==
    /\ Will(s) => s.delay = 0
    /\ ~Will(s) => Crc[p][s.group] \notin s.heard
    /\ s.my # 0 => s.my = 1 + Cardinality(Smaller(p, s))

(* What q has heard, or will hear, of p.                                   *)
Known(p, q) ==
    Told(st[p]) => \/ Will(st[q]) \/ UnderWay(q, p, Sync)
                   \/ UnderWay(p, q, Announce(Own(p))) \/ Own(p) \in st[q].heard
Fresh(p, q) ==
    ~Will(st[p]) /\ ~UnderWay(p, q, Sync) => st[q].heard \subseteq {Own(p)}
InStep(p, q) ==
    /\ UnderWay(p, q, Sync) => ~Told(st[p])
    /\ \A c \in Nat : UnderWay(p, q, Announce(c)) =>
          st[p].my = 0 /\ (Will(st[p]) \/ c = Own(p))

Apart ==
    /\ \A p \in on : SelfOK(p, st[p])
    /\ \A p \in on : \A q \in on \ {p} : Known(p, q) /\ Fresh(p, q) /\ InStep(p, q)

(* A report carries an address; no pack hears itself, or when it is off.   *)
Wires ==
    \A m \in bus :
       /\ m = [to |-> m.to, from |-> m.from, frame |-> m.frame]
       /\ m.from \in Packs /\ m.to \in on \ {m.from}
       /\ m.frame \in {Sync} \cup {Announce(c) : c \in Nat}
                       \cup {Report(a) : a \in Nat \ {0}}

PairInv == IInv /\ Wires /\ (env = "clean" => Apart)

(* Which packs the frame kinds make start again, and what the others keep. *)
LEMMA HearPair ==
    ASSUME Negotiable, NEW p \in Packs, NEW s, PackOK(s), SelfOK(p, s),
           NEW f \in {Sync} \cup {Announce(c) : c \in Nat}
                      \cup {Report(a) : a \in Nat \ {0}},
           NEW t, t = BroadcastMessage(p, s, f)
    PROVE  /\ SelfOK(p, t)
           /\ ~Will(t) => ~Will(s) /\ t.group = s.group
           /\ Told(t) => Told(s)
           /\ s.my = 0 => t.my = 0
           /\ f.kind = "sync" => ~Told(t) /\ t.heard = {}
           /\ f.kind = "crc" => /\ t.heard \subseteq s.heard \cup {f.crc}
                                /\ Will(t) \/ s.heard \cup {f.crc} \subseteq t.heard
           /\ f.kind = "report" => t.heard \subseteq s.heard /\ (Will(t) \/ t.heard = s.heard)
<1>0. /\ s.my \in Nat /\ s.mark \in Nat /\ s.delay \in Nat /\ s.group \in 1 .. Groups
      /\ s.mark > 0 => s.my = 0
      /\ Announcing \in Nat /\ Announcing > 1
      /\ \A w : Will(w) <=> w.my = 0 /\ w.mark < Announcing
  BY TimesAssumption DEF PackOK, State, Marks, Delays, Announcing, Negotiable, Will
<1>1. ASSUME f.kind = "report" PROVE
         \/ /\ t.my = s.my /\ t.mark = s.mark /\ t.delay = s.delay
            /\ t.heard = s.heard /\ t.group = s.group
         \/ /\ s.my # 0 /\ t.my = 0 /\ t.mark = 0 /\ t.delay = 0
            /\ t.heard = {} /\ t.group = s.group
  <2>1. t = HearReport(s, f.addr) /\ f.addr # 0
    BY <1>1 DEF BroadcastMessage, Sync, Announce, Report
  <2>2. CASE t = s
    BY <2>2
  <2>3. CASE t = HearClash(s) /\ s.my # 0
    <3> DEFINE v == [s EXCEPT !.clashes = (@ + 1) % CounterSpan]
    <3>1. /\ v.my = s.my /\ v.mark = s.mark /\ v.delay = s.delay
          /\ v.heard = s.heard /\ v.group = s.group
          /\ t = v \/ t = [v EXCEPT !.heard = {}, !.delay = 0, !.my = 0]
      BY <2>3 DEF PackOK, State, HearClash
    <3>2. s.mark = 0
      BY <1>0, <2>3
    <3>3. v \in State
      BY Ranges DEF PackOK, State
    <3> HIDE DEF v
    <3>4. QED
      BY <2>3, <3>1, <3>2, <3>3 DEF State
  <2>4. s.my = 0 => ~(s.my > MaxMt)
    BY TimesAssumption
  <2>5. QED
    BY <2>1, <2>2, <2>3, <2>4 DEF HearReport
<1>2. CASE f.kind = "report"
  <2>1. CASE /\ t.my = s.my /\ t.mark = s.mark /\ t.delay = s.delay
             /\ t.heard = s.heard /\ t.group = s.group
    BY <1>2, <2>1 DEF SelfOK, Told, Will, Smaller
  <2>2. CASE /\ s.my # 0 /\ t.my = 0 /\ t.mark = 0 /\ t.delay = 0
             /\ t.heard = {} /\ t.group = s.group
    <3>1. Will(t) /\ ~Told(t)
      BY <1>0, <2>2 DEF Told
    <3>2. QED
      BY <1>2, <2>2, <3>1 DEF SelfOK
  <2>3. QED
    BY <1>1, <1>2, <2>1, <2>2
<1> DEFINE u == Capped(Restarted(s))
<1>3. /\ u \in State /\ u.my = 0
      /\ s.mark # 0 => /\ u.mark = s.mark /\ u.heard = s.heard /\ u.group = s.group
                       /\ u.delay =< s.delay
      /\ s.mark = 0 => u.mark = 1 /\ u.heard = {} /\ u.delay = 0
  <2>1. CASE s.mark = 0
    <3> DEFINE r == [s EXCEPT !.mark = 1, !.heard = {}, !.delay = 0, !.my = 0,
                              !.silent = IF @ = "yes" THEN "waking" ELSE @]
    <3>1. /\ r \in State /\ r.my = 0 /\ r.mark = 1 /\ r.heard = {} /\ r.delay = 0
      BY Ranges DEF PackOK, State
    <3>2. Restarted(s) = r
      BY <2>1 DEF Restarted
    <3> HIDE DEF r
    <3>3. ~(r.delay > AnnounceTime)
      BY <3>1, TimesAssumption
    <3>4. u = [r EXCEPT !.delay = r.delay]
      BY <3>2, <3>3 DEF Capped
    <3>5. QED
      BY <2>1, <3>1, <3>4 DEF State
  <2>2. CASE s.mark # 0
    <3>1. s.my = 0
      BY <1>0, <2>2
    <3> DEFINE d == IF s.delay > AnnounceTime THEN AnnounceTime ELSE s.delay
    <3>2. u = [s EXCEPT !.delay = d]
      BY <2>2 DEF Restarted, Capped
    <3>3. d \in Delays /\ d =< s.delay
      BY Ranges, TimesAssumption DEF PackOK, State, Delays
    <3> HIDE DEF d
    <3>4. QED
      BY <2>2, <3>1, <3>2, <3>3 DEF PackOK, State
  <2>3. QED
    BY <2>1, <2>2
<1> HIDE DEF u
<1>4. /\ u.mark \in Nat /\ u.delay \in Nat
      /\ Will(u) => u.delay = 0
      /\ ~Will(u) => ~Will(s) /\ u.group = s.group /\ u.mark = s.mark
      /\ Told(u) => Told(s)
      /\ Will(u) \/ u.heard = s.heard
      /\ u.heard \subseteq s.heard
  <2>1. u.mark \in Nat /\ u.delay \in Nat
    BY <1>3 DEF State, Marks, Delays
  <2>2. CASE s.mark = 0
    BY <1>0, <1>3, <2>1, <2>2 DEF Told
  <2>3. CASE s.mark # 0
    BY <1>0, <1>3, <2>1, <2>3 DEF Told, SelfOK
  <2>4. QED
    BY <2>1, <2>2, <2>3
<1>5. CASE f.kind = "sync"
  <2>1. t = [u EXCEPT !.delay = 0, !.my = 0, !.heard = {}]
    BY <1>5 DEF BroadcastMessage, u
  <2>2. /\ t.my = 0 /\ t.delay = 0 /\ t.heard = {} /\ t.mark = u.mark
        /\ t.group = u.group
    BY <1>3, <2>1 DEF State
  <2>3. Will(t) <=> Will(u)
    BY <1>3, <2>2 DEF Will
  <2>4. QED
    BY <1>4, <1>5, <2>2, <2>3 DEF SelfOK, Told
<1>6. CASE f.kind = "crc"
  <2>1. t = HearCrc(p, u, f.crc) /\ f.crc \in Nat
    BY <1>6 DEF BroadcastMessage, u, Sync, Announce, Report
  <2>2. /\ t.my = 0
        /\ Will(t) => t.delay = 0
        /\ Told(t) => Told(u)
        /\ ~Will(t) => /\ ~Will(u) /\ t.group = u.group
                       /\ f.crc = Crc[p][u.group] => t.heard = u.heard
        /\ t.heard \subseteq u.heard \cup {f.crc}
        /\ Will(t) \/ u.heard \cup {f.crc} \subseteq t.heard
    <3>1. ASSUME NEW w \in State, w.my = 0, w.mark = u.mark, w.heard = u.heard,
                 Will(u) => w.delay = 0
          PROVE  /\ Remember(w, f.crc).my = 0 /\ Remember(w, f.crc).mark = u.mark
                 /\ Remember(w, f.crc).group = w.group
                 /\ Remember(w, f.crc).heard = u.heard \cup {f.crc}
                 /\ Remember(w, f.crc).delay \in {0, w.delay}
                 /\ Will(u) => Remember(w, f.crc).delay = 0
      <4>1. CASE f.crc \in w.heard
        BY <3>1, <4>1 DEF Remember
      <4>2. CASE f.crc \notin w.heard
        BY <3>1, <4>2 DEF Remember, State
      <4>3. QED
        BY <4>1, <4>2
    <3>2. CASE Cardinality(u.heard) < MaxHeard /\ f.crc # Crc[p][u.group]
      <4>1. t = Remember(u, f.crc)
        BY <2>1, <3>2 DEF HearCrc
      <4>2. /\ t.my = 0 /\ t.mark = u.mark /\ t.group = u.group
            /\ t.heard = u.heard \cup {f.crc} /\ t.delay \in {0, u.delay}
            /\ Will(u) => t.delay = 0
        BY <1>3, <1>4, <3>1, <4>1
      <4>3. Will(t) <=> Will(u)
        BY <1>3, <4>2 DEF Will
      <4>4. Told(t) => Told(u)
        BY <1>3, <1>4, <4>2 DEF Told
      <4>5. QED
        BY <3>2, <4>2, <4>3, <4>4
    <3>3. CASE Cardinality(u.heard) < MaxHeard /\ f.crc = Crc[p][u.group]
      <4> DEFINE w == [u EXCEPT !.group = (@ % Groups) + 1]
      <4>1. /\ w \in State /\ w.my = 0 /\ w.mark = u.mark /\ w.heard = u.heard
            /\ w.delay = u.delay
        BY <1>3, Ranges DEF State
      <4>2. t = IF u.mark < Announcing THEN Remember(w, f.crc)
                ELSE [w EXCEPT !.mark = 1, !.delay = 0]
        BY <2>1, <3>3 DEF HearCrc, HearOwn
      <4> HIDE DEF w
      <4>3. CASE u.mark < Announcing
        <5>1. /\ t.my = 0 /\ t.mark = u.mark /\ t.heard = u.heard \cup {f.crc}
              /\ Will(u) => t.delay = 0
          BY <1>4, <3>1, <4>1, <4>2, <4>3
        <5>2. Will(t) /\ Will(u) /\ ~Told(t)
          BY <1>0, <1>3, <1>4, <4>3, <5>1 DEF Will, Told
        <5>3. QED
          BY <5>1, <5>2
      <4>4. CASE ~(u.mark < Announcing)
        <5>1. t.my = 0 /\ t.mark = 1 /\ t.heard = u.heard /\ t.delay = 0
          BY <4>1, <4>2, <4>4 DEF State
        <5>2. Will(t) /\ ~Told(t)
          BY <1>0, <5>1 DEF Will, Told
        <5>3. QED
          BY <5>1, <5>2
      <4>5. QED
        BY <4>3, <4>4
    <3>4. CASE ~(Cardinality(u.heard) < MaxHeard) /\ f.crc \in u.heard
      <4>1. t = u
        BY <2>1, <3>4 DEF HearCrc
      <4>2. QED
        BY <1>3, <1>4, <3>4, <4>1
    <3>5. CASE ~(Cardinality(u.heard) < MaxHeard) /\ f.crc \notin u.heard
      <4>1. t = [u EXCEPT !.mark = 1, !.delay = 0]
        BY <2>1, <3>5 DEF HearCrc
      <4>2. t.my = 0 /\ t.mark = 1 /\ t.heard = u.heard /\ t.delay = 0
        BY <1>3, <4>1 DEF State
      <4>3. Will(t) /\ ~Told(t)
        BY <1>0, <4>2 DEF Will, Told
      <4>4. QED
        BY <4>2, <4>3
    <3>6. QED
      BY <3>2, <3>3, <3>4, <3>5
  <2>3. ~Will(t) => Crc[p][t.group] \notin t.heard
    BY <1>4, <2>2 DEF SelfOK
  <2>4. SelfOK(p, t)
    BY <2>2, <2>3 DEF SelfOK
  <2>5. QED
    BY <1>4, <1>6, <2>2, <2>4
<1>7. QED
  BY <1>2, <1>5, <1>6 DEF Sync, Announce, Report

(* What a pass announces, and that nothing that was heard is forgotten     *)
(* but with a synchronising announcement.                                  *)
LEMMA PassPair ==
    ASSUME Negotiable, NEW p \in Packs, NEW s, PackOK(s), SelfOK(p, s),
           NEW t, t = Pass(p, s)
    PROVE  /\ SelfOK(p, t) /\ t.group = s.group
           /\ Will(s) => Sent(p, s) = {Sync} /\ t.heard = {} /\ ~Told(t)
           /\ ~Will(s) => /\ ~Will(t) /\ t.heard = s.heard
                          /\ \/ Sent(p, s) = {}
                             \/ Sent(p, s) = {Report(s.my)} /\ s.my # 0
                             \/ Sent(p, s) = {Announce(Crc[p][s.group])} /\ t.my = 0
           /\ Told(t) => Told(s) \/ Sent(p, s) = {Announce(Crc[p][s.group])}
<1>0. /\ s \in State /\ s.my \in Nat /\ s.mark \in Nat /\ s.delay \in Nat
      /\ s.mark =< Announcing /\ (s.mark > 0 => s.my = 0)
      /\ AnnounceTime \in Nat /\ AnnounceTime > 1 /\ SilentTime \in Nat
      /\ Announcing \in Nat /\ Announcing > 1
      /\ \A w : Will(w) <=> w.my = 0 /\ w.mark < Announcing
  BY TimesAssumption DEF PackOK, State, Marks, Delays, Announcing, Negotiable, Will
<1>1. CASE Will(s)
  <2>1. s.my = 0 /\ s.mark < Announcing /\ s.delay = 0
    BY <1>0, <1>1 DEF SelfOK
  <2>2. Announces(s)
    BY <1>0, <2>1 DEF Announces, Negotiating
  <2> DEFINE w == [s EXCEPT !.my = 0, !.mark = IF @ < Announcing THEN @ + 1 ELSE @]
  <2>3. /\ w \in State /\ w.my = 0 /\ w.mark = s.mark + 1 /\ w.group = s.group
    <3>1. s.mark + 1 \in Marks
      BY <1>0, <2>1, Ranges DEF State
    <3>2. QED
      BY <1>0, <2>1, <3>1 DEF State
  <2>4. t = [w EXCEPT !.delay = 0, !.heard = {}]
    BY <1>0, <2>1, <2>2 DEF Pass, AnnouncePass
  <2> HIDE DEF w
  <2>5. t.my = 0 /\ t.mark = s.mark + 1 /\ t.delay = 0 /\ t.heard = {} /\ t.group = s.group
    BY <2>3, <2>4 DEF State
  <2>6. Sent(p, s) = {Sync}
    BY <1>0, <2>1, <2>2 DEF Sent
  <2>7. SelfOK(p, t) /\ ~Told(t)
    BY <2>5 DEF SelfOK, Told
  <2>8. QED
    BY <1>1, <2>5, <2>6, <2>7
<1>2. CASE ~Will(s) /\ s.my = 0
  <2>1. s.mark = Announcing /\ Negotiating(s) /\ ~Reports(s)
    BY <1>0, <1>2 DEF Reports, Negotiating
  <2>2. CASE Announces(s)
    <3> DEFINE w == [s EXCEPT !.my = 0, !.mark = IF @ < Announcing THEN @ + 1 ELSE @]
    <3>1. /\ w \in State /\ w.my = 0 /\ w.mark = s.mark /\ w.group = s.group
          /\ w.heard = s.heard /\ w.delay = s.delay
      <4>1. ~(s.mark < Announcing)
        BY <1>0, <2>1
      <4>2. w = [s EXCEPT !.my = 0, !.mark = s.mark]
        BY <4>1
      <4>3. QED
        BY <1>0, <4>2 DEF State
    <3>2. t = [w EXCEPT !.delay = @ + 1]
      BY <2>1, <2>2 DEF Pass, AnnouncePass
    <3> HIDE DEF w
    <3>3. t.my = 0 /\ t.mark = s.mark /\ t.heard = s.heard /\ t.group = s.group
      BY <3>1, <3>2 DEF State
    <3>4. Sent(p, s) = {Announce(Crc[p][s.group])}
      BY <2>1, <2>2 DEF Sent
    <3>5. ~Will(t)
      BY <1>0, <2>1, <3>3
    <3>6. QED
      BY <1>2, <3>3, <3>4, <3>5 DEF SelfOK
  <2>3. CASE ~Announces(s)
    <3>1. Sent(p, s) = {}
      BY <2>1, <2>3 DEF Sent
    <3>2. s.delay > 0
      BY <1>0, <2>1, <2>3 DEF Announces
    <3>3. Told(s)
      BY <2>1, <3>2 DEF Told
    <3>4. CASE s.delay + 1 > AnnounceTime + SilentTime
      <4> DEFINE a == 1 + Cardinality(Smaller(p, s))
      <4>1. a \in Nat /\ a # 0
        <5>1. Cardinality(Smaller(p, s)) \in Nat
          BY FS_Subset, FS_CardinalityType DEF Smaller, PackOK
        <5>2. QED
          BY <5>1
      <4> HIDE DEF a
      <4>2. t = [s EXCEPT !.my = a, !.mark = 0, !.delay = 0]
        BY <2>1, <2>3, <3>4 DEF Pass, MyMtCanAddrSet, a
      <4>3. t.my = a /\ t.mark = 0 /\ t.heard = s.heard /\ t.group = s.group
        BY <1>0, <4>2 DEF State
      <4>4. a = 1 + Cardinality(Smaller(p, t))
        BY <4>3 DEF a, Smaller
      <4>5. ~Will(t) /\ SelfOK(p, t)
        BY <1>2, <4>1, <4>3, <4>4 DEF Will, SelfOK
      <4>6. QED
        BY <1>2, <3>1, <3>3, <4>3, <4>5
    <3>5. CASE ~(s.delay + 1 > AnnounceTime + SilentTime)
      <4>1. t = [s EXCEPT !.delay = s.delay + 1]
        BY <2>1, <2>3, <3>5 DEF Pass
      <4>2. t.my = s.my /\ t.mark = s.mark /\ t.heard = s.heard /\ t.group = s.group
        BY <1>0, <4>1 DEF State
      <4>3. ~Will(t)
        BY <1>0, <2>1, <4>2
      <4>4. QED
        BY <1>2, <3>1, <3>3, <4>2, <4>3 DEF SelfOK
    <3>6. QED
      BY <3>4, <3>5
  <2>4. QED
    BY <2>2, <2>3
<1>3. CASE s.my # 0
  <2>1. s.mark = 0 /\ ~Negotiating(s) /\ ~Announces(s)
    BY <1>0, <1>3 DEF Negotiating, Announces
  <2>2. Sent(p, s) = {} \/ Sent(p, s) = {Report(s.my)}
    BY <2>1 DEF Sent
  <2>3. t = [s EXCEPT !.delay = IF Reports(s) THEN 0 ELSE s.delay + 1]
    BY <2>1 DEF Pass
  <2>4. t.my = s.my /\ t.mark = s.mark /\ t.heard = s.heard /\ t.group = s.group
    BY <1>0, <2>3 DEF State
  <2>5. ~Will(s) /\ ~Will(t) /\ Told(s)
    BY <1>3, <2>4 DEF Will, Told
  <2>6. SelfOK(p, t)
    BY <2>4, <2>5 DEF SelfOK, Smaller
  <2>7. QED
    BY <1>3, <2>2, <2>4, <2>5, <2>6
<1>4. QED
  BY <1>0, <1>1, <1>2, <1>3

(* One frame reaches p; o is the other pack.                               *)
LEMMA ReceivePair == ASSUME Negotiable, PairInv, NEW p \in Packs, Receive(p)
                     PROVE  Wires' /\ (env' = "clean" => Apart')
<1>1. PICK m \in bus : /\ m.to = p /\ bus' = bus \ {m}
                       /\ st' = [st EXCEPT ![p] = BroadcastMessage(p, @, m.frame)]
  BY DEF Receive
<1>2. on' = on /\ env' = env /\ p \in on
  BY <1>1 DEF Receive, PairInv, Wires
<1>3. Wires'
  BY <1>1, <1>2 DEF PairInv, Wires
<1>4. ASSUME env = "clean" PROVE Apart'
  <2> DEFINE s == st[p]
             t == st'[p]
             f == m.frame
  <2>1. /\ m.frame \in {Sync} \cup {Announce(c) : c \in Nat}
                         \cup {Report(a) : a \in Nat \ {0}}
        /\ m.from \in Packs \ {p} /\ m = [to |-> p, from |-> m.from, frame |-> f]
    BY <1>1 DEF PairInv, Wires
  <2>2. PackOK(s) /\ SelfOK(p, s)
    BY <1>2, <1>4 DEF PairInv, IInv, TypeOK, PackOK, Apart
  <2>3. /\ t = BroadcastMessage(p, s, f)
        /\ \A r \in Packs \ {p} : st'[r] = st[r]
    BY <1>1 DEF PairInv, IInv, TypeOK
  <2>4. /\ SelfOK(p, t)
        /\ ~Will(t) => ~Will(s) /\ t.group = s.group
        /\ Told(t) => Told(s)
        /\ s.my = 0 => t.my = 0
        /\ f.kind = "sync" => ~Told(t) /\ t.heard = {}
        /\ f.kind = "crc" => /\ t.heard \subseteq s.heard \cup {f.crc}
                             /\ Will(t) \/ s.heard \cup {f.crc} \subseteq t.heard
        /\ f.kind = "report" => t.heard \subseteq s.heard /\ (Will(t) \/ t.heard = s.heard)
    <3> HIDE DEF s, t
    <3>1. QED
      BY <2>1, <2>2, <2>3, HearPair
  <2> HIDE DEF s, t, f
  <2>5. ASSUME NEW o \in on \ {p}
        PROVE  /\ Known(o, p)' /\ Fresh(o, p)' /\ InStep(o, p)'
               /\ Known(p, o)' /\ Fresh(p, o)' /\ InStep(p, o)'
    <3>1. o \in Packs /\ m.from = o /\ m = [to |-> p, from |-> o, frame |-> f]
      BY <2>1 DEF PairInv, IInv, TypeOK, Negotiable
    <3>2. st'[o] = st[o] /\ st'[p] = t /\ st[p] = s
      BY <2>3, <3>1 DEF s, t
    <3>3. /\ \A g : UnderWay(o, p, g)' <=> UnderWay(o, p, g) /\ g # f
          /\ \A g : UnderWay(p, o, g)' <=> UnderWay(p, o, g)
          /\ UnderWay(o, p, f)
      BY <1>1, <3>1 DEF UnderWay
    <3>4. /\ Known(o, p) /\ Fresh(o, p) /\ InStep(o, p)
          /\ Known(p, o) /\ Fresh(p, o) /\ InStep(p, o)
      BY <1>2, <1>4 DEF PairInv, Apart
    <3>5. Own(o)' = Own(o) /\ (~Will(t) => Own(p)' = Own(p))
      BY <2>4, <3>2 DEF Own
    <3>6. Told(t) => ~Will(t)
      BY TimesAssumption DEF Told, Will, Announcing
    <3>7. \/ f = Sync /\ f.kind = "sync"
          \/ \E c \in Nat : f = Announce(c) /\ f.kind = "crc" /\ f.crc = c
          \/ f.kind = "report" /\ f # Sync /\ \A c \in Nat : f # Announce(c)
      BY <2>1 DEF f, Sync, Announce, Report
    <3>8. \A c \in Nat : Sync # Announce(c)
      BY DEF Sync, Announce
    <3>9. Known(o, p)'
      <4> SUFFICES ASSUME Told(st[o]), ~Will(t), ~UnderWay(p, o, Sync)
                   PROVE  UnderWay(o, p, Announce(Own(o)))' \/ Own(o) \in t.heard
        BY <3>2, <3>3, <3>5 DEF Known
      <4>1. ~UnderWay(o, p, Sync) /\ f # Sync
        BY <3>3, <3>4 DEF InStep
      <4>2. UnderWay(o, p, Announce(Own(o))) \/ Own(o) \in s.heard
        BY <2>4, <3>2, <3>4 DEF Known
      <4>3. CASE Own(o) \in s.heard
        BY <2>4, <3>7, <4>1, <4>3
      <4>4. CASE UnderWay(o, p, Announce(Own(o))) /\ f # Announce(Own(o))
        BY <1>1, <3>1, <3>5, <4>4 DEF UnderWay, Announce
      <4>5. CASE f = Announce(Own(o))
        <5>1. f.kind = "crc" /\ f.crc = Own(o)
          BY <4>5 DEF Announce
        <5>2. QED
          BY <2>4, <5>1
      <4>6. QED
        BY <4>2, <4>3, <4>4, <4>5
    <3>10. Fresh(o, p)'
      <4> SUFFICES ASSUME ~Will(st[o]), ~UnderWay(o, p, Sync)'
                   PROVE  t.heard \subseteq {Own(o)}
        BY <3>2, <3>5 DEF Fresh
      <4>1. CASE f = Sync
        BY <2>4, <3>7, <4>1 DEF Sync
      <4>2. CASE f # Sync
        <5>1. s.heard \subseteq {Own(o)}
          BY <3>2, <3>3, <3>4, <4>2 DEF Fresh
        <5>2. \A c \in Nat : f = Announce(c) => c = Own(o)
          BY <3>3, <3>4 DEF InStep
        <5>3. QED
          BY <2>4, <3>7, <4>2, <5>1, <5>2
      <4>3. QED
        BY <4>1, <4>2
    <3>11. InStep(o, p)'
      BY <3>2, <3>3, <3>4, <3>5 DEF InStep
    <3>12. Known(p, o)'
      <4> SUFFICES ASSUME Told(t)
                   PROVE  \/ Will(st[o]) \/ UnderWay(o, p, Sync)'
                          \/ UnderWay(p, o, Announce(Own(p)))' \/ Own(p)' \in st[o].heard
        BY <3>2 DEF Known
      <4>1. Own(p)' = Own(p) /\ Told(s) /\ f # Sync
        BY <2>4, <3>5, <3>6, <3>7 DEF Sync
      <4>2. \/ Will(st[o]) \/ UnderWay(o, p, Sync)
            \/ UnderWay(p, o, Announce(Own(p))) \/ Own(p) \in st[o].heard
        BY <3>2, <3>4, <4>1 DEF Known
      <4>3. QED
        BY <3>3, <4>1, <4>2
    <3>13. Fresh(p, o)'
      BY <2>4, <3>2, <3>3, <3>4, <3>5 DEF Fresh
    <3>14. InStep(p, o)'
      BY <2>4, <3>2, <3>3, <3>4, <3>5 DEF InStep
    <3>15. QED
      BY <3>9, <3>10, <3>11, <3>12, <3>13, <3>14
  <2>6. ASSUME NEW a \in on, NEW b \in on \ {a}
        PROVE  a = p \/ b = p
    BY DEF PairInv, IInv, TypeOK, Negotiable
  <2>7. \A a \in on : SelfOK(a, st'[a])
    BY <1>2, <1>4, <2>3, <2>4 DEF PairInv, IInv, TypeOK, Apart, t
  <2>8. QED
    BY <1>2, <2>5, <2>6, <2>7 DEF Apart
<1>5. QED
  BY <1>2, <1>3, <1>4

(* One pass of p; its frame of the pass before has arrived.                *)
LEMMA TickPair == ASSUME Negotiable, PairInv, NEW p \in Packs, Tick(p)
                  PROVE  Wires' /\ (env' = "clean" => Apart')
<1>1. PICK drop \in {"none", "error", "key"} :
         MTCanCtrl(p, drop) /\ env' = IF drop = "none" THEN env ELSE "faulty"
  BY DEF Tick, Drops
<1>2. on' = on /\ p \in on /\ \A o, g : ~UnderWay(p, o, g)
  BY DEF Tick, UnderWay
<1> DEFINE s    == IF drop = "error" THEN Dropped(st[p]) ELSE st[p]
           runs == s.silent = "no"
           t    == IF runs THEN Pass(p, s) ELSE s
           u    == IF drop = "key" THEN [Dropped(t) EXCEPT !.silent = "no"] ELSE t
           sent == IF runs THEN Sent(p, s) ELSE {}
<1>3. /\ bus' = bus \cup [to : on \ {p}, from : {p}, frame : sent]
      /\ \E q \in Silence(u, runs /\ Reports(s)) :
            st' = [st EXCEPT ![p] = [u EXCEPT !.silent = q]]
  BY <1>1 DEF MTCanCtrl
<1>4. PackOK(st[p])
  BY DEF PairInv, IInv, TypeOK, PackOK
<1>5. s.my \in Nat /\ s.group \in 1 .. Groups /\ Crc[p][s.group] \in Nat
  BY <1>4, PacksAssumption DEF PackOK, State, Dropped
<1>6. Wires'
  <2>1. sent \subseteq {Sync} \cup {Announce(c) : c \in Nat} \cup {Report(a) : a \in Nat \ {0}}
    BY <1>5 DEF Sent, Reports, Negotiating
  <2> HIDE DEF sent, s
  <2>2. QED
    BY <1>2, <1>3, <2>1 DEF PairInv, IInv, TypeOK, Wires
<1>7. ASSUME env' = "clean" PROVE Apart'
  <2>1. drop = "none" /\ env = "clean"
    BY <1>1, <1>7
  <2>2. s = st[p] /\ u = t /\ PackOK(s) /\ SelfOK(p, s)
    BY <1>2, <1>4, <2>1 DEF PairInv, Apart
  <2>3. /\ PackOK(t) /\ SelfOK(p, t) /\ t.group = s.group
        /\ ~runs => t = s /\ sent = {}
        /\ runs /\ Will(s) => sent = {Sync} /\ t.heard = {} /\ ~Told(t)
        /\ runs /\ ~Will(s) =>
              /\ ~Will(t) /\ t.heard = s.heard
              /\ \/ sent = {}
                 \/ sent = {Report(s.my)}
                 \/ sent = {Announce(Crc[p][s.group])} /\ t.my = 0
        /\ runs /\ Told(t) => Told(s) \/ sent = {Announce(Crc[p][s.group])}
    <3> HIDE DEF s
    <3>1. CASE runs
      <4>1. t = Pass(p, s) /\ sent = Sent(p, s)
        BY <3>1
      <4> HIDE DEF t, sent
      <4>2. QED
        BY <2>2, <3>1, <4>1, PassPair, PassOK
    <3>2. CASE ~runs
      BY <2>2, <3>2
    <3>3. QED
      BY <3>1, <3>2
  <2>4. PICK q : st' = [st EXCEPT ![p] = [t EXCEPT !.silent = q]]
    BY <1>3, <2>2
  <2> DEFINE v == st'[p]
  <2> HIDE DEF s, runs, t, u, sent
  <2>5. /\ v.my = t.my /\ v.mark = t.mark /\ v.delay = t.delay
        /\ v.heard = t.heard /\ v.group = t.group
        /\ \A r \in Packs \ {p} : st'[r] = st[r]
    BY <2>3, <2>4 DEF PairInv, IInv, TypeOK, PackOK, State
  <2> HIDE DEF v
  <2>6. (Will(v) <=> Will(t)) /\ (Told(v) <=> Told(t)) /\ SelfOK(p, v)
    BY <2>3, <2>5 DEF Will, Told, SelfOK, Smaller
  <2>7. ASSUME NEW o \in on \ {p}
        PROVE  /\ Known(o, p)' /\ Fresh(o, p)' /\ InStep(o, p)'
               /\ Known(p, o)' /\ Fresh(p, o)' /\ InStep(p, o)'
    <3>1. o \in Packs /\ st'[o] = st[o] /\ st'[p] = v /\ st[p] = s
      BY <2>2, <2>5 DEF PairInv, IInv, TypeOK, v
    <3>2. /\ \A g : UnderWay(p, o, g)' <=> g \in sent
          /\ \A g : UnderWay(o, p, g)' <=> UnderWay(o, p, g)
      BY <1>2, <1>3 DEF UnderWay
    <3>3. /\ Known(o, p) /\ Fresh(o, p) /\ InStep(o, p)
          /\ Known(p, o) /\ Fresh(p, o) /\ InStep(p, o)
      BY <1>2, <2>1 DEF PairInv, Apart
    <3>4. Own(o)' = Own(o) /\ Own(p)' = Own(p) /\ Own(p) = Crc[p][s.group]
      BY <2>3, <2>5, <3>1 DEF Own
    <3>5. /\ \A c \in Nat : Sync # Announce(c)
          /\ \A a \in Nat : Sync # Report(a)
          /\ \A a, c \in Nat : Announce(c) # Report(a)
          /\ \A c, d \in Nat : Announce(c) = Announce(d) => c = d
          /\ Crc[p][s.group] \in Nat /\ s.my \in Nat
      BY <1>5 DEF Sync, Announce, Report
    <3>6. Sync \in sent => runs /\ Will(s)
      BY <2>3, <3>5
    <3>7. \A c \in Nat : Announce(c) \in sent =>
             runs /\ ~Will(s) /\ c = Crc[p][s.group] /\ t.my = 0
      BY <2>3, <3>5
    <3>8. Known(o, p)'
      <4> SUFFICES ASSUME Told(st[o])
                   PROVE  \/ Will(v) \/ Sync \in sent
                          \/ UnderWay(o, p, Announce(Own(o))) \/ Own(o) \in v.heard
        BY <3>1, <3>2, <3>4 DEF Known
      <4>1. \/ Will(s) \/ UnderWay(o, p, Announce(Own(o))) \/ Own(o) \in s.heard
        BY <1>2, <3>1, <3>3 DEF Known
      <4>2. QED
        BY <2>3, <2>5, <2>6, <4>1
    <3>9. Fresh(o, p)'
      BY <2>3, <2>5, <3>1, <3>2, <3>3, <3>4 DEF Fresh
    <3>10. InStep(o, p)'
      BY <3>1, <3>2, <3>3, <3>4 DEF InStep
    <3>11. Known(p, o)'
      <4> SUFFICES ASSUME Told(v)
                   PROVE  \/ Will(st[o]) \/ UnderWay(o, p, Sync)
                          \/ Announce(Own(p)) \in sent \/ Own(p) \in st[o].heard
        BY <3>1, <3>2, <3>4 DEF Known
      <4>1. Told(s) \/ Announce(Own(p)) \in sent
        BY <2>3, <2>6, <3>4
      <4>2. QED
        BY <1>2, <3>1, <3>3, <4>1 DEF Known
    <3>12. Fresh(p, o)'
      <4> SUFFICES ASSUME ~Will(v), Sync \notin sent
                   PROVE  st[o].heard \subseteq {Own(p)}
        BY <3>1, <3>2, <3>4 DEF Fresh
      <4>1. ~Will(s)
        BY <2>3, <2>6
      <4>2. QED
        BY <1>2, <3>1, <3>3, <4>1 DEF Fresh
    <3>13. InStep(p, o)'
      BY <2>3, <2>5, <2>6, <3>1, <3>2, <3>4, <3>6, <3>7 DEF InStep
    <3>14. QED
      BY <3>8, <3>9, <3>10, <3>11, <3>12, <3>13
  <2>8. ASSUME NEW a \in on, NEW b \in on \ {a}
        PROVE  a = p \/ b = p
    BY DEF PairInv, IInv, TypeOK, Negotiable
  <2>9. \A a \in on : SelfOK(a, st'[a])
    BY <2>1, <2>5, <2>6 DEF PairInv, IInv, TypeOK, Apart, v
  <2>10. QED
    BY <1>2, <2>7, <2>8, <2>9 DEF Apart
<1>8. QED
  BY <1>6, <1>7

(* A pack that comes or goes leaves no frame for itself behind, and starts *)
(* with a synchronising announcement.                                      *)
LEMMA PowerPair == ASSUME Negotiable, PairInv, NEW p \in Packs, PowerOn(p) \/ PowerOff(p)
                   PROVE  Wires' /\ (env' = "clean" => Apart')
<1>1. Wires'
  BY DEF PairInv, Wires, PowerOn, PowerOff
<1>2. ASSUME env' = "clean", PowerOn(p) PROVE Apart'
  <2>1. /\ on' = on \cup {p} /\ bus' = bus /\ p \notin on /\ st'[p] = PoweredOn
        /\ \A r \in on : st'[r] = st[r]
    BY <1>2 DEF PowerOn, PairInv, IInv, TypeOK
  <2>2. /\ Will(PoweredOn) /\ ~Told(PoweredOn) /\ SelfOK(p, PoweredOn)
        /\ PoweredOn.my = 0 /\ PoweredOn.heard = {}
    BY TimesAssumption DEF PoweredOn, Will, Told, SelfOK, Announcing
  <2>3. Apart
    BY <1>2 DEF PowerOn, PairInv
  <2>4. \A o, g : ~UnderWay(o, p, g)
    BY <2>1 DEF UnderWay, PairInv, Wires
  <2>5. ASSUME NEW a \in on \cup {p}, NEW b \in (on \cup {p}) \ {a}
        PROVE  Known(a, b)' /\ Fresh(a, b)' /\ InStep(a, b)'
    <3>1. \A g : UnderWay(a, b, g)' <=> UnderWay(a, b, g)
      BY <2>1 DEF UnderWay
    <3>2. CASE a = p
      BY <2>1, <2>2, <3>2 DEF Known, Fresh, InStep
    <3>3. CASE b = p
      BY <2>1, <2>2, <2>4, <3>1, <3>3 DEF Known, Fresh, InStep
    <3>4. CASE a # p /\ b # p
      <4>1. st'[a] = st[a] /\ st'[b] = st[b] /\ Own(a)' = Own(a)
        BY <2>1, <3>4 DEF Own
      <4>2. QED
        BY <2>1, <2>3, <3>4, <4>1 DEF Apart, Known, Fresh, InStep, UnderWay
    <3>5. QED
      BY <3>2, <3>3, <3>4
  <2>6. \A a \in on \cup {p} : SelfOK(a, st'[a])
    BY <2>1, <2>2, <2>3 DEF Apart
  <2>7. QED
    BY <2>1, <2>5, <2>6 DEF Apart
<1>3. ASSUME env' = "clean", PowerOff(p) PROVE Apart'
  <2>1. /\ on' = on \ {p} /\ bus' = {m \in bus : m.to # p}
        /\ \A r \in on' : r \in on /\ st'[r] = st[r]
    BY <1>3 DEF PowerOff, PairInv, IInv, TypeOK
  <2>2. Apart
    BY <1>3 DEF PowerOff, PairInv
  <2>3. ASSUME NEW a \in on \ {p}, NEW b \in (on \ {p}) \ {a}
        PROVE  Known(a, b)' /\ Fresh(a, b)' /\ InStep(a, b)'
    <3>1. st'[a] = st[a] /\ st'[b] = st[b] /\ Own(a)' = Own(a)
      BY <2>1 DEF Own
    <3>2. /\ \A g : UnderWay(a, b, g)' <=> UnderWay(a, b, g)
          /\ \A g : UnderWay(b, a, g)' <=> UnderWay(b, a, g)
      BY <2>1 DEF UnderWay
    <3>3. Known(a, b) /\ Fresh(a, b) /\ InStep(a, b)
      BY <2>2 DEF Apart
    <3>4. QED
      BY <3>1, <3>2, <3>3 DEF Known, Fresh, InStep
  <2>4. QED
    BY <2>1, <2>2, <2>3 DEF Apart
<1>4. QED
  BY <1>1, <1>2, <1>3

LEMMA NextPair == Negotiable /\ PairInv /\ [Next]_vars => PairInv'
<1> SUFFICES ASSUME Negotiable, PairInv, [Next]_vars
             PROVE  Wires' /\ (env' = "clean" => Apart')
  BY NextIInv DEF PairInv
<1>1. ASSUME NEW p \in Packs, Tick(p) \/ Receive(p) \/ PowerOn(p) \/ PowerOff(p)
      PROVE  Wires' /\ (env' = "clean" => Apart')
  BY <1>1, TickPair, ReceivePair, PowerPair
<1>2. CASE Lose \/ CalmDown
  BY <1>2 DEF Lose, CalmDown, PairInv, Wires
<1>3. CASE UNCHANGED vars
  BY <1>3 DEF vars, PairInv, Wires, Apart, Known, Fresh, InStep, Own, UnderWay
<1>4. QED
  BY <1>1, <1>2, <1>3 DEF Next

LEMMA InitPair == Init => PairInv
  BY InitIInv DEF Init, PairInv, Wires, Apart

(* Two packs with an address have each heard the check sum of the other,   *)
(* and nothing else: their ranks are one and two.                          *)
LEMMA RanksDiffer == PairInv => NoClash
<1> SUFFICES ASSUME PairInv, env = "clean", NEW p \in on, NEW q \in on, p # q,
                    st[p].my # 0, st[q].my # 0
             PROVE  st[p].my # st[q].my
  BY DEF NoClash
<1>0. \A a \in on : Own(a) \in Nat
  <2> SUFFICES ASSUME NEW a \in on PROVE Own(a) \in Nat
    OBVIOUS
  <2>1. a \in Packs /\ st[a].group \in 1 .. Groups
    BY DEF PairInv, IInv, TypeOK, State
  <2>2. QED
    BY <2>1, PacksAssumption DEF Own
<1>1. ASSUME NEW a \in on, NEW b \in on \ {a}, st[a].my # 0, st[b].my # 0
      PROVE  st[b].heard = {Own(a)}
  <2>1. Told(st[a]) /\ Told(st[b]) /\ ~Will(st[a]) /\ ~Will(st[b])
    BY <1>1 DEF Told, Will
  <2>2. /\ Known(a, b) /\ Fresh(a, b) /\ InStep(a, b) /\ InStep(b, a)
    BY <1>1 DEF PairInv, Apart
  <2>3. ~UnderWay(a, b, Sync) /\ ~UnderWay(b, a, Sync) /\ ~UnderWay(a, b, Announce(Own(a)))
    BY <1>0, <1>1, <2>1, <2>2 DEF InStep
  <2>4. QED
    BY <2>1, <2>2, <2>3 DEF Known, Fresh
<1>2. st[q].heard = {Own(p)} /\ st[p].heard = {Own(q)}
  BY <1>1
<1>3. Own(p) # Own(q) /\ Own(p) \in Nat /\ Own(q) \in Nat
  <2>1. Own(p) \notin st[p].heard
    BY DEF PairInv, Apart, SelfOK, Will, Own
  <2>2. QED
    BY <1>0, <1>2, <2>1
<1>4. /\ st[p].my = 1 + Cardinality(Smaller(p, st[p]))
      /\ st[q].my = 1 + Cardinality(Smaller(q, st[q]))
  BY DEF PairInv, Apart, SelfOK
<1>5. Cardinality({Own(p)}) = 1 /\ Cardinality({Own(q)}) = 1
  BY FS_Singleton
<1>6. Cardinality({}) = 0
  BY FS_EmptySet
<1>7. CASE Own(p) < Own(q)
  <2>1. Smaller(p, st[p]) = {} /\ Smaller(q, st[q]) = {Own(p)}
    BY <1>2, <1>3, <1>7 DEF Smaller, Own
  <2>2. QED
    BY <1>4, <1>5, <1>6, <2>1
<1>8. CASE Own(q) < Own(p)
  <2>1. Smaller(q, st[q]) = {} /\ Smaller(p, st[p]) = {Own(q)}
    BY <1>2, <1>3, <1>8 DEF Smaller, Own
  <2>2. QED
    BY <1>4, <1>5, <1>6, <2>1
<1>9. QED
  BY <1>3, <1>7, <1>8

(* As long as no frame is lost and no pack drops its address, two packs    *)
(* never hold the same one, whatever their check sums, their clocks and    *)
(* the times of announcing, and whenever they start, leave or fall silent. *)
THEOREM AddressesDiffer == ASSUME Negotiable PROVE Spec => []NoClash
<1>1. Init => PairInv
  BY InitPair
<1>2. PairInv /\ [Next]_vars => PairInv'
  BY NextPair, Negotiable
<1>3. PairInv => NoClash
  BY RanksDiffer
<1>4. QED
  BY <1>1, <1>2, <1>3, PTL DEF Spec
=============================================================================
