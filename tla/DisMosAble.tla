----------------------------- MODULE DisMosAble -----------------------------
(***************************************************************************)
(* DisMosAbleUpdate: may the discharge FET be on (DsgAble) although the    *)
(* pack is not in the discharge state?  A FET that is off still conducts   *)
(* through its body diode, so a pack that must not discharge keeps the FET *)
(* on while charge current flows, and takes it off when current flows the  *)
(* other way.  The update runs once per 10 ms pass; it remembers what it   *)
(* saw in three u8 counters, a lock and the verdict of an earlier pass.    *)
(***************************************************************************)
EXTENDS Integers

CONSTANT Delay      \* 30: passes a condition must last

ASSUME DelayAssumption == Delay \in Nat \ {0}

(* The pack current: DisCurAvg above the sleep current, ChgCurAvg below,   *)
(* at, or above CHG_SMALL_CUR.  One signed value, so never both.           *)
Currents == {"discharge", "small", "edge", "charge"}

VARIABLES
    ok,        \* DisErrCheck of this pass: discharging is not banned
    cur,       \* the current of this pass
    uv,        \* under-voltage with no charger plugged in
    able,      \* BatStatus.Bits.DsgAble
    grant,     \* delaydisable
    revoke,    \* delaydisdisable
    against,   \* discurlockdelay
    lock,      \* discurlock: 0xFF "init", 0 "off", 0x5a "on"
    last,      \* lastdisable: 0xFF "unknown"
    odd        \* parity of the pass: a pass that changes nothing is a step

vars == <<ok, cur, uv, able, grant, revoke, against, lock, last, odd>>

Init ==
    /\ ok = FALSE /\ cur = "small" /\ uv = FALSE
    /\ able = FALSE /\ grant = 0 /\ revoke = 0 /\ against = 0
    /\ lock = "init" /\ last = "unknown" /\ odd = FALSE

(* "count++ > Delay" stays true once reached: where the count could wrap   *)
(* around, its value is not used.                                          *)
CountOn(n) == n + 1                          \* mutant: never stops
Count(n) == IF n > Delay THEN n ELSE n + 1
Due(n)   == n > Delay

-----------------------------------------------------------------------------
(* The four parts of the update, each from the state the part before left. *)

(* Current flowing out of a banned pack, for longer than the delay, locks. *)
LockUpdate(s) ==
    IF ok' THEN [s EXCEPT !.lock = "off", !.against = 0]
    ELSE IF cur' = "discharge"
    THEN [s EXCEPT !.grant = 0, !.against = Count(@),
                   !.lock = IF Due(s.against) THEN "on" ELSE @]
    ELSE [s EXCEPT !.against = 0]

(* From able to banned.  The verdict is remembered only while able.        *)
FaultEdge(s) ==
    IF ~s.able THEN s
    ELSE IF ~ok' /\ s.last = "ok"
    THEN [s EXCEPT !.able = FALSE, !.grant = 0, !.lock = "on", !.last = "banned"]
    ELSE [s EXCEPT !.last = IF ok' THEN "ok" ELSE "banned"]

WhileDischarging(s) ==                       \* mutant: only while discharging
    IF uv' /\ cur' = "discharge"
    THEN [s EXCEPT !.able = FALSE, !.grant = 0] ELSE s
UnderVoltage(s) ==
    IF uv' /\ cur' \in {"discharge", "small"}
    THEN [s EXCEPT !.able = FALSE, !.grant = 0] ELSE s

GrantAtEdge(s)   == cur' \in {"edge", "charge"} \/ ok' \/ s.lock = "off"
GrantCharging(s) == cur' = "charge"          \* mutants: >= for >; too strict
MayGrant(s)  == cur' = "charge" \/ ok' \/ s.lock = "off"
RevokeSmall  == cur' = "small" /\ ~ok'       \* mutant: < not <=
MustRevoke   == cur' \in {"discharge", "small"} /\ ~ok'

Decide(s) ==
    IF ~s.able \/ s.lock = "off"
    THEN IF ~MayGrant(s) THEN [s EXCEPT !.revoke = 0, !.grant = 0]
         ELSE [s EXCEPT !.revoke = 0, !.grant = Count(@),
                        !.able = @ \/ Due(s.grant),
                        !.lock = IF Due(s.grant) /\ cur' = "charge" THEN "off" ELSE @]
    ELSE IF ~MustRevoke THEN [s EXCEPT !.grant = 0, !.revoke = 0]
         ELSE [s EXCEPT !.grant = 0, !.revoke = Count(@),
                        !.able = ~(Due(s.revoke) \/ s.lock # "off")]

Statics == [able |-> able, grant |-> grant, revoke |-> revoke,
            against |-> against, lock |-> lock, last |-> last]

DisMosAbleUpdate ==
    \E s \in {Decide(UnderVoltage(FaultEdge(LockUpdate(Statics))))} :
        /\ able' = s.able /\ grant' = s.grant /\ revoke' = s.revoke
        /\ against' = s.against /\ lock' = s.lock /\ last' = s.last

(* One pass: new measurements, then the update.  Under-voltage is one of   *)
(* the reasons of a ban.                                                   *)
Next ==
    /\ ok' \in BOOLEAN /\ cur' \in Currents
    /\ uv' \in IF ok' THEN {FALSE} ELSE BOOLEAN
    /\ DisMosAbleUpdate
    /\ odd' = ~odd

Spec == Init /\ [][Next]_vars

(* The main loop never stops.                                              *)
FairSpec == Spec /\ WF_vars(Next)

-----------------------------------------------------------------------------
(* Every variable has the type its C declaration gives it; the counters     *)
(* stop one above the delay.                                               *)
TypeOK ==
    /\ ok \in BOOLEAN /\ cur \in Currents /\ uv \in BOOLEAN
    /\ able \in BOOLEAN
    /\ grant \in 0 .. Delay + 1 /\ revoke \in 0 .. Delay + 1
    /\ against \in 0 .. Delay + 1
    /\ lock \in {"init", "off", "on"} /\ last \in {"unknown", "ok", "banned"}
    /\ odd \in BOOLEAN

(* The lock: once current has flowed out of a banned pack, the permission  *)
(* does not come back while the ban lasts and no charge current flows.     *)
LockHolds == [][lock = "on" /\ ~able /\ ~ok' /\ cur' # "charge" => ~able']_vars

(* Under-voltage without a charger takes the permission in the same pass,  *)
(* whatever the lock and the counters hold.                                *)
UnderVoltageRevokes ==
    [][uv' /\ cur' \in {"discharge", "small"} => ~able']_vars

(* A banned pack that keeps discharging loses the permission for good, and *)
(* a pack that stays healthy gets it.                                      *)
DischargeRevokes == <>[](~ok /\ cur = "discharge") => <>[]~able
HealthyGrants    == <>[]ok => <>[]able
=============================================================================
