------------------------------ MODULE MosAble -------------------------------
(***************************************************************************)
(* Both permissions of the pack, DsgAble and ChgAble, updated in every     *)
(* 10 ms pass from the same current and the same charger: ChgCtrl first,   *)
(* then DisCtrl.  The two compare the current with different limits, so    *)
(* the current has a class for every interval between the limits.          *)
(***************************************************************************)
EXTENDS DisMosAble

CONSTANTS LockDelay, GrantDelay, Span      \* see ChgMosAble

ASSUME SpanAssumption ==
    /\ LockDelay \in Nat /\ GrantDelay \in Nat
    /\ Span \in Nat /\ Span > LockDelay + 1

(* DIS_UNLOAD_CUR and CHG_SMALL_CUR are 500 mA, CHG_SLEEP_CUR and          *)
(* Dis_Sleep_Cur_V are smaller.                                            *)
Amperes == {"discharge", "unload", "leak", "none", "trickle", "chargeSmall", "charge"}

DisClass(a) == CASE a \in {"discharge", "unload", "leak"} -> "discharge"
                 [] a \in {"none", "trickle"}             -> "small"
                 [] a = "chargeSmall"                     -> "edge"
                 [] a = "charge"                          -> "charge"

ChgClass(a) == CASE a = "discharge"                       -> "discharge"
                 [] a = "unload"                          -> "edge"
                 [] a \in {"leak", "none"}                -> "small"
                 [] a \in {"trickle", "chargeSmall", "charge"} -> "charge"

VARIABLES chgCur, chgOk, full, regrant, chgAble, chgGrant, chgAgainst, chgLock,
          chgLast, flow

C == INSTANCE ChgMosAble
     WITH ok <- chgOk, cur <- chgCur, able <- chgAble, grant <- chgGrant,
          against <- chgAgainst, lock <- chgLock, last <- chgLast

both == <<vars, chgCur, chgOk, full, regrant, chgAble, chgGrant, chgAgainst,
          chgLock, chgLast, flow>>

BothInit == Init /\ C!Init

(* New measurements: a hardware fault bans both directions, the charger is *)
(* plugged in for a full pack and not for an under-voltage one.            *)
Measure ==
    /\ \E a \in Amperes : cur' = DisClass(a) /\ chgCur' = ChgClass(a)
    /\ ok' \in BOOLEAN /\ chgOk' \in BOOLEAN
    /\ uv' \in IF ok' THEN {FALSE} ELSE BOOLEAN
    /\ full' \in IF chgOk' \/ uv' THEN {FALSE} ELSE BOOLEAN
    /\ regrant' \in BOOLEAN

BothUpdate ==
    /\ Measure
    /\ C!ChgMosAbleUpdate
    /\ DisMosAbleUpdate
    /\ odd' = ~odd

BothSpec == BothInit /\ [][BothUpdate]_both /\ WF_both(BothUpdate)

-----------------------------------------------------------------------------
(* The properties of the charge side, in this composition: how long charge *)
(* current may flow into a banned pack, and who gets the permission back   *)
(* (see ChgMosAble).                                                       *)
BannedChargeBounded == C!BannedChargeBounded
ChgGrants           == C!ChgGrants
=============================================================================
