----------------------------- MODULE ChgMosAble -----------------------------
(***************************************************************************)
(* ChgMosAbleUpdate: may the charge FET be on (ChgAble) although the pack  *)
(* must not be charged?  It is left on so that the pack can discharge      *)
(* through it, and taken off once charge current shows.  DisMosAble is the *)
(* other direction; the two differ in what starts and ends the lock, in    *)
(* the full pack on a charger, and in a second writer: the parallel        *)
(* control permits the charge FET of the highest pack from time to time    *)
(* (multiCan.c:1103), behind the back of the update.                       *)
(***************************************************************************)
EXTENDS Integers

CONSTANTS
    LockDelay,     \* 30: passes of current against the ban
    GrantDelay,    \* 50: passes the permission waits
    Span           \* 256: values of the u8 counter of the lock

(* ChgCurAvg above CHG_SLEEP_CUR; DisCurAvg below, at, or above            *)
(* DIS_UNLOAD_CUR.  One signed value, so never both.                       *)
Currents == {"charge", "small", "edge", "discharge"}

VARIABLES
    ok,         \* ChgErrCheck of this pass: charging is not banned
    cur,        \* the current of this pass
    full,       \* ChgOV or ChgFC with the charger plugged in
    regrant,    \* the parallel control permitted the FET in this pass
    able,       \* BatStatus.Bits.ChgAble
    grant,      \* delaychgable
    against,    \* chgcurlockdelay
    lock,       \* chgcurlock = 0x5a
    last,       \* lastchgable
    flow        \* history: passes of charge current into a banned pack whose
                \* FET was on

inputs  == <<ok, cur, full, regrant>>
statics == <<able, grant, against, lock, last>>
vars    == <<inputs, statics, flow>>

Init ==
    /\ ok = FALSE /\ cur = "small" /\ full = FALSE /\ regrant = FALSE
    /\ able = FALSE /\ grant = 0 /\ against = 0 /\ lock = FALSE /\ last = FALSE
    /\ flow = 0

(* Once past the delay the count of the permission is not used again until *)
(* it was reset; the count of the lock is, and wraps around.               *)
Count(n) == IF n > GrantDelay THEN n ELSE n + 1
Wrapped(n) == (n + 1) % Span

-----------------------------------------------------------------------------
(* The parts of the update, each from the state the part before left.      *)

LockWhileOff(s) ==                           \* mutant: counts while off only
    IF ok' THEN [s EXCEPT !.lock = FALSE, !.against = 0]
    ELSE IF cur' = "charge" /\ ~s.able
    THEN [s EXCEPT !.grant = 0, !.against = Wrapped(@), !.lock = @ \/ s.against > LockDelay]
    ELSE [s EXCEPT !.against = 0]
LockUpdate(s) ==
    IF ok' THEN [s EXCEPT !.lock = FALSE, !.against = 0]
    ELSE IF cur' = "charge"
    THEN [s EXCEPT !.grant = 0, !.against = Wrapped(@), !.lock = @ \/ s.against > LockDelay]
    ELSE [s EXCEPT !.against = 0]

FaultEdge(s) ==
    IF ~s.able THEN s
    ELSE IF ~ok' /\ s.last /\ cur' = "charge"
    THEN [s EXCEPT !.able = FALSE, !.grant = 0, !.lock = TRUE, !.last = FALSE]
    ELSE [s EXCEPT !.last = ok']

FullPack(s) ==
    IF full' /\ cur' \in {"charge", "small"}
    THEN [s EXCEPT !.able = FALSE, !.grant = 0] ELSE s

GrantHealthy(s) == ok' \/ ~s.lock            \* mutant: not when discharging
MayGrant(s) == cur' = "discharge" \/ ok' \/ ~s.lock

(* With the lock set the FET goes off at once; the 80 passes the code also *)
(* counts there (delaychgdisable) are never waited for.                    *)
Decide(s) ==
    IF ~s.able \/ ~s.lock
    THEN IF ~MayGrant(s) THEN [s EXCEPT !.grant = 0]
         ELSE [s EXCEPT !.grant = Count(@),
                        !.able = @ \/ s.grant > GrantDelay,
                        !.lock = @ /\ ~(s.grant > GrantDelay /\ cur' = "discharge")]
    ELSE [s EXCEPT !.grant = 0, !.able = ~(cur' \in {"charge", "small"} /\ ~ok')]

Statics == [able |-> able, grant |-> grant, against |-> against,
            lock |-> lock, last |-> last]

(* The parallel control permits what the update did not, to a pack banned  *)
(* from charging without a charger of its own.                             *)
MayRegrant(s) == ~s.able /\ ~ok' /\ ~full'

ChgMosAbleUpdate ==
    \E checked \in {FullPack(FaultEdge(LockUpdate(Statics)))} :
    \E s \in {Decide(checked)} :
        /\ regrant' => MayRegrant(s)
        /\ able' = (s.able \/ regrant')
        /\ lock' = (s.lock /\ ~regrant')
        /\ grant' = s.grant /\ against' = s.against /\ last' = s.last
        /\ flow' = IF able' /\ ~ok' /\ cur' = "charge" /\ ~regrant'
                   THEN flow + 1 ELSE 0

-----------------------------------------------------------------------------
(* Charge current flows into a banned pack through its FET for the passes  *)
(* of the lock at most, wherever the wrapped count stood when the parallel *)
(* control took the lock away.                                             *)
BannedChargeBounded == flow <= LockDelay + 1

(* The permission comes back to a pack that stays healthy or is being      *)
(* discharged: without its charge FET the current goes through the body    *)
(* diode.                                                                  *)
ChgGrants == <>[](ok \/ cur = "discharge") => <>[]able
=============================================================================
