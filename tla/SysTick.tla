------------------------------ MODULE SysTick ------------------------------
(***************************************************************************)
(* The time base of the firmware (Main.c).  The 1 ms interrupt increments  *)
(* SysTickTimer; TaskTickUpdate, at the top of every turn of the main      *)
(* loop, takes what has accumulated, adds it to the timers and raises the  *)
(* flags of the 10 ms tasks.  SysTickTimer is a volatile byte: each access *)
(* is one step of this module, and the interrupt can come between any two. *)
(***************************************************************************)
EXTENDS Integers

CONSTANTS
    Base,        \* TIMEBASE_LOOP: ticks per pass of the tasks
    Width,       \* number of values of a byte
    MaxBehind    \* bound: the loop never falls further behind than this

(* The loop comes round before a byte can overflow.                        *)
ASSUME TickAssumption ==
    /\ Base \in Nat \ {0} /\ Width \in Nat /\ MaxBehind \in Nat
    /\ MaxBehind + Base =< Width

VARIABLES
    turn,
    sysTickTimer,    \* SysTickTimer
    tickCnt,         \* TickCnt
    loaded,          \* SysTickTimer, as loaded for the subtraction
    taskTick1ms,     \* TaskTick1ms
    div10ms,         \* Div10ms of the two CAN timer callbacks
    tasksDue,        \* the Timer...Flag of the 10 ms tasks
    canDue,          \* TimerCan10msFlag
    behind           \* history: ms elapsed and not yet added to SocBaseTimer

counts   == <<taskTick1ms, div10ms>>
flags    == <<tasksDue, canDue>>
tickVars == <<turn, sysTickTimer, tickCnt, loaded, counts, flags, behind>>

TickInit ==
    /\ turn = "poll" /\ sysTickTimer = 0 /\ tickCnt = 0 /\ loaded = 0
    /\ taskTick1ms = 0 /\ div10ms = 0
    /\ tasksDue = FALSE /\ canDue = FALSE /\ behind = 0

(* The interrupt.  MaxBehind bounds how long the loop may stay away.       *)
SysTick_Handler ==
    /\ behind < MaxBehind
    /\ sysTickTimer' = (sysTickTimer + 1) % Width
    /\ behind' = behind + 1
    /\ UNCHANGED <<turn, tickCnt, loaded, counts, flags>>

Turn(from, to) == turn = from /\ turn' = to

Poll ==
    /\ Turn("poll", IF sysTickTimer = 0 THEN "tasks" ELSE "read")
    /\ UNCHANGED <<sysTickTimer, tickCnt, loaded, counts, flags, behind>>

ReadTimer ==
    /\ Turn("read", "load") /\ tickCnt' = sysTickTimer
    /\ UNCHANGED <<sysTickTimer, loaded, counts, flags, behind>>

(* SysTickTimer -= TickCnt: a load and a store.                            *)
LoadTimer ==
    /\ Turn("load", "store") /\ loaded' = sysTickTimer
    /\ UNCHANGED <<sysTickTimer, tickCnt, counts, flags, behind>>

Untaken == loaded                          \* mutant: nothing is subtracted
Left    == (loaded - tickCnt) % Width

StoreTimer ==
    /\ Turn("store", "count") /\ sysTickTimer' = Left
    /\ UNCHANGED <<tickCnt, loaded, counts, flags, behind>>

(* TaskTick1ms keeps the remainder; Div10ms gives up one period per call.  *)
NotReduced(n)  == n                        \* mutant: the periods stay in
Remainder(n)   == n % Base
DueAfter(n)    == n > Base                 \* mutant: > for >=
Due(n)         == n >= Base
AfterPeriod(d) == IF Due(d) THEN d - Base ELSE d

Count ==
    LET n == (taskTick1ms + tickCnt) % Width
        d == (div10ms + tickCnt) % Width
    IN  /\ Turn("count", "tasks")
        /\ taskTick1ms' = IF Due(n) THEN Remainder(n) ELSE n
        /\ tasksDue' = (tasksDue \/ Due(n))
        /\ div10ms' = AfterPeriod(d)
        /\ canDue' = (canDue \/ Due(d))
        /\ behind' = behind - tickCnt
        /\ UNCHANGED <<sysTickTimer, tickCnt, loaded>>

(* The rest of the turn: every task that is due runs and lowers its flag.  *)
Tasks ==
    /\ Turn("tasks", "poll")
    /\ tasksDue' = FALSE /\ canDue' = FALSE
    /\ UNCHANGED <<sysTickTimer, tickCnt, loaded, counts, behind>>

TaskTickUpdate == Poll \/ ReadTimer \/ LoadTimer \/ StoreTimer \/ Count

TickNext == SysTick_Handler \/ TaskTickUpdate \/ Tasks

(* The loop never stops.  Nothing is assumed of the interrupt.             *)
TickSpec == TickInit /\ [][TickNext]_tickVars /\ WF_tickVars(TaskTickUpdate \/ Tasks)

-----------------------------------------------------------------------------
TickTypeOK ==
    /\ turn \in {"poll", "read", "load", "store", "count", "tasks"}
    /\ sysTickTimer \in 0 .. Width - 1
    /\ tickCnt \in 0 .. Width - 1 /\ loaded \in 0 .. Width - 1
    /\ taskTick1ms \in 0 .. Base - 1 /\ div10ms \in 0 .. Width - 1
    /\ tasksDue \in BOOLEAN /\ canDue \in BOOLEAN
    /\ behind \in 0 .. MaxBehind

(* No millisecond is counted twice: what waits in SysTickTimer, and what   *)
(* TaskTickUpdate has taken out of it, really elapsed.                     *)
NeverAhead ==
    /\ turn \in {"poll", "tasks", "read"} => sysTickTimer =< behind
    /\ turn \in {"load", "store"} => tickCnt =< sysTickTimer /\ sysTickTimer =< behind
    /\ turn = "store" => tickCnt =< loaded /\ loaded =< sysTickTimer
    /\ turn = "count" => sysTickTimer + tickCnt =< behind

(* The 10 ms beat: when enough milliseconds wait, the tasks come to run in *)
(* this turn or the next.                                                  *)
BeatKept ==
    turn = "poll" /\ sysTickTimer + taskTick1ms >= Base ~> tasksDue /\ turn = "tasks"
=============================================================================
