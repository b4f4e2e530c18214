----------------------------- MODULE RingQueue -----------------------------
(***************************************************************************)
(* The ring buffer of queue.c.  AndRxQueue is filled by the CAN receive    *)
(* interrupt while the main loop empties it (shared): the interrupt can    *)
(* come between any two memory accesses of queue_pop_front, which keeps it *)
(* out only around the decrement of size.  AndTxQueue is used by the main  *)
(* loop alone (~shared), from both ends.                                   *)
(*                                                                         *)
(* A message is copied byte by byte; two halves stand for its bytes, so    *)
(* that a message overwritten while it is copied would be seen.            *)
(***************************************************************************)
EXTENDS Integers, Sequences

CONSTANTS Messages, Capacity

ASSUME CapacityAssumption == Capacity \in Nat \ {0}

VARIABLES
    base,              \* the slots, a message in two halves each
    head, tail, size,
    irqOff,            \* the interrupts are disabled
    pc,                \* where the main loop is in queue_pop_front
    data,              \* the reader's copy, in two halves
    reg,               \* size, as loaded for the decrement
    handled,           \* the message the reader took last
    shared             \* AndRxQueue or AndTxQueue; never changes

ring   == <<base, head, tail, size>>
vars   == <<ring, irqOff, pc, data, reg, handled, shared>>

Slots == 0 .. Capacity - 1
PopSteps == {"idle", "copy", "copy2", "advance", "lock", "load", "store", "unlock"}

Init ==
    /\ \E m \in Messages :
          /\ base = [s \in Slots |-> <<m, m>>] /\ data = <<m, m>> /\ handled = m
    /\ head = 0 /\ tail = 0 /\ size = 0 /\ reg = 0
    /\ irqOff = FALSE /\ pc = "idle" /\ shared \in BOOLEAN

-----------------------------------------------------------------------------
(* Pushing.  A push is one step: the interrupt is not interrupted by the   *)
(* main loop, and the main loop's own queue has no other user.             *)
OverFull == size > Capacity                       \* mutant: off by one
Full     == size = Capacity

MayPush == ~irqOff /\ (shared \/ pc = "idle")

queue_push_back(m) ==
    /\ MayPush
    /\ ~Full
    /\ base' = [base EXCEPT ![tail] = <<m, m>>]
    /\ tail' = (tail + 1) % Capacity
    /\ size' = size + 1
    /\ UNCHANGED <<head, irqOff, pc, data, reg, handled, shared>>

BeforeClamped(i) == IF i = 0 THEN 0 ELSE i - 1     \* mutant: no wrap
Before(i) == (i + Capacity - 1) % Capacity

queue_push_front(m) ==
    LET h == Before(head)
    IN  /\ ~shared /\ MayPush
        /\ ~Full
        /\ base' = [base EXCEPT ![h] = <<m, m>>]
        /\ head' = h
        /\ size' = size + 1
        /\ UNCHANGED <<tail, irqOff, pc, data, reg, handled, shared>>

-----------------------------------------------------------------------------
(* queue_pop_front, one access to shared memory per step.                  *)
Step(from, to) == pc = from /\ pc' = to

PopUnchecked ==                                   \* mutant: pops from empty
    /\ Step("idle", "copy")
    /\ UNCHANGED <<ring, irqOff, data, reg, handled, shared>>
PopTest ==
    /\ Step("idle", "copy") /\ size # 0
    /\ UNCHANGED <<ring, irqOff, data, reg, handled, shared>>

PopCopy ==
    /\ \/ Step("copy", "copy2") /\ data' = [data EXCEPT ![1] = base[head][1]]
       \/ Step("copy2", "advance") /\ data' = [data EXCEPT ![2] = base[head][2]]
    /\ UNCHANGED <<ring, irqOff, reg, handled, shared>>

PopAdvance ==
    /\ Step("advance", "lock")
    /\ head' = (head + 1) % Capacity
    /\ UNCHANGED <<base, tail, size, irqOff, data, reg, handled, shared>>

LockNothing == irqOff' = FALSE                    \* mutant: no __disable_irq
DisableIrq  == irqOff' = TRUE

PopLock ==
    /\ Step("lock", "load") /\ DisableIrq
    /\ UNCHANGED <<ring, data, reg, handled, shared>>

(* size--, a load and a store; the pop returns the copy.                   *)
PopLoad ==
    /\ Step("load", "store") /\ reg' = size
    /\ UNCHANGED <<ring, irqOff, data, handled, shared>>

PopStore ==
    /\ Step("store", "unlock")
    /\ size' = reg - 1 /\ handled' = data[1]
    /\ UNCHANGED <<base, head, tail, irqOff, data, reg, shared>>

PopUnlock ==
    /\ Step("unlock", "idle") /\ irqOff' = FALSE
    /\ UNCHANGED <<ring, data, reg, handled, shared>>

queue_pop_front ==
    \/ PopTest \/ PopCopy \/ PopAdvance \/ PopLock
    \/ PopLoad \/ PopStore \/ PopUnlock

Next ==
    \/ \E m \in Messages : queue_push_back(m) \/ queue_push_front(m)
    \/ queue_pop_front

(* The main loop polls the queue in every turn and an interrupt returns.   *)
Spec == Init /\ [][Next]_vars /\ WF_vars(queue_pop_front)

-----------------------------------------------------------------------------
(* The indices stay in the buffer and size counts no slot twice.           *)
TypeOK ==
    /\ base \in [Slots -> Messages \X Messages]
    /\ head \in Slots /\ tail \in Slots
    /\ size \in 0 .. Capacity /\ reg \in 0 .. Capacity
    /\ irqOff \in BOOLEAN /\ pc \in PopSteps /\ shared \in BOOLEAN
    /\ data \in Messages \X Messages /\ handled \in Messages

(* Where the interrupt can strike, head, tail and size may disagree by the *)
(* one slot that queue_pop_front has left but not yet given back.          *)
LeftHead == IF pc \in {"lock", "load", "store"} THEN 1 ELSE 0
IndicesAgree == tail = (head + size - LeftHead) % Capacity

(* What is in the queue, from the slot of the oldest message on.           *)
Oldest == (head + Capacity - LeftHead) % Capacity
Items  == [i \in 1 .. size |-> base[(Oldest + i - 1) % Capacity][1]]

(* Both halves of the copy are of one message: no message is overwritten   *)
(* while queue_pop_front copies it.                                        *)
NoTear == pc \in {"advance", "lock", "load", "store", "unlock"} => data[1] = data[2]

(* The ring buffer, with the interrupt in it, is a bounded queue: nothing  *)
(* accepted is lost, doubled or reordered, and all of it is handled.       *)
Promise == INSTANCE Fifo WITH items <- Items
RefinesFifo == Promise!Spec
=============================================================================
