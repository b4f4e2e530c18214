-------------------------- MODULE InterruptProofs --------------------------
(***************************************************************************)
(* Theorems about what the interrupts share with the main loop, with the   *)
(* interrupt between any two accesses.  RingQueue, for every capacity and  *)
(* every message: the indices agree, size never leaves 0 .. Capacity, no   *)
(* copy is torn, and the ring is a bounded queue.  SysTick, for every      *)
(* period and width: no millisecond is counted twice.                      *)
(***************************************************************************)
EXTENDS RingQueue, SysTick, TLAPS

USE CapacityAssumption

(* What the pop relies on at each of its steps.                            *)
PopInv ==
    /\ pc \in {"copy", "copy2", "advance", "lock", "load", "store"} => size > 0
    /\ pc \in {"load", "store"} => irqOff
    /\ pc = "store" => reg = size

(* A slot holds one message, and so does the copy, as far as it got.       *)
WholeInv ==
    /\ \A s \in Slots : base[s][1] = base[s][2]
    /\ pc = "copy2" => data[1] = base[head][1]

RInv == TypeOK /\ IndicesAgree /\ PopInv /\ WholeInv /\ NoTear

(* The remainder of a sum of an index and at most a capacity.              *)
LEMMA Wrap ==
    ASSUME NEW a \in Nat, a < 2 * Capacity
    PROVE  /\ a % Capacity = (IF a < Capacity THEN a ELSE a - Capacity)
           /\ a % Capacity \in Slots
  BY DEF Slots

LEMMA WrapUp ==
    ASSUME NEW h \in Slots
    PROVE  (h + 1) % Capacity = (IF h + 1 = Capacity THEN 0 ELSE h + 1)
  <1>1. h + 1 \in Nat /\ h + 1 < 2 * Capacity
    BY DEF Slots
  <1> QED BY <1>1, Wrap DEF Slots

LEMMA WrapDown ==
    ASSUME NEW h \in Slots
    PROVE  Before(h) = IF h = 0 THEN Capacity - 1 ELSE h - 1
  <1> DEFINE a == h + Capacity - 1
  <1>1. a \in Nat /\ a < 2 * Capacity /\ (a < Capacity <=> h = 0)
        /\ a - Capacity = h - 1 /\ (h = 0 => a = Capacity - 1)
    BY DEF Slots
  <1>2. Before(h) = a % Capacity
    BY DEF Before
  <1> HIDE DEF a
  <1>3. a % Capacity = IF a < Capacity THEN a ELSE a - Capacity
    BY <1>1, Wrap
  <1> QED BY <1>1, <1>2, <1>3

LEMMA WrapSum ==
    ASSUME NEW h \in Slots, NEW n \in 0 .. Capacity
    PROVE  /\ h + n \in Nat /\ h + n < 2 * Capacity
           /\ (h + n) % Capacity = IF h + n < Capacity THEN h + n ELSE (h + n) - Capacity
  <1> DEFINE a == h + n
  <1>1. a \in Nat /\ a < 2 * Capacity
    <2>1. h \in Int /\ n \in Int /\ 0 <= h /\ h < Capacity /\ 0 <= n /\ n <= Capacity
      BY DEF Slots
    <2> QED BY <2>1
  <1> HIDE DEF a
  <1>2. a % Capacity = IF a < Capacity THEN a ELSE a - Capacity
    BY <1>1, Wrap
  <1>3. h + n \in Nat /\ h + n < 2 * Capacity
    BY <1>1 DEF a
  <1>4. (h + n) % Capacity = IF h + n < Capacity THEN h + n ELSE (h + n) - Capacity
    BY <1>2 DEF a
  <1> QED BY <1>3, <1>4

(* The end of the queue does not move when its front does.                 *)
LEMMA EndFromNext ==
    ASSUME NEW h \in Slots, NEW n \in 1 .. Capacity,
           NEW k \in Slots, k = IF h + 1 = Capacity THEN 0 ELSE h + 1
    PROVE  (k + n - 1) % Capacity = (h + n) % Capacity
  <1> DEFINE a == k + n - 1
  <1>1. a \in Nat /\ a < 2 * Capacity /\ n \in 0 .. Capacity
    BY DEF Slots
  <1>2. (h + n) % Capacity = IF h + n < Capacity THEN h + n ELSE (h + n) - Capacity
    BY <1>1, WrapSum
  <1> HIDE DEF a
  <1>3. a % Capacity = IF a < Capacity THEN a ELSE a - Capacity
    BY <1>1, Wrap
  <1>4. (k + n - 1) % Capacity = IF a < Capacity THEN a ELSE a - Capacity
    BY <1>3, Zenon DEF a
  <1>5. (IF a < Capacity THEN a ELSE a - Capacity)
           = IF h + n < Capacity THEN h + n ELSE (h + n) - Capacity
    BY DEF Slots, a
  <1> QED BY <1>2, <1>4, <1>5, Zenon

LEMMA EndFromBefore ==
    ASSUME NEW h \in Slots, NEW n \in 0 .. Capacity - 1,
           NEW k \in Slots, k = IF h = 0 THEN Capacity - 1 ELSE h - 1
    PROVE  (k + n + 1) % Capacity = (h + n) % Capacity
  <1> DEFINE a == k + n + 1
  <1>1. a \in Nat /\ a < 2 * Capacity /\ n \in 0 .. Capacity
    BY DEF Slots
  <1>2. (h + n) % Capacity = IF h + n < Capacity THEN h + n ELSE (h + n) - Capacity
    BY <1>1, WrapSum
  <1> HIDE DEF a
  <1>3. a % Capacity = IF a < Capacity THEN a ELSE a - Capacity
    BY <1>1, Wrap
  <1>4. (k + n + 1) % Capacity = IF a < Capacity THEN a ELSE a - Capacity
    BY <1>3, Zenon DEF a
  <1>5. (IF a < Capacity THEN a ELSE a - Capacity)
           = IF h + n < Capacity THEN h + n ELSE (h + n) - Capacity
    BY DEF Slots, a
  <1> QED BY <1>2, <1>4, <1>5, Zenon

(* A queue neither empty nor full ends elsewhere than it begins.           *)
LEMMA EndIsApart ==
    ASSUME NEW h \in Slots, NEW n \in 1 .. Capacity - 1
    PROVE  (h + n) % Capacity # h
  <1>1. n \in 0 .. Capacity
    OBVIOUS
  <1>2. (h + n) % Capacity = IF h + n < Capacity THEN h + n ELSE (h + n) - Capacity
    BY <1>1, WrapSum
  <1> QED BY <1>2 DEF Slots

(* One more message: the end moves by one slot.                            *)
LEMMA EndOfOneMore ==
    ASSUME NEW x \in Nat, x + 1 < 2 * Capacity
    PROVE  ((x % Capacity) + 1) % Capacity = (x + 1) % Capacity
  <1>1. (x % Capacity) = IF x < Capacity THEN x ELSE x - Capacity
    BY Wrap
  <1>2. (x + 1) % Capacity = IF x + 1 < Capacity THEN x + 1 ELSE x + 1 - Capacity
    BY Wrap
  <1>3. x % Capacity \in Slots
    BY Wrap
  <1>4. ((x % Capacity) + 1) % Capacity
           = IF (x % Capacity) + 1 = Capacity THEN 0 ELSE (x % Capacity) + 1
    BY <1>3, WrapUp
  <1> QED BY <1>1, <1>2, <1>4

LEMMA InitRInv == Init => RInv
  <1> SUFFICES ASSUME Init PROVE RInv
    OBVIOUS
  <1>1. PICK m \in Messages : /\ base = [s \in Slots |-> <<m, m>>]
                              /\ data = <<m, m>> /\ handled = m
    BY DEF Init
  <1>2. /\ head \in Slots /\ tail \in Slots
        /\ size \in 0 .. Capacity /\ reg \in 0 .. Capacity
    BY DEF Init, Slots
  <1>3. TypeOK
    BY <1>1, <1>2 DEF Init, TypeOK, PopSteps
  <1>4. IndicesAgree
    BY Wrap DEF Init, IndicesAgree, LeftHead, Slots
  <1>5. PopInv /\ NoTear
    BY DEF Init, PopInv, NoTear
  <1>6. WholeInv
    BY <1>1 DEF Init, WholeInv
  <1> QED BY <1>3, <1>4, <1>5, <1>6 DEF RInv

(* Only pushes write a slot, and a push never writes the slot that is      *)
(* being copied: the queue is neither empty nor full, so tail # head.      *)
LEMMA TailIsFree ==
    ASSUME RInv, size < Capacity, pc \in {"copy", "copy2"}
    PROVE  tail # head
  <1>1. /\ tail = (head + size) % Capacity
        /\ head \in Slots /\ size \in 1 .. Capacity - 1
    BY DEF RInv, TypeOK, PopInv, IndicesAgree, LeftHead
  <1> QED BY <1>1, EndIsApart

LEMMA PushBackRInv ==
    ASSUME RInv, NEW m \in Messages, queue_push_back(m) PROVE RInv'
  <1> USE DEF RInv, queue_push_back, MayPush, Full
  <1>0. size \in 0 .. Capacity - 1 /\ tail \in Slots
    BY DEF TypeOK
  <1>1. tail' \in Slots /\ size' \in 0 .. Capacity
    <2>1. (tail + 1) % Capacity \in Slots
      BY <1>0, WrapUp DEF Slots
    <2> QED BY <1>0, <2>1
  <1>2. base' \in [Slots -> Messages \X Messages]
    BY DEF TypeOK
  <1>3. TypeOK'
    BY <1>1, <1>2 DEF TypeOK
  <1>4. PopInv'
    BY <1>0 DEF PopInv
  <1>5. IndicesAgree'
    <2> DEFINE x == head + size - LeftHead
    <2>1. x \in Nat /\ x + 1 < 2 * Capacity
      BY <1>0 DEF TypeOK, Slots, LeftHead, PopInv
    <2>2. tail = x % Capacity /\ (head + size - LeftHead)' = x + 1
      BY <1>0 DEF IndicesAgree, LeftHead, TypeOK, Slots
    <2> HIDE DEF x
    <2>3. ((x % Capacity) + 1) % Capacity = (x + 1) % Capacity
      BY <2>1, EndOfOneMore
    <2> QED BY <2>2, <2>3 DEF IndicesAgree
  <1>6. WholeInv'
    <2>1. \A s \in Slots : base'[s] = IF s = tail THEN <<m, m>> ELSE base[s]
      BY DEF TypeOK
    <2>2. \A s \in Slots : base'[s][1] = base'[s][2]
      BY <2>1 DEF WholeInv
    <2>3. ASSUME pc' = "copy2" PROVE data'[1] = base'[head'][1]
      <3>1. tail # head
        BY <1>0, <2>3, TailIsFree
      <3> QED BY <2>1, <2>3, <3>1 DEF WholeInv, TypeOK
    <2> QED BY <2>2, <2>3 DEF WholeInv
  <1>7. NoTear'
    BY DEF NoTear
  <1> QED BY <1>3, <1>4, <1>5, <1>6, <1>7

LEMMA PushFrontRInv ==
    ASSUME RInv, NEW m \in Messages, queue_push_front(m) PROVE RInv'
  <1> USE DEF RInv, queue_push_front, MayPush, Full, Before
  <1>0. size \in 0 .. Capacity - 1 /\ pc = "idle" /\ head \in Slots
    BY DEF TypeOK
  <1>1. /\ head' = (IF head = 0 THEN Capacity - 1 ELSE head - 1)
        /\ head' \in Slots
    <2>1. head' = (IF head = 0 THEN Capacity - 1 ELSE head - 1)
      BY <1>0, WrapDown
    <2> QED BY <1>0, <2>1 DEF Slots
  <1>2. size' \in 0 .. Capacity /\ base' \in [Slots -> Messages \X Messages]
    <2>1. size' \in 0 .. Capacity
      BY <1>0
    <2>2. base' \in [Slots -> Messages \X Messages]
      BY DEF TypeOK
    <2> QED BY <2>1, <2>2
  <1>3. TypeOK'
    BY <1>1, <1>2 DEF TypeOK
  <1>4. PopInv' /\ NoTear'
    BY <1>0 DEF PopInv, NoTear
  <1>5. IndicesAgree'
    <2>1. tail = (head + size) % Capacity
      BY <1>0 DEF IndicesAgree, LeftHead, TypeOK, Slots
    <2>2. (head + size - LeftHead)' = head' + size + 1
      BY <1>0, <1>1 DEF LeftHead, TypeOK, Slots
    <2>3. (head' + size + 1) % Capacity = (head + size) % Capacity
      BY <1>0, <1>1, EndFromBefore
    <2> QED BY <2>1, <2>2, <2>3 DEF IndicesAgree
  <1>6. WholeInv'
    <2>1. \A s \in Slots : base'[s] = IF s = head' THEN <<m, m>> ELSE base[s]
      BY DEF TypeOK
    <2> QED BY <1>0, <2>1 DEF WholeInv
  <1> QED BY <1>3, <1>4, <1>5, <1>6

LEMMA PopRInv == ASSUME RInv, queue_pop_front PROVE RInv'
  <1> USE DEF RInv, Step
  <1>1. CASE PopTest
    BY <1>1 DEF PopTest, ring, TypeOK, PopSteps, IndicesAgree, LeftHead, PopInv,
                WholeInv, NoTear
  <1>2. CASE PopCopy
    <2>1. data' \in Messages \X Messages
      BY <1>2 DEF PopCopy, TypeOK
    <2>2. TypeOK' /\ PopInv' /\ IndicesAgree'
      BY <1>2, <2>1 DEF PopCopy, ring, TypeOK, PopSteps, PopInv, IndicesAgree, LeftHead
    <2>3. WholeInv' /\ NoTear'
      BY <1>2 DEF PopCopy, ring, TypeOK, WholeInv, NoTear
    <2> QED BY <2>2, <2>3
  <1>3. CASE PopAdvance
    <2>0. head \in Slots
      BY DEF TypeOK
    <2>1. /\ head' = (IF head + 1 = Capacity THEN 0 ELSE head + 1)
          /\ head' \in Slots
      <3>1. head' = (IF head + 1 = Capacity THEN 0 ELSE head + 1)
        BY <1>3, <2>0, WrapUp DEF PopAdvance
      <3> QED BY <2>0, <3>1 DEF Slots
    <2>2. TypeOK' /\ PopInv' /\ WholeInv' /\ NoTear'
      BY <1>3, <2>1 DEF PopAdvance, TypeOK, PopSteps, PopInv, WholeInv, NoTear
    <2>3. IndicesAgree'
      <3>1. tail = (head + size) % Capacity /\ size \in 1 .. Capacity
        BY <1>3 DEF PopAdvance, IndicesAgree, LeftHead, TypeOK, Slots, PopInv
      <3>2. (head + size - LeftHead)' = head' + size - 1 /\ tail' = tail
        BY <1>3 DEF PopAdvance, LeftHead
      <3>3. (head' + size - 1) % Capacity = (head + size) % Capacity
        BY <2>0, <2>1, <3>1, EndFromNext
      <3> QED BY <3>1, <3>2, <3>3 DEF IndicesAgree
    <2> QED BY <2>2, <2>3
  <1>4. CASE PopLock
    BY <1>4 DEF PopLock, DisableIrq, ring, TypeOK, PopSteps, PopInv, IndicesAgree,
                LeftHead, WholeInv, NoTear
  <1>5. CASE PopLoad
    BY <1>5 DEF PopLoad, ring, TypeOK, PopSteps, PopInv, IndicesAgree, LeftHead,
                WholeInv, NoTear
  <1>6. CASE PopStore
    <2>1. size' = size - 1 /\ size > 0 /\ pc = "store" /\ pc' = "unlock"
      BY <1>6 DEF PopStore, PopInv
    <2>2. size' \in 0 .. Capacity /\ handled' \in Messages
      BY <1>6, <2>1 DEF PopStore, TypeOK
    <2>3. TypeOK' /\ PopInv' /\ WholeInv' /\ NoTear'
      BY <1>6, <2>1, <2>2 DEF PopStore, TypeOK, PopSteps, PopInv, WholeInv, NoTear
    <2>4. IndicesAgree'
      <3>1. (head + size - LeftHead)' = head + size - LeftHead /\ tail' = tail
        BY <1>6, <2>1 DEF PopStore, LeftHead, TypeOK, Slots
      <3> QED BY <3>1 DEF IndicesAgree
    <2> QED BY <2>3, <2>4
  <1>7. CASE PopUnlock
    BY <1>7 DEF PopUnlock, ring, TypeOK, PopSteps, PopInv, IndicesAgree, LeftHead,
                WholeInv, NoTear
  <1> QED
    BY <1>1, <1>2, <1>3, <1>4, <1>5, <1>6, <1>7 DEF queue_pop_front

LEMMA NextRInv == RInv /\ [Next]_vars => RInv'
  <1> SUFFICES ASSUME RInv, [Next]_vars PROVE RInv'
    OBVIOUS
  <1>1. CASE UNCHANGED vars
    BY <1>1 DEF vars, ring, RInv, TypeOK, IndicesAgree, LeftHead, PopInv, WholeInv,
                NoTear
  <1>2. CASE Next
    BY <1>2, PushBackRInv, PushFrontRInv, PopRInv DEF Next
  <1> QED BY <1>1, <1>2

(* The invariant of the ring, with the interrupt anywhere.                 *)
THEOREM InvariantHolds == Spec => []RInv
  BY InitRInv, NextRInv, PTL DEF Spec

(* The indices stay in the buffer and size within the capacity: size--     *)
(* never takes it below zero and no push takes it past the end.            *)
THEOREM TypeCorrect == Spec => []TypeOK
  BY InvariantHolds, PTL DEF RInv

(* head, tail and size describe one ring at every instant at which the     *)
(* interrupt can look at them.                                             *)
THEOREM IndicesAlwaysAgree == Spec => []IndicesAgree
  BY InvariantHolds, PTL DEF RInv

(* No message is overwritten by the interrupt while it is copied.          *)
THEOREM NothingTorn == Spec => []NoTear
  BY InvariantHolds, PTL DEF RInv

-----------------------------------------------------------------------------
(* The ring as a bounded queue.                                            *)

(* The copy is of the oldest message, until it is given back.              *)
CopyInv ==
    pc \in {"copy2", "advance", "lock", "load", "store"} => data[1] = base[Oldest][1]

(* Two different places of the queue are two different slots.              *)
LEMMA PlacesApart ==
    ASSUME NEW h \in Slots, NEW i \in 0 .. Capacity, NEW j \in 0 .. Capacity,
           i < j, j - i < Capacity
    PROVE  (h + i) % Capacity # (h + j) % Capacity
  <1>1. (h + i) % Capacity = IF h + i < Capacity THEN h + i ELSE (h + i) - Capacity
    BY WrapSum
  <1>2. (h + j) % Capacity = IF h + j < Capacity THEN h + j ELSE (h + j) - Capacity
    BY WrapSum
  <1> QED BY <1>1, <1>2 DEF Slots

(* Where the oldest message is, and where the next one will go.            *)
LEMMA OldestSlot ==
    ASSUME head \in Slots
    PROVE  Oldest = IF LeftHead = 0 THEN head
                    ELSE IF head = 0 THEN Capacity - 1 ELSE head - 1
  <1>1. CASE LeftHead = 0
    <2>1. (head + Capacity) % Capacity = IF head + Capacity < Capacity THEN head + Capacity
                                         ELSE (head + Capacity) - Capacity
      BY WrapSum
    <2>2. Oldest = (head + Capacity) % Capacity
      BY <1>1 DEF Oldest, Slots
    <2> QED BY <1>1, <2>1, <2>2 DEF Slots
  <1>2. CASE LeftHead = 1
    <2>1. Oldest = Before(head)
      BY <1>2 DEF Oldest, Before
    <2> QED BY <1>2, <2>1, WrapDown
  <1> QED BY <1>1, <1>2 DEF LeftHead

LEMMA Ends ==
    ASSUME RInv PROVE Oldest \in Slots /\ tail = (Oldest + size) % Capacity
  <1>1. head \in Slots /\ size \in 0 .. Capacity
    BY DEF RInv, TypeOK
  <1>2. Oldest \in Slots
    BY <1>1, OldestSlot DEF Slots
  <1>3. CASE LeftHead = 0
    <2>1. Oldest = head /\ head + size - LeftHead = head + size
      BY <1>1, <1>3, OldestSlot DEF Slots
    <2> QED BY <1>2, <2>1 DEF RInv, IndicesAgree
  <1>4. CASE LeftHead = 1
    <2>1. size \in 1 .. Capacity
      BY <1>1, <1>4 DEF RInv, PopInv, LeftHead
    <2>2. head = IF Oldest + 1 = Capacity THEN 0 ELSE Oldest + 1
      BY <1>1, <1>4, OldestSlot DEF Slots
    <2>3. (head + size - 1) % Capacity = (Oldest + size) % Capacity
      BY <1>1, <1>2, <2>1, <2>2, EndFromNext
    <2> QED BY <1>2, <1>4, <2>3 DEF RInv, IndicesAgree
  <1> QED BY <1>3, <1>4 DEF LeftHead

(* The n messages from slot h on.                                          *)
Window(b, h, n) == [i \in 1 .. n |-> b[(h + i - 1) % Capacity][1]]

Contents == [Slots -> Messages \X Messages]

LEMMA Place ==
    ASSUME NEW h \in Slots, NEW n \in 0 .. Capacity, NEW i \in 1 .. n
    PROVE  /\ i - 1 \in 0 .. Capacity
           /\ (h + i - 1) % Capacity = (h + (i - 1)) % Capacity
           /\ (h + i - 1) % Capacity \in Slots
  <1>1. /\ i - 1 \in 0 .. Capacity /\ h + i - 1 = h + (i - 1)
        /\ h + i - 1 \in Nat /\ h + i - 1 < 2 * Capacity
    BY DEF Slots
  <1> QED BY <1>1, Wrap

LEMMA WindowTyped ==
    ASSUME NEW b \in Contents, NEW h \in Slots, NEW n \in 0 .. Capacity
    PROVE  /\ Window(b, h, n) \in Seq(Messages) /\ Len(Window(b, h, n)) = n
           /\ \A i \in 1 .. n : Window(b, h, n)[i] = b[(h + i - 1) % Capacity][1]
  <1>1. \A i \in 1 .. n : b[(h + i - 1) % Capacity][1] \in Messages
    BY Place DEF Contents
  <1> QED BY <1>1 DEF Window

(* A push behind the last message, into the slot after it.                 *)
LEMMA WindowAppend ==
    ASSUME NEW b \in Contents, NEW h \in Slots, NEW n \in 0 .. Capacity - 1,
           NEW m \in Messages, NEW c, c = [b EXCEPT ![(h + n) % Capacity] = <<m, m>>]
    PROVE  Window(c, h, n + 1) = Append(Window(b, h, n), m)
  <1> DEFINE t == (h + n) % Capacity
             s == Window(b, h, n)
             u == Window(c, h, n + 1)
  <1>1. n \in 0 .. Capacity /\ n + 1 \in 0 .. Capacity
    OBVIOUS
  <1>2. t \in Slots
    BY <1>1, WrapSum DEF Slots
  <1>3. c \in Contents /\ c[t] = <<m, m>> /\ \A x \in Slots : x # t => c[x] = b[x]
    BY <1>2 DEF Contents
  <1>4. /\ s \in Seq(Messages) /\ Len(s) = n
        /\ \A i \in 1 .. n : s[i] = b[(h + i - 1) % Capacity][1]
    BY <1>1, WindowTyped
  <1>5. /\ u \in Seq(Messages) /\ Len(u) = n + 1
        /\ \A i \in 1 .. n + 1 : u[i] = c[(h + i - 1) % Capacity][1]
    BY <1>1, <1>3, WindowTyped
  <1>6. ASSUME NEW i \in 1 .. n PROVE u[i] = s[i]
    <2>1. i - 1 \in 0 .. Capacity /\ (h + i - 1) % Capacity = (h + (i - 1)) % Capacity
          /\ (h + i - 1) % Capacity \in Slots
      BY <1>1, Place
    <2>2. i - 1 < n /\ n - (i - 1) < Capacity
      OBVIOUS
    <2>3. (h + (i - 1)) % Capacity # t
      BY <1>1, <2>1, <2>2, PlacesApart
    <2>4. i \in 1 .. n + 1
      OBVIOUS
    <2> HIDE DEF t, s, u
    <2> QED BY <1>3, <1>4, <1>5, <2>1, <2>3, <2>4, Zenon
  <1>7. u[n + 1] = m
    <2>1. (h + (n + 1) - 1) % Capacity = t /\ n + 1 \in 1 .. n + 1
      BY DEF Slots
    <2> HIDE DEF t, u
    <2>2. u[n + 1] = c[(h + (n + 1) - 1) % Capacity][1]
      BY <1>5, <2>1, Zenon
    <2> QED BY <1>3, <2>1, <2>2
  <1> HIDE DEF s, u
  <1>8. u = Append(s, m)
    BY <1>1, <1>4, <1>5, <1>6, <1>7
  <1> QED BY <1>8 DEF s, u

(* A push in front of the first message, into the slot before it.          *)
LEMMA WindowPrepend ==
    ASSUME NEW b \in Contents, NEW h \in Slots, NEW n \in 0 .. Capacity - 1,
           NEW m \in Messages, NEW c, c = [b EXCEPT ![Before(h)] = <<m, m>>]
    PROVE  Window(c, Before(h), n + 1) = <<m>> \o Window(b, h, n)
  <1> DEFINE g == Before(h)
             s == Window(b, h, n)
             u == Window(c, g, n + 1)
  <1>1. n \in 0 .. Capacity /\ n + 1 \in 0 .. Capacity
    OBVIOUS
  <1>2. g = (IF h = 0 THEN Capacity - 1 ELSE h - 1) /\ g \in Slots
    <2>1. g = (IF h = 0 THEN Capacity - 1 ELSE h - 1)
      BY WrapDown
    <2> QED BY <2>1 DEF Slots
  <1>3. c \in Contents /\ c[g] = <<m, m>> /\ \A x \in Slots : x # g => c[x] = b[x]
    BY <1>2 DEF Contents
  <1> HIDE DEF g
  <1>4. /\ s \in Seq(Messages) /\ Len(s) = n
        /\ \A i \in 1 .. n : s[i] = b[(h + i - 1) % Capacity][1]
    BY <1>1, WindowTyped
  <1>5. /\ u \in Seq(Messages) /\ Len(u) = n + 1
        /\ \A i \in 1 .. n + 1 : u[i] = c[(g + i - 1) % Capacity][1]
    BY <1>1, <1>2, <1>3, WindowTyped
  <1>6. ASSUME NEW i \in 1 .. n PROVE u[i + 1] = s[i]
    <2>1. /\ i \in 0 .. Capacity /\ i + 1 \in 1 .. n + 1
          /\ g + (i + 1) - 1 = g + i /\ i < Capacity
      BY <1>2 DEF Slots
    <2>2. (g + i) % Capacity = (IF g + i < Capacity THEN g + i ELSE (g + i) - Capacity)
      BY <1>2, <2>1, WrapSum
    <2>3. i - 1 \in 0 .. Capacity /\ (h + i - 1) % Capacity = (h + (i - 1)) % Capacity
          /\ (h + i - 1) % Capacity \in Slots
      BY <1>1, Place
    <2>4. (h + (i - 1)) % Capacity
             = (IF h + (i - 1) < Capacity THEN h + (i - 1) ELSE (h + (i - 1)) - Capacity)
      BY <2>3, WrapSum
    <2>5. (g + i) % Capacity = (h + i - 1) % Capacity
      BY <1>2, <2>2, <2>3, <2>4 DEF Slots
    <2>6. (g + i) % Capacity # g
      BY <1>2, <2>1, <2>2 DEF Slots
    <2>7. u[i + 1] = c[(g + i) % Capacity][1]
      BY <1>5, <2>1
    <2>8. s[i] = b[(h + i - 1) % Capacity][1]
      BY <1>4
    <2> HIDE DEF s, u
    <2> QED BY <1>3, <2>3, <2>5, <2>6, <2>7, <2>8, Zenon
  <1>7. u[1] = m
    <2>1. g + 1 - 1 = g + 0 /\ 1 \in 1 .. n + 1 /\ 0 \in 0 .. Capacity
          /\ g + 0 = g /\ g < Capacity
      BY <1>2 DEF Slots
    <2>0. (g + 0) % Capacity = g
      BY <1>2, <2>1, WrapSum
    <2>2. (g + 1 - 1) % Capacity = g
      BY <2>0, <2>1, Zenon
    <2> HIDE DEF s, u
    <2>3. u[1] = c[(g + 1 - 1) % Capacity][1]
      BY <1>5, <2>1, Zenon
    <2> QED BY <1>3, <2>2, <2>3
  <1> HIDE DEF s, u
  <1>8. u = <<m>> \o s
    <2>1. <<m>> \o s \in Seq(Messages) /\ Len(<<m>> \o s) = n + 1
      BY <1>1, <1>4
    <2>2. ASSUME NEW j \in 1 .. n + 1 PROVE u[j] = (<<m>> \o s)[j]
      <3>1. CASE j = 1
        BY <1>4, <1>7, <3>1
      <3>2. CASE j # 1
        <4>1. j - 1 \in 1 .. n /\ (j - 1) + 1 = j
          BY <1>1, <3>2
        <4>2. u[j] = s[j - 1]
          BY <1>6, <4>1
        <4> QED BY <1>4, <4>1, <4>2
      <3> QED BY <3>1, <3>2
    <2> QED BY <1>5, <2>1, <2>2
  <1> QED BY <1>8 DEF s, u, g

(* A message taken: the rest begins one slot further on.                   *)
LEMMA WindowTail ==
    ASSUME NEW b \in Contents, NEW h \in Slots, NEW n \in 1 .. Capacity,
           NEW k \in Slots, k = IF h + 1 = Capacity THEN 0 ELSE h + 1
    PROVE  /\ Window(b, k, n - 1) = Tail(Window(b, h, n))
           /\ Head(Window(b, h, n)) = b[h][1] /\ Window(b, h, n) # <<>>
  <1> DEFINE s == Window(b, h, n)
             u == Window(b, k, n - 1)
  <1>1. n \in 0 .. Capacity /\ n - 1 \in 0 .. Capacity /\ n \in Nat /\ n - 1 \in Nat
    OBVIOUS
  <1>2. /\ s \in Seq(Messages) /\ Len(s) = n
        /\ \A i \in 1 .. n : s[i] = b[(h + i - 1) % Capacity][1]
    BY <1>1, WindowTyped
  <1>3. /\ u \in Seq(Messages) /\ Len(u) = n - 1
        /\ \A i \in 1 .. n - 1 : u[i] = b[(k + i - 1) % Capacity][1]
    BY <1>1, WindowTyped
  <1>4. ASSUME NEW i \in 1 .. n - 1 PROVE u[i] = s[i + 1]
    <2>1. i \in 1 .. Capacity /\ h + (i + 1) - 1 = h + i /\ i + 1 \in 1 .. n
      BY DEF Slots
    <2>0. (k + i - 1) % Capacity = (h + i) % Capacity
      BY <2>1, EndFromNext
    <2>2. (k + i - 1) % Capacity = (h + (i + 1) - 1) % Capacity
      BY <2>0, <2>1, Zenon
    <2> HIDE DEF s, u
    <2>3. s[i + 1] = b[(h + (i + 1) - 1) % Capacity][1]
      BY <1>2, <2>1, Zenon
    <2>4. u[i] = b[(k + i - 1) % Capacity][1]
      BY <1>3, Zenon
    <2> QED BY <2>2, <2>3, <2>4, Zenon
  <1>5. s[1] = b[h][1]
    <2>1. h + 1 - 1 = h + 0 /\ 1 \in 1 .. n /\ 0 \in 0 .. Capacity
          /\ h + 0 = h /\ h < Capacity
      BY DEF Slots
    <2>0. (h + 0) % Capacity = h
      BY <2>1, WrapSum
    <2>2. (h + 1 - 1) % Capacity = h
      BY <2>0, <2>1, Zenon
    <2> HIDE DEF s, u
    <2>3. s[1] = b[(h + 1 - 1) % Capacity][1]
      BY <1>2, <2>1, Zenon
    <2> QED BY <2>2, <2>3
  <1> HIDE DEF s, u
  <1>6. Head(s) = s[1] /\ s # <<>>
    BY <1>1, <1>2
  <1>7. u = Tail(s)
    <2>1. /\ Tail(s) \in Seq(Messages) /\ Len(Tail(s)) = n - 1
          /\ \A i \in 1 .. n - 1 : Tail(s)[i] = s[i + 1]
      BY <1>1, <1>2, <1>6
    <2>2. \A i \in 1 .. n - 1 : u[i] = Tail(s)[i]
      BY <1>4, <2>1, Zenon
    <2> QED BY <1>1, <1>3, <2>1, <2>2
  <1> QED BY <1>5, <1>6, <1>7 DEF s, u


LEMMA ItemsAreWindow == Items = Window(base, Oldest, size)
  BY DEF Items, Window

LEMMA InitRefines == Init => Promise!Init /\ CopyInv
  <1> SUFFICES ASSUME Init PROVE Promise!Init /\ CopyInv
    OBVIOUS
  <1>1. RInv /\ size = 0 /\ pc = "idle"
    BY InitRInv DEF Init
  <1>2. base \in Contents /\ Oldest \in Slots /\ 0 \in 0 .. Capacity
    BY <1>1, Ends DEF RInv, TypeOK, Contents
  <1>3. Items \in Seq(Messages) /\ Len(Items) = 0
    BY <1>1, <1>2, WindowTyped, ItemsAreWindow
  <1> QED BY <1>1, <1>3 DEF Promise!Init, CopyInv, RInv, TypeOK

LEMMA PushBackAppends ==
    ASSUME RInv, CopyInv, NEW m \in Messages, queue_push_back(m)
    PROVE  Promise!Append1(m) /\ UNCHANGED handled /\ CopyInv'
  <1>1. /\ base \in Contents /\ Oldest \in Slots /\ tail = (Oldest + size) % Capacity
        /\ size \in 0 .. Capacity /\ size \in 0 .. Capacity - 1
        /\ \A s \in Slots : base'[s] = IF s = tail THEN <<m, m>> ELSE base[s]
    BY Ends DEF RInv, TypeOK, Contents, queue_push_back, Full
  <1>2. Oldest' = Oldest /\ size' = size + 1
    BY DEF queue_push_back, Oldest, LeftHead
  <1>3. base' = [base EXCEPT ![(Oldest + size) % Capacity] = <<m, m>>]
    BY <1>1 DEF queue_push_back
  <1>4. Items' = Append(Items, m)
    <2>1. Items' = Window(base', Oldest, size + 1)
      BY <1>2 DEF Items, Window
    <2> DEFINE c == base'
    <2>2. c = [base EXCEPT ![(Oldest + size) % Capacity] = <<m, m>>]
      BY <1>3
    <2> HIDE DEF c
    <2>3. Window(c, Oldest, size + 1) = Append(Window(base, Oldest, size), m)
      BY <1>1, <2>2, WindowAppend
    <2> QED BY <2>1, <2>3, ItemsAreWindow DEF c
  <1>5. Len(Items) < Capacity
    <2>1. Len(Items) = size
      BY <1>1, WindowTyped, ItemsAreWindow
    <2> QED BY <1>1, <2>1
  <1>6. CopyInv'
    <2> SUFFICES ASSUME pc \in {"copy2", "advance", "lock", "load", "store"}
                 PROVE  data[1] = base'[Oldest][1]
      BY <1>2 DEF CopyInv, queue_push_back
    <2>1. size \in 1 .. Capacity - 1
      BY <1>1 DEF RInv, PopInv
    <2>2. tail # Oldest
      BY <1>1, <2>1, EndIsApart
    <2> QED BY <1>1, <2>2 DEF CopyInv
  <1>7. UNCHANGED handled
    BY DEF queue_push_back
  <1> QED BY <1>4, <1>5, <1>6, <1>7 DEF Promise!Append1

LEMMA PushFrontPrepends ==
    ASSUME RInv, NEW m \in Messages, queue_push_front(m)
    PROVE  Promise!Prepend1(m) /\ UNCHANGED handled /\ CopyInv'
  <1>1. /\ base \in Contents /\ head \in Slots /\ pc = "idle" /\ pc' = pc
        /\ size \in 0 .. Capacity /\ size \in 0 .. Capacity - 1
    BY DEF RInv, TypeOK, Contents, queue_push_front, Full, MayPush
  <1>2. head' = Before(head) /\ Before(head) \in Slots /\ size' = size + 1
    <2>1. head' = Before(head) /\ size' = size + 1
      BY DEF queue_push_front
    <2> QED BY <1>1, <2>1, WrapDown DEF Slots
  <1>3. Oldest = head /\ Oldest' = Before(head)
    <2>1. LeftHead = 0 /\ LeftHead' = 0
      BY <1>1 DEF LeftHead
    <2>2. \A h \in Slots : (h + Capacity - 0) % Capacity = h
      <3> TAKE h \in Slots
      <3>1. h + Capacity - 0 = h + Capacity /\ Capacity \in 0 .. Capacity
            /\ ~(h + Capacity < Capacity) /\ (h + Capacity) - Capacity = h
        BY DEF Slots
      <3>2. (h + Capacity) % Capacity = h
        BY <3>1, WrapSum
      <3> QED BY <3>1, <3>2, Zenon
    <2> QED BY <1>1, <1>2, <2>1, <2>2 DEF Oldest
  <1>4. base' = [base EXCEPT ![Before(head)] = <<m, m>>]
    BY DEF queue_push_front
  <1>5. Items' = <<m>> \o Items
    <2>1. Items' = Window(base', Before(head), size + 1)
      BY <1>2, <1>3 DEF Items, Window
    <2>2. Items = Window(base, head, size)
      BY <1>3, ItemsAreWindow
    <2> QED BY <1>1, <1>4, <2>1, <2>2, WindowPrepend
  <1>6. Len(Items) < Capacity
    <2>1. Len(Items) = size
      BY <1>1, <1>3, WindowTyped, ItemsAreWindow
    <2> QED BY <1>1, <2>1
  <1>7. CopyInv' /\ UNCHANGED handled
    BY <1>1 DEF CopyInv, queue_push_front
  <1> QED BY <1>5, <1>6, <1>7 DEF Promise!Prepend1

(* Giving back the slot takes the oldest message; no other step of the pop *)
(* changes what is in the queue.                                           *)
LEMMA PopTakes ==
    ASSUME RInv, CopyInv, queue_pop_front
    PROVE  (Promise!Take \/ UNCHANGED Promise!vars) /\ CopyInv'
  <1> USE DEF Step
  <1>1. head \in Slots /\ base \in Contents /\ size \in 0 .. Capacity
    BY DEF RInv, TypeOK, Contents
  <1>2. ASSUME base' = base, size' = size, Oldest' = Oldest, handled' = handled
        PROVE  UNCHANGED Promise!vars
    BY <1>2 DEF Promise!vars, Items
  <1>3. CASE PopTest \/ PopLock \/ PopLoad
    <2>1. /\ base' = base /\ size' = size /\ handled' = handled
          /\ data' = data /\ head' = head /\ LeftHead' = LeftHead
          /\ pc' \in {"copy2", "advance", "lock", "load", "store"}
                => pc \in {"copy2", "advance", "lock", "load", "store"}
      BY <1>3 DEF PopTest, PopLock, PopLoad, ring, LeftHead
    <2>2. Oldest' = Oldest
      BY <2>1 DEF Oldest
    <2> QED BY <1>2, <2>1, <2>2 DEF CopyInv
  <1>4. CASE PopCopy
    <2>1. /\ base' = base /\ size' = size /\ handled' = handled
          /\ head' = head /\ LeftHead' = 0 /\ LeftHead = 0
      BY <1>4 DEF PopCopy, ring, LeftHead
    <2>2. Oldest' = Oldest
      BY <2>1 DEF Oldest
    <2>3. Oldest = head
      BY <1>1, <2>1, OldestSlot
    <2>4. data'[1] = base[head][1]
      BY <1>4, <2>3 DEF PopCopy, RInv, TypeOK, CopyInv
    <2> QED BY <1>2, <2>1, <2>2, <2>3, <2>4 DEF CopyInv
  <1>5. CASE PopAdvance
    <2>1. /\ base' = base /\ size' = size /\ handled' = handled /\ data' = data
          /\ head' = (head + 1) % Capacity /\ LeftHead' = 1 /\ LeftHead = 0
          /\ pc = "advance"
      BY <1>5 DEF PopAdvance, LeftHead
    <2>2. Oldest = head
      BY <1>1, <2>1, OldestSlot
    <2>3. Oldest' = Before(head')
      BY <2>1 DEF Oldest, Before
    <2>4. head' = (IF head + 1 = Capacity THEN 0 ELSE head + 1) /\ head' \in Slots
      <3>1. head' = (IF head + 1 = Capacity THEN 0 ELSE head + 1)
        BY <1>1, <2>1, WrapUp
      <3> QED BY <1>1, <3>1 DEF Slots
    <2>5. Before(head') = IF head' = 0 THEN Capacity - 1 ELSE head' - 1
      BY <2>4, WrapDown
    <2>6. Oldest' = Oldest
      BY <1>1, <2>2, <2>3, <2>4, <2>5 DEF Slots
    <2> QED BY <1>2, <2>1, <2>6 DEF CopyInv
  <1>6. CASE PopStore
    <2>1. /\ base' = base /\ handled' = data[1] /\ size' = size - 1
          /\ head' = head /\ LeftHead' = 0 /\ LeftHead = 1
          /\ pc = "store" /\ pc' = "unlock" /\ size > 0
      BY <1>6 DEF PopStore, LeftHead, RInv, PopInv
    <2>2. Oldest \in Slots /\ head = (IF Oldest + 1 = Capacity THEN 0 ELSE Oldest + 1)
      BY <1>1, <2>1, OldestSlot DEF Slots
    <2>3. Oldest' = head
      <3>1. head + Capacity - 0 = head + Capacity /\ Capacity \in 0 .. Capacity
            /\ ~(head + Capacity < Capacity) /\ (head + Capacity) - Capacity = head
        BY <1>1 DEF Slots
      <3>2. (head + Capacity) % Capacity = head
        BY <1>1, <3>1, WrapSum
      <3>3. Oldest' = (head + Capacity - 0) % Capacity
        BY <2>1 DEF Oldest
      <3> QED BY <3>1, <3>2, <3>3, Zenon
    <2>4. size \in 1 .. Capacity
      BY <1>1, <2>1
    <2>5. /\ Items = Window(base, Oldest, size) /\ Items' = Window(base, head, size - 1)
      BY <2>1, <2>3 DEF Items, Window
    <2>6. Items' = Tail(Items) /\ Head(Items) = base[Oldest][1] /\ Items # <<>>
      BY <1>1, <2>2, <2>4, <2>5, WindowTail
    <2> QED BY <2>1, <2>6 DEF Promise!Take, CopyInv
  <1>7. CASE PopUnlock
    <2>1. /\ base' = base /\ size' = size /\ handled' = handled /\ head' = head
          /\ LeftHead' = 0 /\ LeftHead = 0 /\ pc' = "idle"
      BY <1>7 DEF PopUnlock, ring, LeftHead
    <2>2. Oldest' = Oldest
      BY <2>1 DEF Oldest
    <2> QED BY <1>2, <2>1, <2>2 DEF CopyInv
  <1> QED BY <1>3, <1>4, <1>5, <1>6, <1>7 DEF queue_pop_front

(* The ring buffer, with the interrupt between any two accesses, keeps the *)
(* safety part of what Fifo promises: every step accepts one message at an *)
(* end, hands the oldest one to the reader, or changes nothing.            *)
THEOREM RefinesBoundedQueue == Spec => Promise!Init /\ [][Promise!Next]_(Promise!vars)
  <1>1. Init => Promise!Init /\ RInv /\ CopyInv
    BY InitRefines, InitRInv
  <1>2. RInv /\ CopyInv /\ [Next]_vars => [Promise!Next]_(Promise!vars) /\ CopyInv'
    <2> SUFFICES ASSUME RInv, CopyInv, [Next]_vars
                 PROVE  [Promise!Next]_(Promise!vars) /\ CopyInv'
      OBVIOUS
    <2>1. CASE UNCHANGED vars
      <3>1. Oldest' = Oldest /\ Items' = Items
        BY <2>1 DEF vars, ring, Oldest, LeftHead, Items
      <3> QED BY <2>1, <3>1 DEF vars, ring, CopyInv, Promise!vars
    <2>2. CASE queue_pop_front
      BY <2>2, PopTakes DEF Promise!Next
    <2>3. ASSUME NEW m \in Messages, queue_push_back(m)
          PROVE  [Promise!Next]_(Promise!vars) /\ CopyInv'
      BY <2>3, PushBackAppends DEF Promise!Next
    <2>4. ASSUME NEW m \in Messages, queue_push_front(m)
          PROVE  [Promise!Next]_(Promise!vars) /\ CopyInv'
      BY <2>4, PushFrontPrepends DEF Promise!Next
    <2> QED BY <2>1, <2>2, <2>3, <2>4 DEF Next
  <1> QED BY <1>1, <1>2, NextRInv, PTL DEF Spec

-----------------------------------------------------------------------------
(* SysTick.  NeverAhead is inductive with the types: it says at each step  *)
(* of TaskTickUpdate which of the copies of the counter are still behind.  *)
TickInv == TickTypeOK /\ NeverAhead

LEMMA TickStarts == TickInit => TickInv
  <1>1. 0 \in 0 .. Width - 1 /\ 0 \in 0 .. Base - 1 /\ 0 \in 0 .. MaxBehind
    BY TickAssumption
  <1>2. TickInit => NeverAhead
    BY DEF TickInit, NeverAhead
  <1>3. FALSE \in BOOLEAN
    OBVIOUS
  <1>4. TickInit => TickTypeOK
    BY <1>1, <1>3, Zenon DEF TickInit, TickTypeOK
  <1> QED BY <1>2, <1>4 DEF TickInv

LEMMA TickStep == TickInv /\ [TickNext]_tickVars => TickInv'
  <1> SUFFICES ASSUME TickInv, [TickNext]_tickVars PROVE TickInv'
    OBVIOUS
  <1> USE TickAssumption DEF TickInv, TickTypeOK, NeverAhead, counts, flags, Turn
  <1>1. CASE SysTick_Handler
    <2>1. sysTickTimer' = sysTickTimer + 1
      BY <1>1 DEF SysTick_Handler
    <2> QED BY <1>1, <2>1 DEF SysTick_Handler
  <1>2. CASE Poll
    BY <1>2 DEF Poll
  <1>3. CASE ReadTimer
    BY <1>3 DEF ReadTimer
  <1>4. CASE LoadTimer
    BY <1>4 DEF LoadTimer
  <1>5. CASE StoreTimer
    BY <1>5 DEF StoreTimer, Left
  <1>6. CASE Count
    BY <1>6 DEF Count, Due, Remainder, AfterPeriod
  <1>7. CASE Tasks
    BY <1>7 DEF Tasks
  <1>8. CASE UNCHANGED tickVars
    BY <1>8 DEF tickVars
  <1> QED
    BY <1>1, <1>2, <1>3, <1>4, <1>5, <1>6, <1>7, <1>8 DEF TickNext, TaskTickUpdate

(* Every counter of the time base stays in its byte; what TaskTick1ms      *)
(* keeps is less than a period.                                            *)
THEOREM TickTypeCorrect == TickSpec => []TickTypeOK
  BY TickStarts, TickStep, PTL DEF TickSpec, TickInv

(* No millisecond is counted twice, wherever the tick interrupt comes      *)
(* between the accesses of TaskTickUpdate: the counter never holds more    *)
(* than has elapsed, and never less than what is about to be taken out.    *)
THEOREM NothingCountedTwice == TickSpec => []NeverAhead
  BY TickStarts, TickStep, PTL DEF TickSpec, TickInv
=============================================================================
