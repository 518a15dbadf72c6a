-------------------------- MODULE NotifyRingProofs --------------------------
(***************************************************************************)
(* Proofs about NotifyRing for a ring of any size: types, mutual           *)
(* exclusion, no lost wake-up, and that the ring is a bounded FIFO queue.  *)
(***************************************************************************)
EXTENDS NotifyRing, SequenceTheorems, TLAPS

LEMMA SuccWraps ==
  ASSUME NEW i \in Cells
  PROVE  Succ(i) = IF i = MAX_NOTIFICATIONS - 1 THEN 0 ELSE i + 1
<1>1. i + 1 \in Int /\ 0 <= i + 1 /\ i + 1 <= MAX_NOTIFICATIONS
  BY RingAssumption DEF Cells
<1>2. CASE i = MAX_NOTIFICATIONS - 1
  BY <1>2, RingAssumption DEF Succ
<1>3. CASE i # MAX_NOTIFICATIONS - 1
  BY <1>1, <1>3, RingAssumption DEF Succ, Cells
<1>4. QED
  BY <1>2, <1>3

LEMMA SuccType ==
  ASSUME NEW i \in Cells
  PROVE  Succ(i) \in Cells
  BY SuccWraps, RingAssumption DEF Cells

-----------------------------------------------------------------------------
(* The arithmetic of the ring.                                             *)

LEMMA WaitingType ==
  ASSUME notif_head \in Cells, notif_tail \in Cells
  PROVE  /\ Waiting \in 0 .. MAX_NOTIFICATIONS - 1
         /\ Waiting = 0 <=> Empty
         /\ \A i \in 0 .. MAX_NOTIFICATIONS - 1 : Cell(i) \in Cells
         /\ Waiting = MAX_NOTIFICATIONS - 1 <=> Succ(notif_head) = notif_tail
<1>1. /\ Waiting \in 0 .. MAX_NOTIFICATIONS - 1
      /\ Waiting = 0 <=> Empty
      /\ \A i \in 0 .. MAX_NOTIFICATIONS - 1 : Cell(i) \in Cells
  BY RingAssumption DEF Waiting, Cells, Empty, Cell
<1>2. Waiting = MAX_NOTIFICATIONS - 1 <=> Succ(notif_head) = notif_tail
  BY SuccWraps, RingAssumption DEF Waiting, Cells
<1>3. QED
  BY <1>1, <1>2

LEMMA PutArithmetic ==
  ASSUME notif_head \in Cells, notif_tail \in Cells,
         Succ(notif_head) # notif_tail,
         notif_head' = Succ(notif_head), notif_tail' = notif_tail
  PROVE  /\ Waiting' = Waiting + 1
         /\ Cell(Waiting) = notif_head
         /\ \A i \in 0 .. MAX_NOTIFICATIONS - 1 : Cell(i)' = Cell(i)
         /\ \A i \in 0 .. Waiting - 1 : Cell(i) # notif_head
<1>1. Succ(notif_head) = IF notif_head = MAX_NOTIFICATIONS - 1 THEN 0
                         ELSE notif_head + 1
  BY SuccWraps
<1>2. QED
  BY <1>1, RingAssumption DEF Waiting, Cell, Cells

LEMMA TakeArithmetic ==
  ASSUME notif_head \in Cells, notif_tail \in Cells, ~Empty,
         notif_tail' = Succ(notif_tail), notif_head' = notif_head
  PROVE  /\ Waiting' = Waiting - 1
         /\ Cell(0) = notif_tail
         /\ \A i \in 0 .. Waiting - 2 : Cell(i)' = Cell(i + 1)
<1>1. Succ(notif_tail) = IF notif_tail = MAX_NOTIFICATIONS - 1 THEN 0
                         ELSE notif_tail + 1
  BY SuccWraps
<1>2. QED
  BY <1>1, RingAssumption DEF Waiting, Cell, Cells, Empty

-----------------------------------------------------------------------------
(* What is waiting is messages, and the copy to send is one exactly while  *)
(* it is being sent.                                                       *)
ContentsTyped == \A i \in 0 .. Waiting - 1 : notifications[Cell(i)] \in Messages

HandHeld == IF pc = "send" THEN msg \in Messages ELSE msg = NoMessage

Inv == TypeOK /\ MutexHeld /\ NoLostWakeup /\ ContentsTyped /\ HandHeld

LEMMA InvInit == Init => Inv
<1> SUFFICES ASSUME Init
             PROVE  Inv
  OBVIOUS
<1> USE DEF Init
<1>1. TypeOK
  <2>1. 0 \in Cells
    BY RingAssumption DEF Cells
  <2>2. notifications \in [Cells -> Messages \cup {NoMessage}]
    OBVIOUS
  <2>3. QED
    BY <2>1, <2>2 DEF TypeOK
<1>2. MutexHeld /\ NoLostWakeup /\ HandHeld
  BY DEF MutexHeld, NoLostWakeup, HandHeld
<1>3. ContentsTyped
  BY DEF ContentsTyped, Waiting
<1>4. QED
  BY <1>1, <1>2, <1>3 DEF Inv

LEMMA InvStep == Inv /\ [Next]_vars => Inv'
<1> SUFFICES ASSUME Inv, [Next]_vars
             PROVE  Inv'
  OBVIOUS
<1> USE DEF Inv, TypeOK, MutexHeld
<1>a. UNCHANGED ring => /\ UNCHANGED Empty
                        /\ ContentsTyped'
  BY DEF ring, Empty, ContentsTyped, Waiting, Cell
<1>1. ASSUME NEW m \in Messages, LockForEnqueue(m)
      PROVE  Inv'
  BY <1>1, <1>a, RingAssumption DEF LockForEnqueue, ring, HandHeld, NoLostWakeup
<1>2. CASE Enqueue
  <2>1. pending \in Messages /\ pc \notin {"test", "take"}
    BY <1>2, RingAssumption DEF Enqueue, Full, Signal
  <2>2. CASE Succ(notif_head) = notif_tail
    BY <1>2, <1>a, <2>1, <2>2 DEF Enqueue, Full, Signal, ring, HandHeld, NoLostWakeup
  <2>3. CASE Succ(notif_head) # notif_tail
    <3>1. /\ notifications' = [notifications EXCEPT ![notif_head] = pending]
          /\ notif_head' = Succ(notif_head)
          /\ notif_tail' = notif_tail
          /\ signalled' = (signalled \/ pc = "wait")
          /\ mutex' = "free" /\ pending' = NoMessage
          /\ UNCHANGED <<pc, msg>>
      BY <1>2, <2>3 DEF Enqueue, Full, Signal
    <3>2. TypeOK'
      BY <2>1, <3>1, SuccType
    <3>3. MutexHeld' /\ NoLostWakeup' /\ HandHeld'
      BY <2>1, <3>1, RingAssumption DEF NoLostWakeup, HandHeld
    <3>4. ContentsTyped'
      <4>1. ASSUME NEW i \in 0 .. Waiting
            PROVE  notifications'[Cell(i)'] \in Messages
        <5>0. Waiting \in 0 .. MAX_NOTIFICATIONS - 1
          BY WaitingType
        <5>1. i \in 0 .. MAX_NOTIFICATIONS - 1 /\ Cell(i) \in Cells
          BY <5>0, WaitingType, RingAssumption
        <5>2. Cell(i)' = Cell(i)
          BY <2>3, <3>1, <5>1, PutArithmetic
        <5>3. CASE i = Waiting
          BY <2>1, <2>3, <3>1, <5>0, <5>1, <5>2, <5>3, PutArithmetic
        <5>4. CASE i # Waiting
          <6>1. i \in 0 .. Waiting - 1
            BY <5>0, <5>4
          <6>2. Cell(i) # notif_head /\ notifications[Cell(i)] \in Messages
            BY <2>3, <3>1, <6>1, PutArithmetic DEF ContentsTyped
          <6>3. QED
            BY <3>1, <5>1, <5>2, <6>2
        <5>5. QED
          BY <5>3, <5>4
      <4>2. Waiting' = Waiting + 1 /\ Waiting \in Int
        BY <2>3, <3>1, PutArithmetic, WaitingType
      <4>3. QED
        BY <4>1, <4>2 DEF ContentsTyped
    <3>5. QED
      BY <3>2, <3>3, <3>4
  <2>4. QED
    BY <2>2, <2>3
<1>3. CASE LockToWait
  BY <1>3, <1>a DEF LockToWait, ring, HandHeld, NoLostWakeup
<1>4. CASE Test
  BY <1>4, <1>a DEF Test, ring, HandHeld, NoLostWakeup
<1>5. CASE Wake
  BY <1>5, <1>a DEF Wake, ring, HandHeld, NoLostWakeup
<1>6. CASE Take
  <2>1. /\ msg' = notifications[notif_tail]
        /\ notif_tail' = Succ(notif_tail) /\ notif_head' = notif_head
        /\ notifications' = notifications /\ ~Empty
        /\ mutex' = "free" /\ pc' = "send" /\ pc = "take"
        /\ UNCHANGED <<pending, signalled>>
    BY <1>6 DEF Take
  <2>2. Waiting \in 1 .. MAX_NOTIFICATIONS - 1
    BY <2>1, WaitingType
  <2>3. msg' \in Messages
    BY <2>1, <2>2, TakeArithmetic DEF ContentsTyped
  <2>4. ContentsTyped'
    <3>1. ASSUME NEW i \in 0 .. Waiting - 2
          PROVE  notifications'[Cell(i)'] \in Messages
      BY <2>1, <2>2, TakeArithmetic DEF ContentsTyped
    <3>2. Waiting' = Waiting - 1
      BY <2>1, TakeArithmetic
    <3>3. QED
      BY <2>2, <3>1, <3>2 DEF ContentsTyped
  <2>5. QED
    BY <2>1, <2>3, <2>4, SuccType DEF HandHeld, NoLostWakeup
<1>7. CASE Drained
  BY <1>7, <1>a DEF Drained, ring, HandHeld, NoLostWakeup
<1>8. CASE Send
  BY <1>8, <1>a DEF Send, ring, HandHeld, NoLostWakeup
<1>9. CASE Relock
  BY <1>9, <1>a DEF Relock, ring, HandHeld, NoLostWakeup
<1>10. CASE UNCHANGED vars
  BY <1>10, <1>a DEF vars, ring, HandHeld, NoLostWakeup
<1>11. QED
  BY <1>1, <1>2, <1>3, <1>4, <1>5, <1>6, <1>7, <1>8, <1>9, <1>10
  DEF Next, SomeEnqueue, Receiver, WakeOnSignal

LEMMA InvHolds == Spec => []Inv
  BY InvInit, InvStep, PTL DEF Spec

(* notifications, indices, mutex and thread state stay in their ranges.    *)
THEOREM RingTypeCorrect == Spec => []TypeOK
<1>1. Inv => TypeOK
  BY DEF Inv
<1>2. QED
  BY <1>1, InvHolds, PTL

(* The receiver never sleeps, unsignalled, on a queue with messages in it. *)
THEOREM WakeupNeverLost == Spec => []NoLostWakeup
<1>1. Inv => NoLostWakeup
  BY DEF Inv
<1>2. QED
  BY <1>1, InvHolds, PTL

(* Enqueuer and receiver touch the ring only with the mutex, one at a time. *)
THEOREM RingMutualExclusion == Spec => []MutexHeld
<1>1. Inv => MutexHeld
  BY DEF Inv
<1>2. QED
  BY <1>1, InvHolds, PTL

-----------------------------------------------------------------------------
LEMMA ContentsType ==
  Inv => Contents \in Seq(Messages) /\ Len(Contents) = Waiting /\ Waiting \in Nat
<1> SUFFICES ASSUME Inv
             PROVE  Contents \in Seq(Messages) /\ Len(Contents) = Waiting
                      /\ Waiting \in Nat
  OBVIOUS
<1>1. Waiting \in Nat
  BY WaitingType DEF Inv, TypeOK
<1>2. \A n \in 1 .. Waiting : notifications[Cell(n - 1)] \in Messages
  BY <1>1 DEF Inv, ContentsTyped
<1>3. Contents \in [1 .. Waiting -> Messages]
  BY <1>2 DEF Contents
<1>4. QED
  BY <1>1, <1>3

LEMMA ContentsTypeNext ==
  Inv' => Contents' \in Seq(Messages) /\ Len(Contents') = Waiting' /\ Waiting' \in Nat
<1>1. (Inv => Contents \in Seq(Messages) /\ Len(Contents) = Waiting /\ Waiting \in Nat)'
  BY ContentsType, PTL
<1>2. QED
  BY <1>1

LEMMA ContentsUnchanged == UNCHANGED ring => UNCHANGED Contents
  BY DEF ring, Contents, Waiting, Cell

LEMMA OfferOffers ==
  ASSUME Inv, NEW m \in Messages, LockForEnqueue(m)
  PROVE  Fifo!Offer(m)
<1>1. pending = NoMessage /\ pending' = m /\ UNCHANGED <<ring, msg>>
  BY RingAssumption DEF LockForEnqueue, Inv, TypeOK, MutexHeld
<1>2. QED
  BY <1>1, ContentsUnchanged DEF Fifo!Offer, ring

(* The message is put last while fewer than MAX_NOTIFICATIONS - 1 wait and *)
(* lost when that many do.                                                 *)
LEMMA EnqueuePuts ==
  ASSUME Inv, Inv', Enqueue
  PROVE  Fifo!Put \/ Fifo!Drop
<1>1. pending \in Messages /\ pending # NoMessage /\ pending' = NoMessage
      /\ UNCHANGED msg
  BY RingAssumption DEF Enqueue, Full, Signal, Inv, TypeOK, MutexHeld
<1>2. CASE Succ(notif_head) = notif_tail
  <2>1. UNCHANGED <<Contents, msg>>
    BY <1>1, <1>2, ContentsUnchanged DEF Enqueue, Full, Signal
  <2>2. Waiting = MAX_NOTIFICATIONS - 1
    BY <1>2, WaitingType DEF Inv, TypeOK
  <2>3. Len(Contents) = MAX_NOTIFICATIONS - 1
    BY <2>2, ContentsType
  <2>4. QED
    BY <1>1, <2>1, <2>3 DEF Fifo!Drop
<1>3. CASE Succ(notif_head) # notif_tail
  <2>1. /\ notifications' = [notifications EXCEPT ![notif_head] = pending]
        /\ notif_head' = Succ(notif_head)
        /\ notif_tail' = notif_tail
    BY <1>3 DEF Enqueue, Full, Signal
  <2>2. notif_head \in Cells /\ notif_tail \in Cells
    BY DEF Inv, TypeOK
  <2>3. Waiting \in 0 .. MAX_NOTIFICATIONS - 2
    BY <1>3, <2>2, WaitingType, RingAssumption
  <2>4. Len(Contents) < MAX_NOTIFICATIONS - 1
    BY <2>3, ContentsType, RingAssumption
  <2>5. Contents' = Append(Contents, pending)
    <3>1. Waiting' = Waiting + 1
      BY <1>3, <2>1, <2>2, PutArithmetic
    <3>2. ASSUME NEW i \in 0 .. Waiting
          PROVE  notifications'[Cell(i)'] = IF i = Waiting THEN pending
                                            ELSE notifications[Cell(i)]
      <4>1. i \in 0 .. MAX_NOTIFICATIONS - 1
        BY <2>3, RingAssumption
      <4>2. Cell(i)' = Cell(i) /\ Cell(i) \in Cells
        BY <1>3, <2>1, <2>2, <4>1, PutArithmetic, WaitingType
      <4>3. Cell(i) = notif_head <=> i = Waiting
        BY <1>3, <2>1, <2>2, <2>3, PutArithmetic
      <4>4. QED
        BY <2>1, <4>2, <4>3 DEF Inv, TypeOK
    <3>3. ASSUME NEW n \in 1 .. Waiting + 1
          PROVE  Contents'[n] = IF n = Waiting + 1 THEN pending ELSE Contents[n]
      <4>1. n - 1 \in 0 .. Waiting /\ (n - 1 = Waiting <=> n = Waiting + 1)
            /\ (n # Waiting + 1 => n \in 1 .. Waiting)
        BY <2>3, RingAssumption
      <4>2. Contents'[n] = notifications'[Cell(n - 1)']
        BY <3>1 DEF Contents
      <4>3. n \in 1 .. Waiting => Contents[n] = notifications[Cell(n - 1)]
        BY DEF Contents
      <4>4. QED
        BY <3>2, <4>1, <4>2, <4>3
    <3>4. /\ Contents \in Seq(Messages) /\ Len(Contents) = Waiting
          /\ Contents' \in Seq(Messages) /\ Len(Contents') = Waiting + 1
          /\ Waiting \in Nat
      BY <3>1, ContentsType, ContentsTypeNext
    <3>5. /\ Append(Contents, pending) \in Seq(Messages)
          /\ Len(Append(Contents, pending)) = Waiting + 1
          /\ \A n \in 1 .. Waiting : Append(Contents, pending)[n] = Contents[n]
          /\ Append(Contents, pending)[Waiting + 1] = pending
      BY <1>1, <3>4, AppendProperties
    <3>6. \A n \in 1 .. Len(Contents') : Contents'[n] = Append(Contents, pending)[n]
      <4>1. ASSUME NEW n \in 1 .. Waiting + 1
            PROVE  Contents'[n] = Append(Contents, pending)[n]
        <5>1. CASE n = Waiting + 1
          BY <3>3, <3>5, <5>1
        <5>2. CASE n # Waiting + 1
          <6>1. n \in 1 .. Waiting
            BY <3>4, <5>2
          <6>2. Contents'[n] = Contents[n]
            BY <3>3, <5>2
          <6>3. QED
            BY <3>5, <6>1, <6>2
        <5>3. QED
          BY <5>1, <5>2
      <4>2. QED
        BY <3>4, <4>1
    <3>7. QED
      BY <3>4, <3>5, <3>6, SeqEqual
  <2>6. QED
    BY <1>1, <2>4, <2>5 DEF Fifo!Put
<1>4. QED
  BY <1>2, <1>3

LEMMA TakeTakes ==
  ASSUME Inv, Inv', Take
  PROVE  Fifo!Take
<1>1. /\ msg' = notifications[notif_tail]
      /\ notif_tail' = Succ(notif_tail)
      /\ notif_head' = notif_head
      /\ notifications' = notifications
      /\ ~Empty /\ pc = "take"
      /\ UNCHANGED pending
  BY DEF Take
<1>2. notif_head \in Cells /\ notif_tail \in Cells
  BY DEF Inv, TypeOK
<1>3. Waiting \in Nat /\ Waiting # 0
  BY <1>1, <1>2, WaitingType
<1>4. msg = NoMessage
  BY <1>1 DEF Inv, HandHeld
<1>5. Contents # <<>> /\ msg' = Head(Contents)
  <2>1. Contents[1] = notifications[Cell(0)]
    BY <1>3 DEF Contents
  <2>2. QED
    BY <1>1, <1>2, <1>3, <2>1, ContentsType, TakeArithmetic
<1>6. Contents' = Tail(Contents)
  <2>1. Waiting' = Waiting - 1
    BY <1>1, <1>2, TakeArithmetic
  <2>2. \A n \in 1 .. Waiting - 1 : notifications'[Cell(n - 1)'] = Contents[n + 1]
    <3>1. ASSUME NEW n \in 1 .. Waiting - 1
          PROVE  notifications'[Cell(n - 1)'] = Contents[n + 1]
      <4>1. n - 1 \in 0 .. Waiting - 2 /\ n - 1 + 1 = n /\ n + 1 - 1 = n
            /\ n + 1 \in 1 .. Waiting
        BY <1>3
      <4>2. Cell(n - 1)' = Cell(n - 1 + 1)
        BY <1>1, <1>2, <4>1, TakeArithmetic
      <4>3. Contents[n + 1] = notifications[Cell(n + 1 - 1)]
        BY <4>1 DEF Contents
      <4>4. QED
        BY <1>1, <4>1, <4>2, <4>3
    <3>2. QED
      BY <3>1
  <2>3. /\ Contents \in Seq(Messages) /\ Contents # <<>> /\ Len(Contents) = Waiting
        /\ Contents' \in Seq(Messages) /\ Len(Contents') = Waiting - 1
    BY <1>5, <2>1, ContentsType, ContentsTypeNext
  <2>4. \A n \in 1 .. Len(Contents') : Contents'[n] = Contents[n + 1]
    BY <1>3, <2>1, <2>2, <2>3 DEF Contents
  <2>5. /\ Tail(Contents) \in Seq(Messages)
        /\ Len(Tail(Contents)) = Waiting - 1
        /\ \A n \in 1 .. Waiting - 1 : Tail(Contents)[n] = Contents[n + 1]
    BY <2>3, HeadTailProperties
  <2>6. QED
    BY <2>3, <2>4, <2>5, SeqEqual
<1>7. QED
  BY <1>1, <1>4, <1>5, <1>6 DEF Fifo!Take

LEMMA RingStepRefines ==
  ASSUME Inv, Inv', [Next]_vars
  PROVE  Fifo!Next \/ UNCHANGED <<Contents, pending, msg>>
<1>1. CASE UNCHANGED <<ring, pending, msg>>
  BY <1>1, ContentsUnchanged DEF ring
<1>2. CASE Send
  <2>1. msg # NoMessage /\ msg' = NoMessage /\ UNCHANGED <<ring, pending>>
    BY <1>2, RingAssumption DEF Send, Inv, HandHeld
  <2>2. QED
    BY <2>1, ContentsUnchanged DEF Fifo!Next, Fifo!Send, ring
<1>3. CASE Take
  BY <1>3, TakeTakes DEF Fifo!Next
<1>4. CASE Enqueue
  BY <1>4, EnqueuePuts DEF Fifo!Next
<1>5. CASE \E m \in Messages : LockForEnqueue(m)
  BY <1>5, OfferOffers DEF Fifo!Next
<1>6. QED
  BY <1>1, <1>2, <1>3, <1>4, <1>5
  DEF Next, SomeEnqueue, Receiver, WakeOnSignal, Wake, LockToWait,
      Test, Drained, Relock, vars, ring

(* A ring of any size is a FIFO queue that holds one message less than it  *)
(* has cells: a message that comes while fewer wait is put last, and one   *)
(* that comes while that many wait is lost.                                *)
THEOREM RingIsBoundedFifo == Spec => ImplementsFifo
<1>1. Init => Fifo!Init
  BY DEF Init, Fifo!Init, Contents, Waiting
<1>2. Inv /\ Inv' /\ [Next]_vars => [Fifo!Next]_<<Contents, pending, msg>>
  BY RingStepRefines
<1>3. QED
  BY <1>1, <1>2, InvHolds, PTL DEF Spec, ImplementsFifo, Fifo!Spec, Fifo!vars

=============================================================================
