----------------------------- MODULE NotifyRing -----------------------------
(***************************************************************************)
(* The notification queue of one client: the ring notifications[] with     *)
(* notif_head and notif_tail, the client's mutex and condition variable,   *)
(* enqueue_notification as the agents call it, and the loop of             *)
(* notification_thread_func, which gives the mutex up to send and takes it *)
(* again.  Calls of enqueue_notification never overlap (shm->mutex is held *)
(* around each), so one enqueuer stands for all agents.                    *)
(***************************************************************************)
EXTENDS Integers, Sequences

CONSTANTS
  MAX_NOTIFICATIONS,   \* cells in the ring
  Messages,
  NoMessage

ASSUME RingAssumption ==
  /\ MAX_NOTIFICATIONS \in Nat \ {0}
  /\ NoMessage \notin Messages

Cells == 0 .. MAX_NOTIFICATIONS - 1

VARIABLES
  notifications, notif_head, notif_tail,
  mutex,      \* "free", "enqueuer" or "receiver"
  pending,    \* the argument of the enqueue_notification call that holds the mutex
  signalled,  \* the condition was signalled and the waiter has not run yet
  pc,         \* where notification_thread_func is
  msg         \* its local copy of the message to send

ring == <<notifications, notif_head, notif_tail>>
vars == <<ring, mutex, pending, signalled, pc, msg>>

(* Mutant: the modulo is forgotten.                                        *)
SuccUnwrapped(i) == i + 1

Succ(i) == (i + 1) % MAX_NOTIFICATIONS

Empty == notif_head = notif_tail

Init ==
  /\ notifications \in [Cells -> {NoMessage}]
  /\ notif_head = 0 /\ notif_tail = 0
  /\ mutex = "free"
  /\ pending = NoMessage
  /\ signalled = FALSE
  /\ pc = "lock"
  /\ msg = NoMessage

-----------------------------------------------------------------------------
(* enqueue_notification                                                    *)

LockForEnqueue(m) ==
  /\ mutex = "free"
  /\ mutex' = "enqueuer"
  /\ pending' = m
  /\ UNCHANGED <<ring, signalled, pc, msg>>

(* Mutant: the test leaves a second cell empty.                            *)
FullEarly == Succ(Succ(notif_head)) = notif_tail

Full == Succ(notif_head) = notif_tail

(* Mutant: no pthread_cond_signal.                                         *)
SignalForgotten == UNCHANGED signalled

(* pthread_cond_signal wakes the receiver if it waits and is lost if not.  *)
Signal == signalled' = (signalled \/ pc = "wait")

Enqueue ==
  /\ mutex = "enqueuer"
  /\ IF Full
     THEN UNCHANGED <<ring, signalled>>
     ELSE /\ notifications' = [notifications EXCEPT ![notif_head] = pending]
          /\ notif_head' = Succ(notif_head)
          /\ Signal
          /\ UNCHANGED notif_tail
  /\ mutex' = "free"
  /\ pending' = NoMessage
  /\ UNCHANGED <<pc, msg>>

-----------------------------------------------------------------------------
(* notification_thread_func                                                *)

LockToWait ==
  /\ pc = "lock"
  /\ mutex = "free"
  /\ mutex' = "receiver"
  /\ pc' = "test"
  /\ UNCHANGED <<ring, pending, signalled, msg>>

(* Mutant: pthread_cond_wait without the test before it.                   *)
WaitAtOnce ==
  /\ pc = "test"
  /\ pc' = "wait"
  /\ mutex' = "free"
  /\ UNCHANGED <<ring, pending, signalled, msg>>

(* The while around pthread_cond_wait.                                     *)
Test ==
  /\ pc = "test"
  /\ \/ /\ Empty
        /\ pc' = "wait"
        /\ mutex' = "free"
     \/ /\ ~Empty
        /\ pc' = "take"
        /\ UNCHANGED mutex
  /\ UNCHANGED <<ring, pending, signalled, msg>>

(* A signalled waiter, or one that wakes for no reason, needs the mutex to *)
(* return from pthread_cond_wait.                                          *)
Wake ==
  /\ pc = "wait"
  /\ mutex = "free"
  /\ mutex' = "receiver"
  /\ signalled' = FALSE
  /\ pc' = "test"
  /\ UNCHANGED <<ring, pending, msg>>

WakeOnSignal == signalled /\ Wake

Take ==
  /\ pc = "take"
  /\ ~Empty
  /\ msg' = notifications[notif_tail]
  /\ notif_tail' = Succ(notif_tail)
  /\ mutex' = "free"
  /\ pc' = "send"
  /\ UNCHANGED <<notifications, notif_head, pending, signalled>>

(* Mutant: the unlock at the end of the outer loop is missing.             *)
DrainedKeepingMutex ==
  /\ pc = "take"
  /\ Empty
  /\ pc' = "lock"
  /\ UNCHANGED <<ring, mutex, pending, signalled, msg>>

(* Nothing left: the outer loop starts over and locks again.               *)
Drained ==
  /\ pc = "take"
  /\ Empty
  /\ mutex' = "free"
  /\ pc' = "lock"
  /\ UNCHANGED <<ring, pending, signalled, msg>>

(* notify_client, with no mutex held.                                      *)
Send ==
  /\ pc = "send"
  /\ msg' = NoMessage
  /\ pc' = "relock"
  /\ UNCHANGED <<ring, mutex, pending, signalled>>

Relock ==
  /\ pc = "relock"
  /\ mutex = "free"
  /\ mutex' = "receiver"
  /\ pc' = "take"
  /\ UNCHANGED <<ring, pending, signalled, msg>>

-----------------------------------------------------------------------------
SomeEnqueue == (\E m \in Messages : LockForEnqueue(m)) \/ Enqueue

Receiver ==
  LockToWait \/ Test \/ WakeOnSignal \/ Take \/ Drained \/ Send \/ Relock

Next == SomeEnqueue \/ Receiver \/ Wake

Spec == Init /\ [][Next]_vars

(* Both threads run until they block; nothing is assumed of the mutex but  *)
(* that a thread alone in asking for it gets it, and nothing makes the     *)
(* waiter wake without a signal.                                           *)
FairSpec == Spec /\ WF_vars(Enqueue) /\ WF_vars(Receiver)

-----------------------------------------------------------------------------
(* The message in the cell i steps after the tail.                         *)
Cell(i) == IF notif_tail + i < MAX_NOTIFICATIONS
           THEN notif_tail + i
           ELSE notif_tail + i - MAX_NOTIFICATIONS

Waiting == IF notif_tail <= notif_head
           THEN notif_head - notif_tail
           ELSE notif_head - notif_tail + MAX_NOTIFICATIONS

Contents == [n \in 1 .. Waiting |-> notifications[Cell(n - 1)]]

TypeOK ==
  /\ notifications \in [Cells -> Messages \cup {NoMessage}]
  /\ notif_head \in Cells
  /\ notif_tail \in Cells
  /\ mutex \in {"free", "enqueuer", "receiver"}
  /\ pending \in Messages \cup {NoMessage}
  /\ signalled \in BOOLEAN
  /\ pc \in {"lock", "test", "wait", "take", "send", "relock"}
  /\ msg \in Messages \cup {NoMessage}

(* A receiver asleep with no signal on its way has nothing to send: the    *)
(* test before pthread_cond_wait and the signal of enqueue_notification    *)
(* cannot miss each other, although the receiver gives the mutex up        *)
(* between taking messages.                                                *)
NoLostWakeup == pc = "wait" /\ ~signalled => Empty

(* Enqueuer and receiver are never both inside.                            *)
MutexHeld ==
  /\ pc \in {"test", "take"} <=> mutex = "receiver"
  /\ pending # NoMessage <=> mutex = "enqueuer"

(* The ring is a first-in first-out queue for MAX_NOTIFICATIONS - 1        *)
(* messages: one cell always stays empty, since head = tail means empty.   *)
(* The message enqueue_notification was called with is put last unless     *)
(* that many wait, and is lost then and only then.                         *)
Fifo == INSTANCE BoundedFifo WITH
          Nothing  <- NoMessage,
          capacity <- MAX_NOTIFICATIONS - 1,
          waiting  <- Contents,
          coming   <- pending,
          hand     <- msg

ImplementsFifo == Fifo!Spec

(* Once the agents stop adding to the queue it is emptied and stays so,    *)
(* whatever was enqueued while the receiver was sending without the mutex. *)
EverythingIsSent ==
  <>[][~SomeEnqueue]_vars => <>[](Empty /\ msg = NoMessage)

=============================================================================
