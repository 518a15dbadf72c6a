---------------------------- MODULE BoundedFifo ----------------------------
(***************************************************************************)
(* What a client's notification queue promises: messages come out in the   *)
(* order they went in, each at most once, and a message is lost only if it *)
(* arrives while `capacity' messages are waiting.                          *)
(***************************************************************************)
EXTENDS Naturals, Sequences

CONSTANTS Messages, Nothing, capacity

VARIABLES
  waiting,   \* the messages in the queue, oldest first
  coming,    \* the message being added, which is neither waiting nor lost yet
  hand       \* the message the receiver took out and has not yet sent

vars == <<waiting, coming, hand>>

Init ==
  /\ waiting = <<>>
  /\ coming = Nothing
  /\ hand = Nothing

Offer(m) ==
  /\ coming = Nothing
  /\ coming' = m
  /\ UNCHANGED <<waiting, hand>>

Put ==
  /\ coming # Nothing
  /\ Len(waiting) < capacity
  /\ waiting' = Append(waiting, coming)
  /\ coming' = Nothing
  /\ UNCHANGED hand

(* Only a full queue loses the message, and keeps those it has.            *)
Drop ==
  /\ coming # Nothing
  /\ Len(waiting) = capacity
  /\ coming' = Nothing
  /\ UNCHANGED <<waiting, hand>>

Take ==
  /\ waiting # <<>>
  /\ hand = Nothing
  /\ hand' = Head(waiting)
  /\ waiting' = Tail(waiting)
  /\ UNCHANGED coming

Send ==
  /\ hand # Nothing
  /\ hand' = Nothing
  /\ UNCHANGED <<waiting, coming>>

Next ==
  \/ \E m \in Messages : Offer(m)
  \/ Put
  \/ Drop
  \/ Take
  \/ Send

Spec == Init /\ [][Next]_vars

=============================================================================
