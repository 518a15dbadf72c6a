-------------------------- MODULE AgentPoolProofs --------------------------
(***************************************************************************)
(* Theorems about AgentPool: types, the mutexes, and who a slot belongs    *)
(* to.                                                                     *)
(***************************************************************************)
EXTENDS AgentPool, SequenceTheorems, TLAPS

(* The threads of a process that exists work under the number of a slot;   *)
(* before it exists its notification thread is at its beginning.           *)
Forked ==
  \A a \in Clients :
    /\ Running(a) => client_id[a] \in Slots
    /\ agent[a] = "none" => notif[a] = "lock" /\ client_id[a] = -1

TypeInv == TypeOK /\ Forked

(* The two threads of every agent hold mutexes under names of their own.   *)
LEMMA Holders ==
  /\ \A a, b \in Clients :
       /\ Cmd(a) # Free /\ Ntf(a) # Free /\ Cmd(a) # Ntf(b)
       /\ Cmd(a) = Cmd(b) => a = b
       /\ Ntf(a) = Ntf(b) => a = b
  /\ \A a \in Clients : Cmd(a) \in {"cmd", "ntf"} \X Clients /\ Ntf(a) \in {"cmd", "ntf"} \X Clients
  BY DEF Cmd, Ntf, Free

LEMMA TypeInit == Init => TypeInv
  BY PoolAssumption DEF Init, TypeInv, TypeOK, Forked, Running, Slots, Free, Notices, NoNotices

(* One step per action, here and in the lemmas that follow.                *)
LEMMA ForkedStep == TypeOK /\ Forked /\ [Next]_vars => Forked'
<1> SUFFICES ASSUME TypeOK, Forked, [Next]_vars PROVE Forked'
  OBVIOUS
<1> USE DEF TypeOK, Forked, Running, shared, cmdvars, ntfvars, outside
<1>1. CASE UNCHANGED vars
  BY <1>1 DEF vars
<1>2. ASSUME NEW a \in Clients, connect(a) PROVE Forked'
  BY <1>2 DEF connect
<1>3. ASSUME NEW a \in Clients, close_socket(a) PROVE Forked'
  BY <1>3 DEF close_socket
<1>4. ASSUME NEW a \in Clients, read_line(a) PROVE Forked'
  BY <1>4 DEF read_line
<1>5. ASSUME NEW a \in Clients, read_eof(a) PROVE Forked'
  BY <1>5 DEF read_eof
<1>6. ASSUME NEW a \in Clients, register_client(a) PROVE Forked'
  BY <1>6 DEF register_client, TakeSlot, ResetQueue
<1>7. ASSUME NEW a \in Clients, register_client_full(a) PROVE Forked'
  BY <1>7 DEF register_client_full
<1>8. ASSUME NEW a \in Clients, cancel_notification(a) PROVE Forked'
  BY <1>8 DEF cancel_notification
<1>9. ASSUME NEW a \in Clients, join_notification(a) PROVE Forked'
  BY <1>9 DEF join_notification
<1>10. ASSUME NEW a \in Clients, remove_client_resources(a) PROVE Forked'
  BY <1>10 DEF remove_client_resources, RecordsWithout
<1>11. ASSUME NEW a \in Clients, lock_shm(a) PROVE Forked'
  BY <1>11 DEF lock_shm
<1>12. ASSUME NEW a \in Clients, run_command(a) PROVE Forked'
  BY <1>12 DEF run_command, Written, Killed
<1>13. ASSUME NEW a \in Clients, run_quit(a) PROVE Forked'
  BY <1>13 DEF run_quit, UnlockAndReturn, Written, Killed
<1>14. ASSUME NEW a \in Clients, NEW s \in Slots, enqueue_lock(a, s) PROVE Forked'
  BY <1>14 DEF enqueue_lock
<1>15. ASSUME NEW a \in Clients, NEW s \in Slots, enqueue_put(a, s) PROVE Forked'
  BY <1>15 DEF enqueue_put, Room, Signal, Waiters, UnlockSlot
<1>16. ASSUME NEW a \in Clients, unlock_shm(a) PROVE Forked'
  BY <1>16 DEF unlock_shm
<1>17. ASSUME NEW a \in Clients, notif_lock(a) PROVE Forked'
  BY <1>17 DEF notif_lock, Goto
<1>18. ASSUME NEW a \in Clients, notif_test(a) PROVE Forked'
  BY <1>18 DEF notif_test, Goto
<1>19. ASSUME NEW a \in Clients, notif_wake(a) PROVE Forked'
  BY <1>19 DEF notif_wake, Goto
<1>20. ASSUME NEW a \in Clients, notif_cancelled_waiting(a) PROVE Forked'
  BY <1>20 DEF notif_cancelled_waiting, Goto
<1>21. ASSUME NEW a \in Clients, notif_take(a) PROVE Forked'
  BY <1>21 DEF notif_take, Goto, UnlockToSend
<1>22. ASSUME NEW a \in Clients, notif_send(a) PROVE Forked'
  BY <1>22 DEF notif_send, Goto, Written, Killed
<1> QED
  BY <1>1, <1>2, <1>3, <1>4, <1>5, <1>6, <1>7, <1>8, <1>9, <1>10, <1>11, <1>12, <1>13, <1>14, <1>15, <1>16, <1>17, <1>18, <1>19, <1>20, <1>21, <1>22
     DEF Next, MainThread, CommandThread, NotificationThread

(* The two halves of LocksHeldInside.                                      *)
ShmHeldInside ==
  \A a \in Clients : shm_mutex = a <=> cmd[a] \in {"run", "notify", "put"}

SlotHeldInside ==
  \A s \in Slots, a \in Clients :
    /\ mutex[s] = Cmd(a) => cmd[a] = "put" /\ todo[a][s] > 0
    /\ mutex[s] = Ntf(a) =>
         /\ client_id[a] = s
         /\ notif[a] \in {"test", "take"} \/ (notif[a] = "done" /\ cancelled[a])

(* A notice less to enqueue.                                               *)
LEMMA OneLess ==
  ASSUME todo \in [Clients -> Notices], NEW a \in Clients, NEW s \in Slots, todo[a][s] > 0
  PROVE  [todo EXCEPT ![a][s] = @ - 1] \in [Clients -> Notices]
<1>1. todo[a] \in [Slots -> 0 .. MaxNotices] /\ MaxNotices \in Nat
  BY PoolAssumption DEF Notices
<1>2. todo[a][s] - 1 \in 0 .. MaxNotices
  BY <1>1
<1>3. [todo[a] EXCEPT ![s] = @ - 1] \in Notices
  BY <1>1, <1>2 DEF Notices
<1> QED
  BY <1>3

(* Facts that keep the larger steps of TypeStep small.                     *)
LEMMA Update ==
  ASSUME NEW S, NEW T, NEW f \in [S -> T], NEW x, NEW v \in T
  PROVE  [f EXCEPT ![x] = v] \in [S -> T]
  OBVIOUS

LEMMA RoomType ==
  ASSUME room \in [Clients -> 0 .. SOCKET_ROOM], SOCKET_ROOM \in Nat,
         NEW a \in Clients, Written(a) \/ Killed(a)
  PROVE  room' \in [Clients -> 0 .. SOCKET_ROOM]
<1>1. CASE UNCHANGED room
  BY <1>1
<1>2. CASE room[a] > 0 /\ room' = [room EXCEPT ![a] = @ - 1]
  BY <1>2
<1> QED
  BY <1>1, <1>2 DEF Written, Killed

LEMMA TypeStep == TypeOK /\ Forked /\ SlotHeldInside /\ [Next]_vars => TypeOK'
<1> SUFFICES ASSUME TypeOK, Forked, SlotHeldInside, [Next]_vars PROVE TypeOK'
  OBVIOUS
<1> USE DEF shared, cmdvars, ntfvars, outside
<1>0. /\ NoClient \notin Clients /\ QUEUE_ROOM \in Nat /\ SOCKET_ROOM \in Nat
      /\ -1 \notin Slots
      /\ \A a \in Clients : Running(a) => client_id[a] \in Slots
  BY PoolAssumption DEF Slots, Forked
<1>1. CASE UNCHANGED vars
  BY <1>0, <1>1 DEF vars, TypeOK
<1>2. ASSUME NEW a \in Clients, connect(a) PROVE TypeOK'
  BY <1>0, <1>2 DEF connect, TypeOK
<1>3. ASSUME NEW a \in Clients, close_socket(a) PROVE TypeOK'
  BY <1>0, <1>3 DEF close_socket, TypeOK
<1>4. ASSUME NEW a \in Clients, read_line(a) PROVE TypeOK'
  <2>1. UNCHANGED <<shm_mutex, client_socket, mutex, queue, records, agent, client_id, todo, notif, hand, signalled, cancelled, peer, room>>
    BY <1>4 DEF read_line
  <2>2. line' \in [Clients -> {"none", "command", "quit"}]
    BY <1>0, <1>4 DEF read_line, TypeOK
  <2>3. cmd' \in [Clients -> {"read", "lock", "run", "notify", "put", "done"}]
    BY <1>0, <1>4 DEF read_line, TypeOK
  <2>4. lines' \in [Clients -> Nat]
    BY <1>0, <1>4 DEF read_line, TypeOK
  <2> QED
    BY <2>1, <2>2, <2>3, <2>4 DEF TypeOK
<1>5. ASSUME NEW a \in Clients, read_eof(a) PROVE TypeOK'
  BY <1>0, <1>5 DEF read_eof, TypeOK
<1>6. ASSUME NEW a \in Clients, register_client(a) PROVE TypeOK'
  BY <1>0, <1>6, EmptySeq DEF register_client, TakeSlot, ResetQueue, TypeOK
<1>7. ASSUME NEW a \in Clients, register_client_full(a) PROVE TypeOK'
  <2>1. UNCHANGED <<shm_mutex, client_socket, mutex, queue, records, cmd, line, todo, notif, hand, signalled, cancelled, peer, lines, room>>
    BY <1>7 DEF register_client_full
  <2>2. client_id' \in [Clients -> Slots \cup {-1}]
    <3>1. \/ client_id' = client_id
              \/ \E s \in Slots : client_id' = [client_id EXCEPT ![a] = s]
      BY <1>7 DEF register_client_full
    <3> QED
      BY <1>0, <3>1 DEF TypeOK
  <2>3. agent' \in [Clients -> {"none", "serving", "joining", "cleaning", "gone", "killed"}]
    <3>1. \/ agent' = [agent EXCEPT ![a] = "serving"]
              \/ agent' = [agent EXCEPT ![a] = "killed"]
      BY <1>7 DEF register_client_full
    <3> QED
      BY <1>0, <3>1 DEF TypeOK
  <2> QED
    BY <2>1, <2>2, <2>3 DEF TypeOK
<1>8. ASSUME NEW a \in Clients, cancel_notification(a) PROVE TypeOK'
  BY <1>0, <1>8 DEF cancel_notification, TypeOK
<1>9. ASSUME NEW a \in Clients, join_notification(a) PROVE TypeOK'
  BY <1>0, <1>9 DEF join_notification, TypeOK
<1>10. ASSUME NEW a \in Clients, remove_client_resources(a) PROVE TypeOK'
  BY <1>0, <1>10 DEF remove_client_resources, RecordsWithout, TypeOK
<1>11. ASSUME NEW a \in Clients, lock_shm(a) PROVE TypeOK'
  BY <1>0, <1>11 DEF lock_shm, TypeOK
<1>12. ASSUME NEW a \in Clients, run_command(a) PROVE TypeOK'
  <2>1. UNCHANGED <<shm_mutex, client_socket, mutex, queue, client_id, line, notif, hand, signalled, cancelled, peer, lines>>
    BY <1>12 DEF run_command, Written, Killed
  <2>2. records' \in [Slots -> SUBSET Clients]
    <3>1. \/ records' = records
              \/ records' = [records EXCEPT ![client_id[a]] = @ \cup {a}]
      BY <1>12 DEF run_command, Written, Killed
    <3>2. records[client_id[a]] \cup {a} \in SUBSET Clients
      BY <1>0, <1>12 DEF run_command, TypeOK
    <3> QED
      <4>1. records \in [Slots -> SUBSET Clients]
        BY DEF TypeOK
      <4> QED
        BY <3>1, <3>2, <4>1, Update
  <2>3. todo' \in [Clients -> Notices]
    <3>1. \/ todo' = todo
              \/ \E told \in Notices : todo' = [todo EXCEPT ![a] = told]
      BY <1>12 DEF run_command, Written, Killed
    <3> QED
      BY <1>0, <3>1 DEF TypeOK
  <2>4. cmd' \in [Clients -> {"read", "lock", "run", "notify", "put", "done"}]
    <3>1. \/ cmd' = cmd
              \/ cmd' = [cmd EXCEPT ![a] = "notify"]
      BY <1>12 DEF run_command, Written, Killed
    <3> QED
      BY <1>0, <3>1 DEF TypeOK
  <2>5. agent' \in [Clients -> {"none", "serving", "joining", "cleaning", "gone", "killed"}]
    <3>1. \/ agent' = agent
              \/ agent' = [agent EXCEPT ![a] = "killed"]
      BY <1>12 DEF run_command, Written, Killed
    <3> QED
      BY <1>0, <3>1 DEF TypeOK
  <2>6. room' \in [Clients -> 0 .. SOCKET_ROOM]
    <3>1. Written(a) \/ Killed(a)
      BY <1>12 DEF run_command
    <3> QED
      BY <1>0, <3>1, RoomType DEF TypeOK
  <2> QED
    BY <2>1, <2>2, <2>3, <2>4, <2>5, <2>6 DEF TypeOK
<1>13. ASSUME NEW a \in Clients, run_quit(a) PROVE TypeOK'
  <2>1. UNCHANGED <<client_socket, mutex, queue, records, client_id, line, todo, notif, hand, signalled, cancelled, peer, lines>>
    BY <1>13 DEF run_quit, UnlockAndReturn, Written, Killed
  <2>2. shm_mutex' \in Clients \cup {NoClient}
    <3>1. shm_mutex' \in {shm_mutex, NoClient}
      BY <1>13 DEF run_quit, UnlockAndReturn, Written, Killed
    <3> QED
      BY <1>0, <3>1 DEF TypeOK
  <2>3. cmd' \in [Clients -> {"read", "lock", "run", "notify", "put", "done"}]
    <3>1. \/ cmd' = cmd
              \/ cmd' = [cmd EXCEPT ![a] = "done"]
      BY <1>13 DEF run_quit, UnlockAndReturn, Written, Killed
    <3> QED
      BY <1>0, <3>1 DEF TypeOK
  <2>4. agent' \in [Clients -> {"none", "serving", "joining", "cleaning", "gone", "killed"}]
    <3>1. \/ agent' = agent
              \/ agent' = [agent EXCEPT ![a] = "killed"]
      BY <1>13 DEF run_quit, UnlockAndReturn, Written, Killed
    <3> QED
      BY <1>0, <3>1 DEF TypeOK
  <2>5. room' \in [Clients -> 0 .. SOCKET_ROOM]
    <3>1. Written(a) \/ Killed(a)
      BY <1>13 DEF run_quit
    <3> QED
      BY <1>0, <3>1, RoomType DEF TypeOK
  <2> QED
    BY <2>1, <2>2, <2>3, <2>4, <2>5 DEF TypeOK
<1>14. ASSUME NEW a \in Clients, NEW s \in Slots, enqueue_lock(a, s) PROVE TypeOK'
  BY <1>0, <1>14, Holders DEF enqueue_lock, TypeOK
<1>15. ASSUME NEW a \in Clients, NEW s \in Slots, enqueue_put(a, s) PROVE TypeOK'
  <2>1. UNCHANGED <<shm_mutex, client_socket, records, agent, client_id, line, notif, hand, cancelled, peer, lines, room>>
    BY <1>15 DEF enqueue_put, Room, Signal, Waiters, UnlockSlot
  <2>2. /\ queue' \in [Slots -> Seq(Clients)]
         /\ \A r \in Slots : Len(queue'[r]) <= QUEUE_ROOM
    <3>1. \/ queue' = queue
          \/ \E b \in Clients : /\ Len(queue[s]) < QUEUE_ROOM
                                /\ queue' = [queue EXCEPT ![s] = Append(@, b)]
      BY <1>15 DEF enqueue_put, Room, TypeOK
    <3>2. \A b \in Clients : /\ Append(queue[s], b) \in Seq(Clients)
                             /\ Len(Append(queue[s], b)) = Len(queue[s]) + 1
      BY AppendProperties DEF TypeOK
    <3>3. Len(queue[s]) \in Nat
      BY LenProperties DEF TypeOK
    <3>4. queue \in [Slots -> Seq(Clients)] /\ \A r \in Slots : Len(queue[r]) <= QUEUE_ROOM
      BY DEF TypeOK
    <3>5. ASSUME NEW b \in Clients, Len(queue[s]) < QUEUE_ROOM,
                 queue' = [queue EXCEPT ![s] = Append(@, b)]
          PROVE  /\ queue' \in [Slots -> Seq(Clients)]
                 /\ \A r \in Slots : Len(queue'[r]) <= QUEUE_ROOM
      <4>1. queue' \in [Slots -> Seq(Clients)]
        BY <3>2, <3>4, <3>5, Update
      <4>2. ASSUME NEW r \in Slots PROVE Len(queue'[r]) <= QUEUE_ROOM
        BY <1>0, <3>2, <3>3, <3>4, <3>5
      <4> QED
        BY <4>1, <4>2
    <3> QED
      BY <3>1, <3>4, <3>5
  <2>3. signalled' \in [Clients -> BOOLEAN]
    <3>1. \/ signalled' = signalled
              \/ \E b \in Clients : signalled' = [signalled EXCEPT ![b] = TRUE]
      BY <1>15 DEF enqueue_put, Room, Signal, Waiters, UnlockSlot
    <3> QED
      BY <1>0, <3>1 DEF TypeOK
  <2>4. mutex' \in [Slots -> {Free} \cup ({"cmd", "ntf"} \X Clients)]
    BY <1>0, <1>15 DEF enqueue_put, Room, Signal, Waiters, UnlockSlot, TypeOK
  <2>5. todo' \in [Clients -> Notices]
    <3>1. todo[a][s] > 0 /\ todo' = [todo EXCEPT ![a][s] = @ - 1]
      BY <1>15 DEF enqueue_put, SlotHeldInside
    <3>2. todo \in [Clients -> Notices]
      BY DEF TypeOK
    <3> QED
      BY <3>1, <3>2, OneLess
  <2>6. cmd' \in [Clients -> {"read", "lock", "run", "notify", "put", "done"}]
    BY <1>0, <1>15 DEF enqueue_put, Room, Signal, Waiters, UnlockSlot, TypeOK
  <2> QED
    BY <2>1, <2>2, <2>3, <2>4, <2>5, <2>6 DEF TypeOK
<1>16. ASSUME NEW a \in Clients, unlock_shm(a) PROVE TypeOK'
  BY <1>0, <1>16 DEF unlock_shm, TypeOK
<1>17. ASSUME NEW a \in Clients, notif_lock(a) PROVE TypeOK'
  <2>1. UNCHANGED <<shm_mutex, client_socket, queue, records, agent, client_id, cmd, line, todo, hand, signalled, cancelled, peer, lines, room>>
    BY <1>17 DEF notif_lock, Goto
  <2>2. notif' \in [Clients -> {"lock", "test", "wait", "take", "send", "relock", "done"}]
    <3>1. \/ notif' = [notif EXCEPT ![a] = "test"]
              \/ notif' = [notif EXCEPT ![a] = "take"]
      BY <1>17 DEF notif_lock, Goto
    <3> QED
      BY <1>0, <3>1 DEF TypeOK
  <2>3. mutex' \in [Slots -> {Free} \cup ({"cmd", "ntf"} \X Clients)]
    BY <1>0, <1>17, Holders DEF notif_lock, Goto, TypeOK
  <2> QED
    BY <2>1, <2>2, <2>3 DEF TypeOK
<1>18. ASSUME NEW a \in Clients, notif_test(a) PROVE TypeOK'
  <2>1. UNCHANGED <<shm_mutex, client_socket, queue, records, agent, client_id, cmd, line, todo, hand, signalled, cancelled, peer, lines, room>>
    BY <1>18 DEF notif_test, Goto
  <2>2. notif' \in [Clients -> {"lock", "test", "wait", "take", "send", "relock", "done"}]
    <3>1. \/ notif' = [notif EXCEPT ![a] = "wait"]
              \/ notif' = [notif EXCEPT ![a] = "take"]
      BY <1>18 DEF notif_test, Goto
    <3> QED
      BY <1>0, <3>1 DEF TypeOK
  <2>3. mutex' \in [Slots -> {Free} \cup ({"cmd", "ntf"} \X Clients)]
    <3>1. \/ mutex' = mutex
              \/ mutex' = [mutex EXCEPT ![client_id[a]] = Free]
      BY <1>18 DEF notif_test, Goto
    <3> QED
      BY <1>0, <3>1 DEF TypeOK
  <2> QED
    BY <2>1, <2>2, <2>3 DEF TypeOK
<1>19. ASSUME NEW a \in Clients, notif_wake(a) PROVE TypeOK'
  BY <1>0, <1>19, Holders DEF notif_wake, Goto, TypeOK
<1>20. ASSUME NEW a \in Clients, notif_cancelled_waiting(a) PROVE TypeOK'
  BY <1>0, <1>20, Holders DEF notif_cancelled_waiting, Goto, TypeOK
<1>21. ASSUME NEW a \in Clients, notif_take(a) PROVE TypeOK'
  <2>1. UNCHANGED <<shm_mutex, client_socket, records, agent, client_id, cmd, line, todo, signalled, cancelled, peer, lines, room>>
    BY <1>21 DEF notif_take, Goto, UnlockToSend
  <2>2. notif' \in [Clients -> {"lock", "test", "wait", "take", "send", "relock", "done"}]
    <3>1. \/ notif' = [notif EXCEPT ![a] = "send"]
              \/ notif' = [notif EXCEPT ![a] = "lock"]
      BY <1>21 DEF notif_take, Goto, UnlockToSend
    <3> QED
      BY <1>0, <3>1 DEF TypeOK
  <2>3. mutex' \in [Slots -> {Free} \cup ({"cmd", "ntf"} \X Clients)]
    BY <1>0, <1>21 DEF notif_take, Goto, UnlockToSend, TypeOK
  <2>4. /\ hand' \in [Clients -> Clients \cup {NoClient}]
        /\ queue' \in [Slots -> Seq(Clients)]
        /\ \A r \in Slots : Len(queue'[r]) <= QUEUE_ROOM
    <3>1. CASE UNCHANGED <<hand, queue>>
      BY <3>1 DEF TypeOK
    <3>2. CASE /\ queue[client_id[a]] # <<>>
               /\ hand' = [hand EXCEPT ![a] = Head(queue[client_id[a]])]
               /\ queue' = [queue EXCEPT ![client_id[a]] = Tail(@)]
      <4>1. queue[client_id[a]] \in Seq(Clients) /\ Len(queue[client_id[a]]) <= QUEUE_ROOM
        BY <1>0, <1>21 DEF notif_take, TypeOK
      <4>2. /\ Head(queue[client_id[a]]) \in Clients
            /\ Tail(queue[client_id[a]]) \in Seq(Clients)
            /\ Len(Tail(queue[client_id[a]])) <= QUEUE_ROOM
        BY <1>0, <3>2, <4>1, HeadTailProperties, LenProperties
      <4> QED
        BY <3>2, <4>2 DEF TypeOK
    <3> QED
      BY <1>21, <3>1, <3>2 DEF notif_take
  <2> QED
    BY <2>1, <2>2, <2>3, <2>4 DEF TypeOK
<1>22. ASSUME NEW a \in Clients, notif_send(a) PROVE TypeOK'
  <2>1. UNCHANGED <<shm_mutex, client_socket, mutex, queue, records, client_id, cmd, line, todo, signalled, cancelled, peer, lines>>
    BY <1>22 DEF notif_send, Goto, Written, Killed
  <2>2. notif' \in [Clients -> {"lock", "test", "wait", "take", "send", "relock", "done"}]
    <3>1. \/ notif' = [notif EXCEPT ![a] = "relock"]
              \/ notif' = [notif EXCEPT ![a] = "done"]
              \/ notif' = notif
      BY <1>22 DEF notif_send, Goto, Written, Killed
    <3> QED
      BY <1>0, <3>1 DEF TypeOK
  <2>3. hand' \in [Clients -> Clients \cup {NoClient}]
    BY <1>0, <1>22 DEF notif_send, Goto, Written, Killed, TypeOK
  <2>4. agent' \in [Clients -> {"none", "serving", "joining", "cleaning", "gone", "killed"}]
    <3>1. \/ agent' = agent
              \/ agent' = [agent EXCEPT ![a] = "killed"]
      BY <1>22 DEF notif_send, Goto, Written, Killed
    <3> QED
      BY <1>0, <3>1 DEF TypeOK
  <2>5. room' \in [Clients -> 0 .. SOCKET_ROOM]
    <3>1. Written(a) \/ Killed(a) \/ UNCHANGED room
      BY <1>22 DEF notif_send
    <3> QED
      BY <1>0, <3>1, RoomType DEF TypeOK
  <2> QED
    BY <2>1, <2>2, <2>3, <2>4, <2>5 DEF TypeOK
<1> QED
  BY <1>0, <1>1, <1>2, <1>3, <1>4, <1>5, <1>6, <1>7, <1>8, <1>9, <1>10, <1>11, <1>12, <1>13, <1>14, <1>15, <1>16, <1>17, <1>18, <1>19, <1>20, <1>21, <1>22
     DEF Next, MainThread, CommandThread, NotificationThread

(* An enqueuer holds one slot mutex at a time.                             *)
OneEnqueue ==
  \A s, r \in Slots, a \in Clients : mutex[s] = Cmd(a) /\ mutex[r] = Cmd(a) => s = r

(* shm->mutex: every action that takes or gives it moves the thread too.   *)
LEMMA ShmStep == TypeOK /\ ShmHeldInside /\ [Next]_vars => ShmHeldInside'
<1> SUFFICES ASSUME TypeOK, ShmHeldInside, [Next]_vars PROVE ShmHeldInside'
  OBVIOUS
<1> USE DEF ShmHeldInside, shared, cmdvars, ntfvars, outside
<1>0. /\ NoClient \notin Clients
      /\ cmd \in [Clients -> {"read", "lock", "run", "notify", "put", "done"}]
  BY PoolAssumption DEF TypeOK
<1>1. CASE UNCHANGED vars
  BY <1>1 DEF vars
<1>2. ASSUME NEW a \in Clients, connect(a) PROVE ShmHeldInside'
  BY <1>0, <1>2 DEF connect
<1>3. ASSUME NEW a \in Clients, close_socket(a) PROVE ShmHeldInside'
  BY <1>0, <1>3 DEF close_socket
<1>4. ASSUME NEW a \in Clients, read_line(a) PROVE ShmHeldInside'
  BY <1>0, <1>4 DEF read_line
<1>5. ASSUME NEW a \in Clients, read_eof(a) PROVE ShmHeldInside'
  BY <1>0, <1>5 DEF read_eof
<1>6. ASSUME NEW a \in Clients, register_client(a) PROVE ShmHeldInside'
  BY <1>0, <1>6 DEF register_client, TakeSlot, ResetQueue
<1>7. ASSUME NEW a \in Clients, register_client_full(a) PROVE ShmHeldInside'
  BY <1>0, <1>7 DEF register_client_full
<1>8. ASSUME NEW a \in Clients, cancel_notification(a) PROVE ShmHeldInside'
  BY <1>0, <1>8 DEF cancel_notification
<1>9. ASSUME NEW a \in Clients, join_notification(a) PROVE ShmHeldInside'
  BY <1>0, <1>9 DEF join_notification
<1>10. ASSUME NEW a \in Clients, remove_client_resources(a) PROVE ShmHeldInside'
  BY <1>0, <1>10 DEF remove_client_resources, RecordsWithout
<1>11. ASSUME NEW a \in Clients, lock_shm(a) PROVE ShmHeldInside'
  BY <1>0, <1>11 DEF lock_shm
<1>12. ASSUME NEW a \in Clients, run_command(a) PROVE ShmHeldInside'
  BY <1>0, <1>12 DEF run_command, Written, Killed
<1>13. ASSUME NEW a \in Clients, run_quit(a) PROVE ShmHeldInside'
  BY <1>0, <1>13 DEF run_quit, UnlockAndReturn, Written, Killed
<1>14. ASSUME NEW a \in Clients, NEW s \in Slots, enqueue_lock(a, s) PROVE ShmHeldInside'
  BY <1>0, <1>14 DEF enqueue_lock
<1>15. ASSUME NEW a \in Clients, NEW s \in Slots, enqueue_put(a, s) PROVE ShmHeldInside'
  BY <1>0, <1>15 DEF enqueue_put, UnlockSlot
<1>16. ASSUME NEW a \in Clients, unlock_shm(a) PROVE ShmHeldInside'
  BY <1>0, <1>16 DEF unlock_shm
<1>17. ASSUME NEW a \in Clients, notif_lock(a) PROVE ShmHeldInside'
  BY <1>0, <1>17 DEF notif_lock, Goto
<1>18. ASSUME NEW a \in Clients, notif_test(a) PROVE ShmHeldInside'
  BY <1>0, <1>18 DEF notif_test, Goto
<1>19. ASSUME NEW a \in Clients, notif_wake(a) PROVE ShmHeldInside'
  BY <1>0, <1>19 DEF notif_wake, Goto
<1>20. ASSUME NEW a \in Clients, notif_cancelled_waiting(a) PROVE ShmHeldInside'
  BY <1>0, <1>20 DEF notif_cancelled_waiting, Goto
<1>21. ASSUME NEW a \in Clients, notif_take(a) PROVE ShmHeldInside'
  BY <1>0, <1>21 DEF notif_take, Goto, UnlockToSend
<1>22. ASSUME NEW a \in Clients, notif_send(a) PROVE ShmHeldInside'
  BY <1>0, <1>22 DEF notif_send, Goto, Written, Killed
<1> QED
  BY <1>1, <1>2, <1>3, <1>4, <1>5, <1>6, <1>7, <1>8, <1>9, <1>10, <1>11, <1>12,
     <1>13, <1>14, <1>15, <1>16, <1>17, <1>18, <1>19, <1>20, <1>21, <1>22
     DEF Next, MainThread, CommandThread, NotificationThread

(* The slot mutexes: a thread only ever takes the one of its own slot or   *)
(* of one it has yet to notify.                                            *)
LEMMA SlotStep == TypeOK /\ Forked /\ OneEnqueue /\ SlotHeldInside /\ [Next]_vars => SlotHeldInside'
<1> SUFFICES ASSUME TypeOK, Forked, OneEnqueue, SlotHeldInside, [Next]_vars PROVE SlotHeldInside'
  OBVIOUS
<1> USE DEF SlotHeldInside, shared, cmdvars, ntfvars, outside
<1>0. /\ cmd \in [Clients -> {"read", "lock", "run", "notify", "put", "done"}]
      /\ mutex \in [Slots -> {Free} \cup ({"cmd", "ntf"} \X Clients)]
      /\ todo \in [Clients -> Notices]
      /\ notif \in [Clients -> {"lock", "test", "wait", "take", "send", "relock", "done"}]
      /\ cancelled \in [Clients -> BOOLEAN]
      /\ client_id \in [Clients -> Slots \cup {-1}]
  BY DEF TypeOK
<1>1. CASE UNCHANGED vars
  BY <1>1 DEF vars
<1>2. ASSUME NEW a \in Clients, connect(a) PROVE SlotHeldInside'
  BY <1>0, <1>2 DEF connect
<1>3. ASSUME NEW a \in Clients, close_socket(a) PROVE SlotHeldInside'
  BY <1>0, <1>3 DEF close_socket
<1>4. ASSUME NEW a \in Clients, read_line(a) PROVE SlotHeldInside'
  BY <1>0, <1>4 DEF read_line
<1>5. ASSUME NEW a \in Clients, read_eof(a) PROVE SlotHeldInside'
  BY <1>0, <1>5 DEF read_eof
<1>6. ASSUME NEW a \in Clients, register_client(a) PROVE SlotHeldInside'
  BY <1>0, <1>6 DEF register_client, TakeSlot, ResetQueue, Forked
<1>7. ASSUME NEW a \in Clients, register_client_full(a) PROVE SlotHeldInside'
  BY <1>0, <1>7 DEF register_client_full, Forked
<1>8. ASSUME NEW a \in Clients, cancel_notification(a) PROVE SlotHeldInside'
  BY <1>0, <1>8 DEF cancel_notification
<1>9. ASSUME NEW a \in Clients, join_notification(a) PROVE SlotHeldInside'
  BY <1>0, <1>9 DEF join_notification
<1>10. ASSUME NEW a \in Clients, remove_client_resources(a) PROVE SlotHeldInside'
  BY <1>0, <1>10 DEF remove_client_resources, RecordsWithout
<1>11. ASSUME NEW a \in Clients, lock_shm(a) PROVE SlotHeldInside'
  BY <1>0, <1>11 DEF lock_shm
<1>12. ASSUME NEW a \in Clients, run_command(a) PROVE SlotHeldInside'
  BY <1>0, <1>12 DEF run_command, Written, Killed
<1>13. ASSUME NEW a \in Clients, run_quit(a) PROVE SlotHeldInside'
  BY <1>0, <1>13 DEF run_quit, UnlockAndReturn, Written, Killed
<1>14. ASSUME NEW a \in Clients, NEW s \in Slots, enqueue_lock(a, s) PROVE SlotHeldInside'
  BY <1>0, <1>14, Holders DEF enqueue_lock
<1>15. ASSUME NEW a \in Clients, NEW s \in Slots, enqueue_put(a, s) PROVE SlotHeldInside'
  BY <1>0, <1>15, Holders DEF enqueue_put, UnlockSlot, OneEnqueue
<1>16. ASSUME NEW a \in Clients, unlock_shm(a) PROVE SlotHeldInside'
  BY <1>0, <1>16 DEF unlock_shm
<1>17. ASSUME NEW a \in Clients, notif_lock(a) PROVE SlotHeldInside'
  <2>1. /\ \E place \in {"test", "take"} : notif' = [notif EXCEPT ![a] = place]
        /\ mutex' = [mutex EXCEPT ![client_id[a]] = Ntf(a)]
        /\ UNCHANGED <<cmd, todo, client_id, cancelled>>
    BY <1>17 DEF notif_lock, Goto
  <2> QED
    BY <1>0, <2>1, Holders
<1>18. ASSUME NEW a \in Clients, notif_test(a) PROVE SlotHeldInside'
  <2>1. CASE /\ mutex' = [mutex EXCEPT ![client_id[a]] = Free]
             /\ notif' = [notif EXCEPT ![a] = "wait"]
    BY <1>0, <1>18, <2>1, Holders DEF notif_test
  <2>2. CASE mutex' = mutex /\ notif' = [notif EXCEPT ![a] = "take"]
    BY <1>0, <1>18, <2>2 DEF notif_test
  <2> QED
    BY <1>18, <2>1, <2>2 DEF notif_test, Goto
<1>19. ASSUME NEW a \in Clients, notif_wake(a) PROVE SlotHeldInside'
  BY <1>0, <1>19, Holders DEF notif_wake, Goto
<1>20. ASSUME NEW a \in Clients, notif_cancelled_waiting(a) PROVE SlotHeldInside'
  BY <1>0, <1>20, Holders DEF notif_cancelled_waiting, Goto
<1>21. ASSUME NEW a \in Clients, notif_take(a) PROVE SlotHeldInside'
  <2>1. /\ \E place \in {"send", "lock"} : notif' = [notif EXCEPT ![a] = place]
        /\ mutex' = [mutex EXCEPT ![client_id[a]] = Free]
        /\ UNCHANGED <<cmd, todo, client_id, cancelled>>
    BY <1>21 DEF notif_take, Goto, UnlockToSend
  <2> QED
    BY <1>0, <2>1, Holders
<1>22. ASSUME NEW a \in Clients, notif_send(a) PROVE SlotHeldInside'
  BY <1>0, <1>22 DEF notif_send, Goto, Written, Killed
<1> QED
  BY <1>1, <1>2, <1>3, <1>4, <1>5, <1>6, <1>7, <1>8, <1>9, <1>10, <1>11, <1>12,
     <1>13, <1>14, <1>15, <1>16, <1>17, <1>18, <1>19, <1>20, <1>21, <1>22
     DEF Next, MainThread, CommandThread, NotificationThread

LEMMA OneEnqueueStep == TypeOK /\ SlotHeldInside /\ OneEnqueue /\ [Next]_vars => OneEnqueue'
<1> SUFFICES ASSUME TypeOK, SlotHeldInside, OneEnqueue, [Next]_vars PROVE OneEnqueue'
  OBVIOUS
<1> USE DEF OneEnqueue, shared, cmdvars, ntfvars, outside
<1>0. mutex \in [Slots -> {Free} \cup ({"cmd", "ntf"} \X Clients)]
  BY DEF TypeOK
<1>1. CASE UNCHANGED vars
  BY <1>1 DEF vars
<1>2. ASSUME NEW a \in Clients, connect(a) PROVE OneEnqueue'
  BY <1>0, <1>2 DEF connect
<1>3. ASSUME NEW a \in Clients, close_socket(a) PROVE OneEnqueue'
  BY <1>0, <1>3 DEF close_socket
<1>4. ASSUME NEW a \in Clients, read_line(a) PROVE OneEnqueue'
  BY <1>0, <1>4 DEF read_line
<1>5. ASSUME NEW a \in Clients, read_eof(a) PROVE OneEnqueue'
  BY <1>0, <1>5 DEF read_eof
<1>6. ASSUME NEW a \in Clients, register_client(a) PROVE OneEnqueue'
  BY <1>0, <1>6 DEF register_client, TakeSlot, ResetQueue
<1>7. ASSUME NEW a \in Clients, register_client_full(a) PROVE OneEnqueue'
  BY <1>0, <1>7 DEF register_client_full
<1>8. ASSUME NEW a \in Clients, cancel_notification(a) PROVE OneEnqueue'
  BY <1>0, <1>8 DEF cancel_notification
<1>9. ASSUME NEW a \in Clients, join_notification(a) PROVE OneEnqueue'
  BY <1>0, <1>9 DEF join_notification
<1>10. ASSUME NEW a \in Clients, remove_client_resources(a) PROVE OneEnqueue'
  BY <1>0, <1>10 DEF remove_client_resources, RecordsWithout
<1>11. ASSUME NEW a \in Clients, lock_shm(a) PROVE OneEnqueue'
  BY <1>0, <1>11 DEF lock_shm
<1>12. ASSUME NEW a \in Clients, run_command(a) PROVE OneEnqueue'
  BY <1>0, <1>12 DEF run_command, Written, Killed
<1>13. ASSUME NEW a \in Clients, run_quit(a) PROVE OneEnqueue'
  BY <1>0, <1>13 DEF run_quit, UnlockAndReturn, Written, Killed
<1>14. ASSUME NEW a \in Clients, NEW s \in Slots, enqueue_lock(a, s) PROVE OneEnqueue'
  BY <1>0, <1>14, Holders DEF enqueue_lock, SlotHeldInside
<1>15. ASSUME NEW a \in Clients, NEW s \in Slots, enqueue_put(a, s) PROVE OneEnqueue'
  BY <1>0, <1>15, Holders DEF enqueue_put, UnlockSlot
<1>16. ASSUME NEW a \in Clients, unlock_shm(a) PROVE OneEnqueue'
  BY <1>0, <1>16 DEF unlock_shm
<1>17. ASSUME NEW a \in Clients, notif_lock(a) PROVE OneEnqueue'
  BY <1>0, <1>17, Holders DEF notif_lock, Goto
<1>18. ASSUME NEW a \in Clients, notif_test(a) PROVE OneEnqueue'
  BY <1>0, <1>18, Holders DEF notif_test, Goto
<1>19. ASSUME NEW a \in Clients, notif_wake(a) PROVE OneEnqueue'
  BY <1>0, <1>19, Holders DEF notif_wake, Goto
<1>20. ASSUME NEW a \in Clients, notif_cancelled_waiting(a) PROVE OneEnqueue'
  BY <1>0, <1>20, Holders DEF notif_cancelled_waiting, Goto
<1>21. ASSUME NEW a \in Clients, notif_take(a) PROVE OneEnqueue'
  BY <1>0, <1>21, Holders DEF notif_take, Goto, UnlockToSend
<1>22. ASSUME NEW a \in Clients, notif_send(a) PROVE OneEnqueue'
  BY <1>0, <1>22 DEF notif_send, Goto, Written, Killed
<1> QED
  BY <1>1, <1>2, <1>3, <1>4, <1>5, <1>6, <1>7, <1>8, <1>9, <1>10, <1>11, <1>12,
     <1>13, <1>14, <1>15, <1>16, <1>17, <1>18, <1>19, <1>20, <1>21, <1>22
     DEF Next, MainThread, CommandThread, NotificationThread

(* While every agent got a slot of its own, the socket of the slot of a    *)
(* process that exists is that process's.                                  *)
Occupied ==
  strays = {} => \A a \in Clients : Running(a) => client_socket[client_id[a]] = a

(* A slot is taken when it is free and freed by its own process, last.     *)
LEMMA OccupiedStep == TypeOK /\ Forked /\ Occupied /\ [Next]_vars => Occupied'
<1> SUFFICES ASSUME TypeOK, Forked, Occupied, [Next]_vars PROVE Occupied'
  OBVIOUS
<1> USE DEF Occupied, Running, shared, cmdvars, ntfvars, outside
<1>0. /\ NoClient \notin Clients
      /\ client_socket \in [Slots -> Clients \cup {NoClient}]
      /\ client_id \in [Clients -> Slots \cup {-1}]
      /\ agent \in [Clients -> {"none", "serving", "joining", "cleaning", "gone", "killed"}]
      /\ \A b \in Clients : Running(b) => client_id[b] \in Slots
  BY PoolAssumption DEF TypeOK, Forked
<1>1. CASE UNCHANGED vars
  BY <1>1 DEF vars
<1>2. ASSUME NEW a \in Clients, connect(a) PROVE Occupied'
  BY <1>0, <1>2 DEF connect
<1>3. ASSUME NEW a \in Clients, close_socket(a) PROVE Occupied'
  BY <1>0, <1>3 DEF close_socket
<1>4. ASSUME NEW a \in Clients, read_line(a) PROVE Occupied'
  BY <1>0, <1>4 DEF read_line
<1>5. ASSUME NEW a \in Clients, read_eof(a) PROVE Occupied'
  BY <1>0, <1>5 DEF read_eof
<1>6. ASSUME NEW a \in Clients, register_client(a) PROVE Occupied'
  BY <1>0, <1>6 DEF register_client, TakeSlot, ResetQueue, Unused
<1>7. ASSUME NEW a \in Clients, register_client_full(a) PROVE Occupied'
  BY <1>0, <1>7 DEF register_client_full
<1>8. ASSUME NEW a \in Clients, cancel_notification(a) PROVE Occupied'
  BY <1>0, <1>8 DEF cancel_notification
<1>9. ASSUME NEW a \in Clients, join_notification(a) PROVE Occupied'
  BY <1>0, <1>9 DEF join_notification
<1>10. ASSUME NEW a \in Clients, remove_client_resources(a) PROVE Occupied'
  BY <1>0, <1>10 DEF remove_client_resources, RecordsWithout
<1>11. ASSUME NEW a \in Clients, lock_shm(a) PROVE Occupied'
  BY <1>0, <1>11 DEF lock_shm
<1>12. ASSUME NEW a \in Clients, run_command(a) PROVE Occupied'
  BY <1>0, <1>12 DEF run_command, Written, Killed
<1>13. ASSUME NEW a \in Clients, run_quit(a) PROVE Occupied'
  BY <1>0, <1>13 DEF run_quit, UnlockAndReturn, Written, Killed
<1>14. ASSUME NEW a \in Clients, NEW s \in Slots, enqueue_lock(a, s) PROVE Occupied'
  BY <1>0, <1>14 DEF enqueue_lock
<1>15. ASSUME NEW a \in Clients, NEW s \in Slots, enqueue_put(a, s) PROVE Occupied'
  BY <1>0, <1>15 DEF enqueue_put, UnlockSlot
<1>16. ASSUME NEW a \in Clients, unlock_shm(a) PROVE Occupied'
  BY <1>0, <1>16 DEF unlock_shm
<1>17. ASSUME NEW a \in Clients, notif_lock(a) PROVE Occupied'
  BY <1>0, <1>17 DEF notif_lock, Goto
<1>18. ASSUME NEW a \in Clients, notif_test(a) PROVE Occupied'
  BY <1>0, <1>18 DEF notif_test, Goto
<1>19. ASSUME NEW a \in Clients, notif_wake(a) PROVE Occupied'
  BY <1>0, <1>19 DEF notif_wake, Goto
<1>20. ASSUME NEW a \in Clients, notif_cancelled_waiting(a) PROVE Occupied'
  BY <1>0, <1>20 DEF notif_cancelled_waiting, Goto
<1>21. ASSUME NEW a \in Clients, notif_take(a) PROVE Occupied'
  BY <1>0, <1>21 DEF notif_take, Goto, UnlockToSend
<1>22. ASSUME NEW a \in Clients, notif_send(a) PROVE Occupied'
  BY <1>0, <1>22 DEF notif_send, Goto, Written, Killed
<1> QED
  BY <1>1, <1>2, <1>3, <1>4, <1>5, <1>6, <1>7, <1>8, <1>9, <1>10, <1>11, <1>12,
     <1>13, <1>14, <1>15, <1>16, <1>17, <1>18, <1>19, <1>20, <1>21, <1>22
     DEF Next, MainThread, CommandThread, NotificationThread

(* Records appear under the number of a process that exists and go with it.*)
LEMMA RecordsStep == TypeOK /\ Forked /\ Occupied /\ RecordsOfOccupant /\ [Next]_vars => RecordsOfOccupant'
<1> SUFFICES ASSUME TypeOK, Forked, Occupied, RecordsOfOccupant, [Next]_vars PROVE RecordsOfOccupant'
  OBVIOUS
<1> USE DEF RecordsOfOccupant, Occupied, Running, shared, cmdvars, ntfvars, outside
<1>0. /\ NoClient \notin Clients
      /\ client_socket \in [Slots -> Clients \cup {NoClient}]
      /\ client_id \in [Clients -> Slots \cup {-1}]
      /\ agent \in [Clients -> {"none", "serving", "joining", "cleaning", "gone", "killed"}]
      /\ \A b \in Clients : Running(b) => client_id[b] \in Slots
      /\ records \in [Slots -> SUBSET Clients]
  BY PoolAssumption DEF TypeOK, Forked
<1>1. CASE UNCHANGED vars
  BY <1>1 DEF vars
<1>2. ASSUME NEW a \in Clients, connect(a) PROVE RecordsOfOccupant'
  BY <1>0, <1>2 DEF connect
<1>3. ASSUME NEW a \in Clients, close_socket(a) PROVE RecordsOfOccupant'
  BY <1>0, <1>3 DEF close_socket
<1>4. ASSUME NEW a \in Clients, read_line(a) PROVE RecordsOfOccupant'
  BY <1>0, <1>4 DEF read_line
<1>5. ASSUME NEW a \in Clients, read_eof(a) PROVE RecordsOfOccupant'
  BY <1>0, <1>5 DEF read_eof
<1>6. ASSUME NEW a \in Clients, register_client(a) PROVE RecordsOfOccupant'
  BY <1>0, <1>6 DEF register_client, TakeSlot, ResetQueue, Unused
<1>7. ASSUME NEW a \in Clients, register_client_full(a) PROVE RecordsOfOccupant'
  BY <1>0, <1>7 DEF register_client_full
<1>8. ASSUME NEW a \in Clients, cancel_notification(a) PROVE RecordsOfOccupant'
  BY <1>0, <1>8 DEF cancel_notification
<1>9. ASSUME NEW a \in Clients, join_notification(a) PROVE RecordsOfOccupant'
  BY <1>0, <1>9 DEF join_notification
<1>10. ASSUME NEW a \in Clients, remove_client_resources(a) PROVE RecordsOfOccupant'
  BY <1>0, <1>10 DEF remove_client_resources, RecordsWithout
<1>11. ASSUME NEW a \in Clients, lock_shm(a) PROVE RecordsOfOccupant'
  BY <1>0, <1>11 DEF lock_shm
<1>12. ASSUME NEW a \in Clients, run_command(a) PROVE RecordsOfOccupant'
  BY <1>0, <1>12 DEF run_command, Written, Killed
<1>13. ASSUME NEW a \in Clients, run_quit(a) PROVE RecordsOfOccupant'
  BY <1>0, <1>13 DEF run_quit, UnlockAndReturn, Written, Killed
<1>14. ASSUME NEW a \in Clients, NEW s \in Slots, enqueue_lock(a, s) PROVE RecordsOfOccupant'
  BY <1>0, <1>14 DEF enqueue_lock
<1>15. ASSUME NEW a \in Clients, NEW s \in Slots, enqueue_put(a, s) PROVE RecordsOfOccupant'
  BY <1>0, <1>15 DEF enqueue_put, UnlockSlot
<1>16. ASSUME NEW a \in Clients, unlock_shm(a) PROVE RecordsOfOccupant'
  BY <1>0, <1>16 DEF unlock_shm
<1>17. ASSUME NEW a \in Clients, notif_lock(a) PROVE RecordsOfOccupant'
  BY <1>0, <1>17 DEF notif_lock, Goto
<1>18. ASSUME NEW a \in Clients, notif_test(a) PROVE RecordsOfOccupant'
  BY <1>0, <1>18 DEF notif_test, Goto
<1>19. ASSUME NEW a \in Clients, notif_wake(a) PROVE RecordsOfOccupant'
  BY <1>0, <1>19 DEF notif_wake, Goto
<1>20. ASSUME NEW a \in Clients, notif_cancelled_waiting(a) PROVE RecordsOfOccupant'
  BY <1>0, <1>20 DEF notif_cancelled_waiting, Goto
<1>21. ASSUME NEW a \in Clients, notif_take(a) PROVE RecordsOfOccupant'
  BY <1>0, <1>21 DEF notif_take, Goto, UnlockToSend
<1>22. ASSUME NEW a \in Clients, notif_send(a) PROVE RecordsOfOccupant'
  BY <1>0, <1>22 DEF notif_send, Goto, Written, Killed
<1> QED
  BY <1>1, <1>2, <1>3, <1>4, <1>5, <1>6, <1>7, <1>8, <1>9, <1>10, <1>11, <1>12,
     <1>13, <1>14, <1>15, <1>16, <1>17, <1>18, <1>19, <1>20, <1>21, <1>22
     DEF Next, MainThread, CommandThread, NotificationThread

(* A message is queued for an owner of records, so for the occupant.       *)
LEMMA CrossTalkStep == TypeOK /\ Forked /\ Occupied /\ RecordsOfOccupant /\ NoCrossTalk /\ [Next]_vars => NoCrossTalk'
<1> SUFFICES ASSUME TypeOK, Forked, Occupied, RecordsOfOccupant, NoCrossTalk, [Next]_vars PROVE NoCrossTalk'
  OBVIOUS
<1> USE DEF NoCrossTalk, Occupied, Running, shared, cmdvars, ntfvars, outside
<1>0. /\ NoClient \notin Clients
      /\ client_socket \in [Slots -> Clients \cup {NoClient}]
      /\ client_id \in [Clients -> Slots \cup {-1}]
      /\ agent \in [Clients -> {"none", "serving", "joining", "cleaning", "gone", "killed"}]
      /\ \A b \in Clients : Running(b) => client_id[b] \in Slots
      /\ queue \in [Slots -> Seq(Clients)]
      /\ hand \in [Clients -> Clients \cup {NoClient}]
  BY PoolAssumption DEF TypeOK, Forked
<1>1. CASE UNCHANGED vars
  BY <1>1 DEF vars
<1>2. ASSUME NEW a \in Clients, connect(a) PROVE NoCrossTalk'
  BY <1>0, <1>2 DEF connect
<1>3. ASSUME NEW a \in Clients, close_socket(a) PROVE NoCrossTalk'
  BY <1>0, <1>3 DEF close_socket
<1>4. ASSUME NEW a \in Clients, read_line(a) PROVE NoCrossTalk'
  BY <1>0, <1>4 DEF read_line
<1>5. ASSUME NEW a \in Clients, read_eof(a) PROVE NoCrossTalk'
  BY <1>0, <1>5 DEF read_eof
<1>6. ASSUME NEW a \in Clients, register_client(a) PROVE NoCrossTalk'
  BY <1>0, <1>6 DEF register_client, TakeSlot, ResetQueue, Unused
<1>7. ASSUME NEW a \in Clients, register_client_full(a) PROVE NoCrossTalk'
  BY <1>0, <1>7 DEF register_client_full
<1>8. ASSUME NEW a \in Clients, cancel_notification(a) PROVE NoCrossTalk'
  BY <1>0, <1>8 DEF cancel_notification
<1>9. ASSUME NEW a \in Clients, join_notification(a) PROVE NoCrossTalk'
  BY <1>0, <1>9 DEF join_notification
<1>10. ASSUME NEW a \in Clients, remove_client_resources(a) PROVE NoCrossTalk'
  BY <1>0, <1>10 DEF remove_client_resources, RecordsWithout
<1>11. ASSUME NEW a \in Clients, lock_shm(a) PROVE NoCrossTalk'
  BY <1>0, <1>11 DEF lock_shm
<1>12. ASSUME NEW a \in Clients, run_command(a) PROVE NoCrossTalk'
  BY <1>0, <1>12 DEF run_command, Written, Killed
<1>13. ASSUME NEW a \in Clients, run_quit(a) PROVE NoCrossTalk'
  BY <1>0, <1>13 DEF run_quit, UnlockAndReturn, Written, Killed
<1>14. ASSUME NEW a \in Clients, NEW s \in Slots, enqueue_lock(a, s) PROVE NoCrossTalk'
  BY <1>0, <1>14 DEF enqueue_lock
<1>15. ASSUME NEW a \in Clients, NEW s \in Slots, enqueue_put(a, s) PROVE NoCrossTalk'
  <2>1. UNCHANGED <<strays, hand, client_socket>>
    BY <1>15 DEF enqueue_put
  <2>2. CASE queue' = queue
    BY <2>1, <2>2
  <2>3. \A b \in records[s], n \in DOMAIN queue'[s] :
          queue' = [queue EXCEPT ![s] = Append(@, b)] =>
            queue'[s][n] = b \/ (n \in DOMAIN queue[s] /\ queue'[s][n] = queue[s][n])
    <3> SUFFICES ASSUME NEW b \in records[s], NEW n \in DOMAIN queue'[s],
                        queue' = [queue EXCEPT ![s] = Append(@, b)]
                 PROVE  \/ queue'[s][n] = b
                        \/ n \in DOMAIN queue[s] /\ queue'[s][n] = queue[s][n]
      OBVIOUS
    <3>1. queue[s] \in Seq(Clients) /\ b \in Clients /\ queue'[s] = Append(queue[s], b)
      BY <1>0 DEF TypeOK
    <3> QED
      BY <3>1, AppendProperties, LenProperties
  <2>4. ASSUME NEW b \in records[s], queue' = [queue EXCEPT ![s] = Append(@, b)]
        PROVE  NoCrossTalk'
    <3>1. \A r \in Slots : r # s => queue'[r] = queue[r]
      BY <1>0, <2>4
    <3>2. strays = {} => records[s] \subseteq {client_socket[s]}
      BY DEF RecordsOfOccupant
    <3> QED
      BY <2>1, <2>3, <2>4, <3>1, <3>2
  <2> QED
    BY <1>15, <2>2, <2>4 DEF enqueue_put
<1>16. ASSUME NEW a \in Clients, unlock_shm(a) PROVE NoCrossTalk'
  BY <1>0, <1>16 DEF unlock_shm
<1>17. ASSUME NEW a \in Clients, notif_lock(a) PROVE NoCrossTalk'
  BY <1>0, <1>17 DEF notif_lock, Goto
<1>18. ASSUME NEW a \in Clients, notif_test(a) PROVE NoCrossTalk'
  BY <1>0, <1>18 DEF notif_test, Goto
<1>19. ASSUME NEW a \in Clients, notif_wake(a) PROVE NoCrossTalk'
  BY <1>0, <1>19 DEF notif_wake, Goto
<1>20. ASSUME NEW a \in Clients, notif_cancelled_waiting(a) PROVE NoCrossTalk'
  BY <1>0, <1>20 DEF notif_cancelled_waiting, Goto
<1>21. ASSUME NEW a \in Clients, notif_take(a) PROVE NoCrossTalk'
  <2>1. UNCHANGED <<strays, client_socket>> /\ Running(a)
    BY <1>21 DEF notif_take
  <2>2. CASE UNCHANGED <<hand, queue>>
    BY <2>1, <2>2
  <2>3. CASE /\ queue[client_id[a]] # <<>>
             /\ hand' = [hand EXCEPT ![a] = Head(queue[client_id[a]])]
             /\ queue' = [queue EXCEPT ![client_id[a]] = Tail(@)]
    <3> DEFINE s == client_id[a]
    <3>1. s \in Slots /\ queue[s] \in Seq(Clients) /\ queue'[s] = Tail(queue[s])
      BY <1>0, <2>1, <2>3
    <3>2. \A r \in Slots : r # s => queue'[r] = queue[r]
      BY <1>0, <2>3
    <3>3. /\ Head(queue[s]) = queue[s][1] /\ 1 \in DOMAIN queue[s]
          /\ \A n \in DOMAIN queue'[s] :
               n + 1 \in DOMAIN queue[s] /\ queue'[s][n] = queue[s][n + 1]
      <4>1. /\ Tail(queue[s]) \in Seq(Clients)
            /\ Len(Tail(queue[s])) = Len(queue[s]) - 1
            /\ \A n \in 1 .. Len(Tail(queue[s])) : Tail(queue[s])[n] = queue[s][n + 1]
            /\ Head(queue[s]) = queue[s][1]
        BY <2>3, <3>1, HeadTailProperties
      <4>2. Len(queue[s]) \in Nat /\ Len(queue[s]) # 0 /\ DOMAIN queue[s] = 1 .. Len(queue[s])
        BY <2>3, <3>1, EmptySeq, LenProperties
      <4>3. DOMAIN queue'[s] = 1 .. Len(queue[s]) - 1
        BY <3>1, <4>1, LenProperties
      <4> QED
        BY <3>1, <4>1, <4>2, <4>3
    <3>4. strays = {} => client_socket[s] = a
      BY <2>1
    <3> HIDE DEF s
    <3>5. strays = {} => Head(queue[s]) = a
      BY <1>0, <3>1, <3>3, <3>4
    <3>6. strays = {} => \A b \in Clients : hand'[b] \in {b, NoClient}
      BY <1>0, <2>3, <3>5 DEF s
    <3>7. ASSUME strays = {}, NEW r \in Slots, client_socket[r] # NoClient,
                 NEW n \in DOMAIN queue'[r]
          PROVE  queue'[r][n] = client_socket[r]
      BY <3>2, <3>3, <3>7
    <3> QED
      BY <2>1, <3>6, <3>7
  <2> QED
    BY <1>21, <2>2, <2>3 DEF notif_take
<1>22. ASSUME NEW a \in Clients, notif_send(a) PROVE NoCrossTalk'
  BY <1>0, <1>22 DEF notif_send, Goto, Written, Killed
<1> QED
  BY <1>1, <1>2, <1>3, <1>4, <1>5, <1>6, <1>7, <1>8, <1>9, <1>10, <1>11, <1>12,
     <1>13, <1>14, <1>15, <1>16, <1>17, <1>18, <1>19, <1>20, <1>21, <1>22
     DEF Next, MainThread, CommandThread, NotificationThread

(* A signal goes to the one waiter there can be.                           *)
LEMMA WakeupStep == TypeOK /\ Forked /\ Occupied /\ NoLostWakeup /\ [Next]_vars => NoLostWakeup'
<1> SUFFICES ASSUME TypeOK, Forked, Occupied, NoLostWakeup, [Next]_vars PROVE NoLostWakeup'
  OBVIOUS
<1> USE DEF NoLostWakeup, Occupied, Running, shared, cmdvars, ntfvars, outside
<1>0. /\ NoClient \notin Clients
      /\ client_socket \in [Slots -> Clients \cup {NoClient}]
      /\ client_id \in [Clients -> Slots \cup {-1}]
      /\ agent \in [Clients -> {"none", "serving", "joining", "cleaning", "gone", "killed"}]
      /\ \A b \in Clients : Running(b) => client_id[b] \in Slots
      /\ queue \in [Slots -> Seq(Clients)]
      /\ notif \in [Clients -> {"lock", "test", "wait", "take", "send", "relock", "done"}]
      /\ signalled \in [Clients -> BOOLEAN]
  BY PoolAssumption DEF TypeOK, Forked
<1>1. CASE UNCHANGED vars
  BY <1>1 DEF vars
<1>2. ASSUME NEW a \in Clients, connect(a) PROVE NoLostWakeup'
  BY <1>0, <1>2 DEF connect
<1>3. ASSUME NEW a \in Clients, close_socket(a) PROVE NoLostWakeup'
  BY <1>0, <1>3 DEF close_socket
<1>4. ASSUME NEW a \in Clients, read_line(a) PROVE NoLostWakeup'
  BY <1>0, <1>4 DEF read_line
<1>5. ASSUME NEW a \in Clients, read_eof(a) PROVE NoLostWakeup'
  BY <1>0, <1>5 DEF read_eof
<1>6. ASSUME NEW a \in Clients, register_client(a) PROVE NoLostWakeup'
  BY <1>0, <1>6 DEF register_client, TakeSlot, ResetQueue, Forked
<1>7. ASSUME NEW a \in Clients, register_client_full(a) PROVE NoLostWakeup'
  BY <1>0, <1>7 DEF register_client_full, Forked
<1>8. ASSUME NEW a \in Clients, cancel_notification(a) PROVE NoLostWakeup'
  BY <1>0, <1>8 DEF cancel_notification
<1>9. ASSUME NEW a \in Clients, join_notification(a) PROVE NoLostWakeup'
  BY <1>0, <1>9 DEF join_notification
<1>10. ASSUME NEW a \in Clients, remove_client_resources(a) PROVE NoLostWakeup'
  BY <1>0, <1>10 DEF remove_client_resources, RecordsWithout
<1>11. ASSUME NEW a \in Clients, lock_shm(a) PROVE NoLostWakeup'
  BY <1>0, <1>11 DEF lock_shm
<1>12. ASSUME NEW a \in Clients, run_command(a) PROVE NoLostWakeup'
  BY <1>0, <1>12 DEF run_command, Written, Killed
<1>13. ASSUME NEW a \in Clients, run_quit(a) PROVE NoLostWakeup'
  BY <1>0, <1>13 DEF run_quit, UnlockAndReturn, Written, Killed
<1>14. ASSUME NEW a \in Clients, NEW s \in Slots, enqueue_lock(a, s) PROVE NoLostWakeup'
  BY <1>0, <1>14 DEF enqueue_lock
<1>15. ASSUME NEW a \in Clients, NEW s \in Slots, enqueue_put(a, s) PROVE NoLostWakeup'
  BY <1>0, <1>15 DEF enqueue_put, UnlockSlot, Signal, Waiters
<1>16. ASSUME NEW a \in Clients, unlock_shm(a) PROVE NoLostWakeup'
  BY <1>0, <1>16 DEF unlock_shm
<1>17. ASSUME NEW a \in Clients, notif_lock(a) PROVE NoLostWakeup'
  BY <1>0, <1>17 DEF notif_lock, Goto
<1>18. ASSUME NEW a \in Clients, notif_test(a) PROVE NoLostWakeup'
  BY <1>0, <1>18 DEF notif_test, Goto, MustWait
<1>19. ASSUME NEW a \in Clients, notif_wake(a) PROVE NoLostWakeup'
  BY <1>0, <1>19 DEF notif_wake, Goto
<1>20. ASSUME NEW a \in Clients, notif_cancelled_waiting(a) PROVE NoLostWakeup'
  BY <1>0, <1>20 DEF notif_cancelled_waiting, Goto
<1>21. ASSUME NEW a \in Clients, notif_take(a) PROVE NoLostWakeup'
  BY <1>0, <1>21 DEF notif_take, Goto, UnlockToSend
<1>22. ASSUME NEW a \in Clients, notif_send(a) PROVE NoLostWakeup'
  BY <1>0, <1>22 DEF notif_send, Goto, Written, Killed
<1> QED
  BY <1>1, <1>2, <1>3, <1>4, <1>5, <1>6, <1>7, <1>8, <1>9, <1>10, <1>11, <1>12,
     <1>13, <1>14, <1>15, <1>16, <1>17, <1>18, <1>19, <1>20, <1>21, <1>22
     DEF Next, MainThread, CommandThread, NotificationThread

-----------------------------------------------------------------------------
(* The inductive invariant.  NoCrossTalk needs to know whose records are   *)
(* under a slot, which needs to know whose slot it is; the mutexes need    *)
(* that an enqueuer holds one at a time.                                   *)
PoolInv ==
  /\ TypeInv
  /\ ShmHeldInside
  /\ SlotHeldInside
  /\ OneEnqueue
  /\ Occupied
  /\ RecordsOfOccupant
  /\ NoCrossTalk
  /\ NoLostWakeup

LEMMA PoolInit == Init => PoolInv
<1> SUFFICES ASSUME Init PROVE PoolInv
  OBVIOUS
<1> USE DEF Init
<1>1. TypeInv
  BY TypeInit
<1>2. ShmHeldInside
  BY PoolAssumption DEF ShmHeldInside
<1>3. SlotHeldInside /\ OneEnqueue
  BY Holders DEF SlotHeldInside, OneEnqueue
<1>4. Occupied /\ NoLostWakeup
  BY DEF Occupied, NoLostWakeup, Running
<1>5. RecordsOfOccupant /\ NoCrossTalk
  BY DEF RecordsOfOccupant, NoCrossTalk
<1> QED
  BY <1>1, <1>2, <1>3, <1>4, <1>5 DEF PoolInv

LEMMA PoolStep == PoolInv /\ [Next]_vars => PoolInv'
  BY ForkedStep, TypeStep, ShmStep, SlotStep, OneEnqueueStep, OccupiedStep,
     RecordsStep, CrossTalkStep, WakeupStep
     DEF PoolInv, TypeInv

LEMMA PoolInvariant == Spec => []PoolInv
  BY PoolInit, PoolStep, PTL DEF Spec

-----------------------------------------------------------------------------
(* For any number of connections, slots and places in a queue: what the    *)
(* agents share and what they keep for themselves has its type, and no     *)
(* queue holds more than enqueue_notification lets in.                     *)
THEOREM PoolTypeCorrect == Spec => []TypeOK
<1>1. PoolInv => TypeOK
  BY DEF PoolInv, TypeInv
<1> QED
  BY <1>1, PoolInvariant, PTL

(* shm->mutex is held exactly inside its critical section, and the mutex   *)
(* of a slot by nobody outside of its own, on every path, also when        *)
(* threads are cancelled, processes are killed and slots are shared; a     *)
(* thread cancelled in pthread_cond_wait alone ends with the slot's mutex. *)
THEOREM LocksBalanced == Spec => []LocksHeldInside
<1>1. PoolInv => LocksHeldInside
  BY DEF PoolInv, ShmHeldInside, SlotHeldInside, LocksHeldInside
<1> QED
  BY <1>1, PoolInvariant, PTL

(* While every agent finds a free slot, register_client never gives one to *)
(* two processes that exist.                                               *)
THEOREM SlotsNotShared == Spec => []OneAgentPerSlot
<1>1. PoolInv => OneAgentPerSlot
  BY DEF PoolInv, Occupied, OneAgentPerSlot
<1> QED
  BY <1>1, PoolInvariant, PTL

(* While every agent finds a free slot, the records under a client_id are  *)
(* those of the client whose slot it is: remove_client_resources is enough *)
(* to keep the next client from inheriting any.                            *)
THEOREM RecordsStayWithTheirClient == Spec => []RecordsOfOccupant
<1>1. PoolInv => RecordsOfOccupant
  BY DEF PoolInv
<1> QED
  BY <1>1, PoolInvariant, PTL

(* While every agent finds a free slot, no message meant for one client is *)
(* queued for or sent to another: the reset of notif_head and notif_tail   *)
(* in register_client is enough.                                           *)
THEOREM NoMessageForAnother == Spec => []NoCrossTalk
<1>1. PoolInv => NoCrossTalk
  BY DEF PoolInv
<1> QED
  BY <1>1, PoolInvariant, PTL

(* While every agent finds a free slot, a notification thread never sleeps *)
(* unsignalled over a message, whoever used the slot and its condition     *)
(* variable before.                                                        *)
THEOREM PoolWakeupNeverLost == Spec => []NoLostWakeup
<1>1. PoolInv => NoLostWakeup
  BY DEF PoolInv
<1> QED
  BY <1>1, PoolInvariant, PTL

=============================================================================
