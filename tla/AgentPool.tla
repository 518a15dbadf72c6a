----------------------------- MODULE AgentPool -----------------------------
(***************************************************************************)
(* The agents of hw1/supdemserv.c: one process per connection with three   *)
(* threads (client_agent, command_thread_func, notification_thread_func),  *)
(* the slots of shm->clients they take and give back, shm->mutex, the      *)
(* mutex, condition and notification queue of each slot, and what closing  *)
(* clients, pthread_cancel and SIGPIPE do to them.                         *)
(*                                                                         *)
(* The map is reduced to who has records on it: SupDemMap has the rest.    *)
(* The queue is the bounded FIFO that NotifyRing is proved to implement.   *)
(* A record and a message carry the connection they are for, which the     *)
(* code does not store: it goes by the slot number alone.                  *)
(***************************************************************************)
EXTENDS Integers, Sequences, FiniteSets

CONSTANTS
  Clients,         \* the connections made to the server, each with its agent
  MAX_CLIENTS,
  QUEUE_ROOM,      \* MAX_NOTIFICATIONS - 1
  MaxLines,        \* bound: the command lines one client sends
  MaxConnections,  \* bound: the agents running at one time
  Quitters,        \* the clients that may send quit
  Closers,         \* the clients that may close their socket
  Notifies,        \* <<a, b>>: a command of a may cause a notice to b
  MaxNotices,      \* bound: the notices one command sends to one slot
  Deaf,            \* the clients that never read what they are sent
  SOCKET_ROOM,     \* what a socket takes from a writer before it is read
  DeafLines,       \* bound: the command lines a deaf client sends
  NoClient

ASSUME PoolAssumption ==
  /\ MAX_CLIENTS \in Nat \ {0}
  /\ QUEUE_ROOM \in Nat
  /\ MaxLines \in Nat /\ DeafLines \in Nat /\ SOCKET_ROOM \in Nat
  /\ MaxConnections \in Nat /\ MaxNotices \in Nat
  /\ Quitters \subseteq Clients /\ Closers \subseteq Clients /\ Deaf \subseteq Clients
  /\ Notifies \subseteq Clients \X Clients
  /\ NoClient \notin Clients

Slots == 0 .. MAX_CLIENTS - 1

(* How many notices go to each slot.                                       *)
Notices == [Slots -> 0 .. MaxNotices]
NoNotices == [s \in Slots |-> 0]

VARIABLES
  (* in shared memory *)
  shm_mutex,       \* the agent that holds shm->mutex, or NoClient
  client_socket,   \* client_socket[s]: whose socket, NoClient for -1
  mutex,           \* mutex[s]: the thread that holds clients[s].mutex, or Free
  queue,           \* queue[s]: the notices waiting, by the client they are for
  records,         \* records[s]: whose records the map has under client_id s
  (* in the agent of a *)
  agent,           \* where client_agent is
  client_id,       \* its slot
  cmd,             \* where command_thread_func is
  line,            \* the line it runs
  todo,            \* the notices this command has yet to enqueue, by slot
  notif,           \* where notification_thread_func is
  hand,            \* the message that thread is about to send
  signalled,       \* its pthread_cond_wait was signalled
  cancelled,       \* pthread_cancel was called on it
  (* outside *)
  peer,            \* the client's end of the socket
  lines,           \* the lines the client has still to send
  room,            \* what its socket still takes, if the client is deaf
  (* history *)
  strays           \* the agents that found no free slot

shared == <<shm_mutex, client_socket, mutex, queue, records>>
cmdvars == <<cmd, line, todo>>
ntfvars == <<notif, hand, signalled>>
outside == <<peer, lines, room, strays>>
vars == <<shared, agent, client_id, cmdvars, ntfvars, cancelled, outside>>

Free == <<>>
Cmd(a) == <<"cmd", a>>
Ntf(a) == <<"ntf", a>>

(* A process that exists; SIGPIPE ends all its threads where they stand.   *)
Running(a) == agent[a] \in {"serving", "joining", "cleaning"}

Init ==
  /\ shm_mutex = NoClient
  /\ client_socket = [s \in Slots |-> NoClient]
  /\ mutex = [s \in Slots |-> Free]
  /\ queue = [s \in Slots |-> <<>>]
  /\ records = [s \in Slots |-> {}]
  /\ agent = [a \in Clients |-> "none"]
  /\ client_id = [a \in Clients |-> -1]
  /\ cmd = [a \in Clients |-> "read"]
  /\ line = [a \in Clients |-> "none"]
  /\ todo = [a \in Clients |-> NoNotices]
  /\ notif = [a \in Clients |-> "lock"]
  /\ hand = [a \in Clients |-> NoClient]
  /\ signalled = [a \in Clients |-> FALSE]
  /\ cancelled = [a \in Clients |-> FALSE]
  /\ peer = [a \in Clients |-> "absent"]
  /\ lines = [a \in Clients |-> IF a \in Deaf THEN DeafLines ELSE MaxLines]
  /\ room = [a \in Clients |-> SOCKET_ROOM]
  /\ strays = {}

-----------------------------------------------------------------------------
(* The clients.                                                            *)

connect(a) ==
  /\ peer[a] = "absent"
  /\ Cardinality({b \in Clients : peer[b] # "absent" /\ agent[b] \notin {"gone", "killed"}})
       < MaxConnections
  /\ peer' = [peer EXCEPT ![a] = "open"]
  /\ UNCHANGED <<shared, agent, client_id, cmdvars, ntfvars, cancelled, lines, room, strays>>

close_socket(a) ==
  /\ a \in Closers
  /\ peer[a] = "open"
  /\ peer' = [peer EXCEPT ![a] = "closed"]
  /\ UNCHANGED <<shared, agent, client_id, cmdvars, ntfvars, cancelled, lines, room, strays>>

-----------------------------------------------------------------------------
(* The main thread of an agent.                                            *)

Unused(s) == client_socket[s] = NoClient

(* Mutant: client_socket is not set, so the slot still looks free.         *)
TakeSlotUnmarked(s, a) == UNCHANGED client_socket

TakeSlot(s, a) == client_socket' = [client_socket EXCEPT ![s] = a]

(* Mutant: notif_head and notif_tail are not reset for the new client.     *)
ResetQueueForgotten(s) == UNCHANGED queue

ResetQueue(s) == queue' = [queue EXCEPT ![s] = <<>>]

(* fork, register_client and the two pthread_create.                       *)
register_client(a) ==
  /\ agent[a] = "none"
  /\ peer[a] # "absent"
  /\ shm_mutex = NoClient
  /\ \E s \in Slots :
       /\ Unused(s)
       /\ \A r \in Slots : r < s => ~Unused(r)
       /\ TakeSlot(s, a)
       /\ ResetQueue(s)
       /\ client_id' = [client_id EXCEPT ![a] = s]
  /\ agent' = [agent EXCEPT ![a] = "serving"]
  /\ UNCHANGED <<shm_mutex, mutex, records, cmdvars, ntfvars, cancelled, outside>>

(* Without a free slot client_id is never assigned: the threads go to work *)
(* with what the stack holds, some client's slot or no slot at all.        *)
register_client_full(a) ==
  /\ agent[a] = "none"
  /\ peer[a] # "absent"
  /\ shm_mutex = NoClient
  /\ \A s \in Slots : ~Unused(s)
  /\ \/ /\ \E s \in Slots : client_id' = [client_id EXCEPT ![a] = s]
        /\ agent' = [agent EXCEPT ![a] = "serving"]
     \/ /\ agent' = [agent EXCEPT ![a] = "killed"]
        /\ UNCHANGED client_id
  /\ strays' = strays \cup {a}
  /\ UNCHANGED <<shared, cmdvars, ntfvars, cancelled, peer, lines, room>>

(* pthread_join(command_thread), pthread_cancel(notification_thread).      *)
cancel_notification(a) ==
  /\ agent[a] = "serving"
  /\ cmd[a] = "done"
  /\ agent' = [agent EXCEPT ![a] = "joining"]
  /\ cancelled' = [cancelled EXCEPT ![a] = TRUE]
  /\ UNCHANGED <<shared, client_id, cmdvars, ntfvars, outside>>

join_notification(a) ==
  /\ agent[a] = "joining"
  /\ notif[a] = "done"
  /\ agent' = [agent EXCEPT ![a] = "cleaning"]
  /\ UNCHANGED <<shared, client_id, cmdvars, ntfvars, cancelled, outside>>

(* Mutant: the slot is freed but the tables are not searched.              *)
RecordsKept(s) == records

RecordsWithout(s) == [records EXCEPT ![s] = {}]

(* remove_client_resources, close and exit.                                *)
remove_client_resources(a) ==
  /\ agent[a] = "cleaning"
  /\ shm_mutex = NoClient
  /\ records' = RecordsWithout(client_id[a])
  /\ client_socket' = [client_socket EXCEPT ![client_id[a]] = NoClient]
  /\ agent' = [agent EXCEPT ![a] = "gone"]
  /\ UNCHANGED <<shm_mutex, mutex, queue, client_id, cmdvars, ntfvars, cancelled, outside>>

(* A write to a socket whose other end is closed may still be taken by the *)
(* kernel; if not, SIGPIPE ends the process with its mutexes held.         *)
Killed(a) ==
  /\ peer[a] = "closed"
  /\ agent' = [agent EXCEPT ![a] = "killed"]
  /\ UNCHANGED room

(* Otherwise write and send wait until the socket has room.  It always has *)
(* for a client that reads.                                                *)
Written(a) ==
  /\ UNCHANGED agent
  /\ \/ a \notin Deaf /\ UNCHANGED room
     \/ a \in Deaf /\ room[a] > 0 /\ room' = [room EXCEPT ![a] = @ - 1]

-----------------------------------------------------------------------------
(* The command thread.                                                     *)

read_line(a) ==
  /\ Running(a)
  /\ cmd[a] = "read"
  /\ lines[a] > 0
  /\ lines' = [lines EXCEPT ![a] = @ - 1]
  /\ \/ line' = [line EXCEPT ![a] = "command"]
     \/ a \in Quitters /\ line' = [line EXCEPT ![a] = "quit"]
  /\ cmd' = [cmd EXCEPT ![a] = "lock"]
  /\ UNCHANGED <<shared, agent, client_id, todo, ntfvars, cancelled, peer, room, strays>>

(* End of file, "treat as quit".                                           *)
read_eof(a) ==
  /\ Running(a)
  /\ cmd[a] = "read"
  /\ peer[a] = "closed"
  /\ cmd' = [cmd EXCEPT ![a] = "done"]
  /\ UNCHANGED <<shared, agent, client_id, line, todo, ntfvars, cancelled, outside>>

lock_shm(a) ==
  /\ Running(a)
  /\ cmd[a] = "lock"
  /\ shm_mutex = NoClient
  /\ shm_mutex' = a
  /\ cmd' = [cmd EXCEPT ![a] = "run"]
  /\ UNCHANGED <<client_socket, mutex, queue, records, agent, client_id, line, todo,
                 ntfvars, cancelled, outside>>

(* The command changes the tables, then "OK" is written, then matches and  *)
(* watches give rise to notices to clients that have records: a match to   *)
(* the demander, the supplier, and the supplier again if the supply is     *)
(* exhausted, and a command may make several.                              *)
run_command(a) ==
  /\ Running(a)
  /\ cmd[a] = "run" /\ line[a] = "command"
  /\ \/ records' = [records EXCEPT ![client_id[a]] = @ \cup {a}]
     \/ UNCHANGED records
  /\ \/ /\ \E told \in Notices :
             /\ \A s \in Slots : told[s] > 0 => \E b \in records'[s] : <<a, b>> \in Notifies
             /\ todo' = [todo EXCEPT ![a] = told]
        /\ cmd' = [cmd EXCEPT ![a] = "notify"]
        /\ Written(a)
     \/ /\ Killed(a)
        /\ UNCHANGED <<cmd, todo>>
  /\ UNCHANGED <<shm_mutex, client_socket, mutex, queue, client_id, line, ntfvars,
                 cancelled, peer, lines, strays>>

(* Mutant: quit returns without the unlock.                                *)
ReturnKeepingMutex == UNCHANGED shm_mutex

UnlockAndReturn == shm_mutex' = NoClient

run_quit(a) ==
  /\ Running(a)
  /\ cmd[a] = "run" /\ line[a] = "quit"
  /\ \/ /\ UnlockAndReturn
        /\ cmd' = [cmd EXCEPT ![a] = "done"]
        /\ Written(a)
     \/ /\ Killed(a)
        /\ UNCHANGED <<shm_mutex, cmd>>
  /\ UNCHANGED <<client_socket, mutex, queue, records, client_id, line, todo, ntfvars,
                 cancelled, peer, lines, strays>>

(* enqueue_notification takes the mutex of the slot ...                    *)
enqueue_lock(a, s) ==
  /\ Running(a)
  /\ cmd[a] = "notify"
  /\ todo[a][s] > 0
  /\ mutex[s] = Free
  /\ mutex' = [mutex EXCEPT ![s] = Cmd(a)]
  /\ cmd' = [cmd EXCEPT ![a] = "put"]
  /\ UNCHANGED <<shm_mutex, client_socket, queue, records, agent, client_id, line, todo,
                 ntfvars, cancelled, outside>>

Waiters(s) == {b \in Clients : Running(b) /\ client_id[b] = s /\ notif[b] = "wait"
                                 /\ ~signalled[b]}

(* Mutant: no test for a full queue.                                       *)
RoomAlways(s) == TRUE

Room(s) == Len(queue[s]) < QUEUE_ROOM

(* Mutant: pthread_cond_signal is forgotten.                               *)
SignalForgotten(s) == UNCHANGED signalled

(* pthread_cond_signal wakes one thread that waits, if there is one.       *)
Signal(s) ==
  \/ \E b \in Waiters(s) : signalled' = [signalled EXCEPT ![b] = TRUE]
  \/ Waiters(s) = {} /\ UNCHANGED signalled

(* Mutant: the drop of a full queue returns early and keeps the mutex.     *)
UnlockSlotUnlessFull(s) ==
  mutex' = IF Room(s) THEN [mutex EXCEPT ![s] = Free] ELSE mutex

UnlockSlot(s) == mutex' = [mutex EXCEPT ![s] = Free]

(* ... and puts the message in unless the queue is full.                   *)
enqueue_put(a, s) ==
  /\ Running(a)
  /\ cmd[a] = "put"
  /\ mutex[s] = Cmd(a)
  /\ \/ /\ Room(s)
        /\ \E b \in records[s] : queue' = [queue EXCEPT ![s] = Append(@, b)]
        /\ Signal(s)
     \/ ~Room(s) /\ UNCHANGED <<queue, signalled>>
  /\ UnlockSlot(s)
  /\ todo' = [todo EXCEPT ![a][s] = @ - 1]
  /\ cmd' = [cmd EXCEPT ![a] = "notify"]
  /\ UNCHANGED <<shm_mutex, client_socket, records, agent, client_id, line, notif, hand,
                 cancelled, outside>>

unlock_shm(a) ==
  /\ Running(a)
  /\ cmd[a] = "notify"
  /\ todo[a] = NoNotices
  /\ shm_mutex' = NoClient
  /\ cmd' = [cmd EXCEPT ![a] = "read"]
  /\ line' = [line EXCEPT ![a] = "none"]
  /\ UNCHANGED <<client_socket, mutex, queue, records, agent, client_id, todo, ntfvars,
                 cancelled, outside>>

-----------------------------------------------------------------------------
(* The notification thread, as in NotifyRing, with the cancellation points *)
(* it has: pthread_cond_wait and send.                                     *)

Goto(a, place) == notif' = [notif EXCEPT ![a] = place]

(* pthread_mutex_lock, at the top of the loop and again after a send.      *)
notif_lock(a) ==
  /\ Running(a)
  /\ \/ notif[a] = "lock" /\ Goto(a, "test")
     \/ notif[a] = "relock" /\ Goto(a, "take")
  /\ mutex[client_id[a]] = Free
  /\ mutex' = [mutex EXCEPT ![client_id[a]] = Ntf(a)]
  /\ UNCHANGED <<shm_mutex, client_socket, queue, records, agent, client_id, cmdvars,
                 hand, signalled, cancelled, outside>>

(* Mutant: it waits without the test before pthread_cond_wait.             *)
MustWaitUntested(a) == TRUE

MustWait(a) == queue[client_id[a]] = <<>>

notif_test(a) ==
  /\ Running(a)
  /\ notif[a] = "test"
  /\ \/ /\ MustWait(a)
        /\ mutex' = [mutex EXCEPT ![client_id[a]] = Free]
        /\ Goto(a, "wait")
     \/ /\ ~MustWait(a)
        /\ UNCHANGED mutex
        /\ Goto(a, "take")
  /\ UNCHANGED <<shm_mutex, client_socket, queue, records, agent, client_id, cmdvars,
                 hand, signalled, cancelled, outside>>

notif_wake(a) ==
  /\ Running(a)
  /\ notif[a] = "wait"
  /\ signalled[a]
  /\ mutex[client_id[a]] = Free
  /\ mutex' = [mutex EXCEPT ![client_id[a]] = Ntf(a)]
  /\ signalled' = [signalled EXCEPT ![a] = FALSE]
  /\ Goto(a, "test")
  /\ UNCHANGED <<shm_mutex, client_socket, queue, records, agent, client_id, cmdvars,
                 hand, cancelled, outside>>

(* Cancelled in pthread_cond_wait the thread takes the mutex once more and *)
(* ends with it: no cleanup handler gives it back.                         *)
notif_cancelled_waiting(a) ==
  /\ Running(a)
  /\ notif[a] = "wait"
  /\ cancelled[a]
  /\ mutex[client_id[a]] = Free
  /\ mutex' = [mutex EXCEPT ![client_id[a]] = Ntf(a)]
  /\ signalled' = [signalled EXCEPT ![a] = FALSE]
  /\ Goto(a, "done")
  /\ UNCHANGED <<shm_mutex, client_socket, queue, records, agent, client_id, cmdvars,
                 hand, cancelled, outside>>

(* Mutant: the mutex is given back only when the queue is empty.           *)
UnlockWhenDrained(a) ==
  mutex' = [mutex EXCEPT ![client_id[a]] = IF queue[client_id[a]] = <<>> THEN Free ELSE @]

UnlockToSend(a) == mutex' = [mutex EXCEPT ![client_id[a]] = Free]

notif_take(a) ==
  /\ Running(a)
  /\ notif[a] = "take"
  /\ \/ /\ queue[client_id[a]] # <<>>
        /\ hand' = [hand EXCEPT ![a] = Head(queue[client_id[a]])]
        /\ queue' = [queue EXCEPT ![client_id[a]] = Tail(@)]
        /\ Goto(a, "send")
     \/ /\ queue[client_id[a]] = <<>>
        /\ UNCHANGED <<hand, queue>>
        /\ Goto(a, "lock")
  /\ UnlockToSend(a)
  /\ UNCHANGED <<shm_mutex, client_socket, records, agent, client_id, cmdvars, signalled,
                 cancelled, outside>>

(* notify_client: sent, or cancelled in send, or ended by SIGPIPE.  The    *)
(* wait for room is outside the mutex of the slot.                         *)
notif_send(a) ==
  /\ Running(a)
  /\ notif[a] = "send"
  /\ \/ Goto(a, "relock") /\ Written(a)
     \/ cancelled[a] /\ Goto(a, "done") /\ UNCHANGED <<agent, room>>
     \/ Killed(a) /\ UNCHANGED notif
  /\ hand' = [hand EXCEPT ![a] = NoClient]
  /\ UNCHANGED <<shared, client_id, cmdvars, signalled, cancelled, peer, lines, strays>>

-----------------------------------------------------------------------------
MainThread(a) ==
  \/ register_client(a)
  \/ register_client_full(a)
  \/ cancel_notification(a)
  \/ join_notification(a)
  \/ remove_client_resources(a)

CommandThread(a) ==
  \/ lock_shm(a)
  \/ run_command(a)
  \/ run_quit(a)
  \/ \E s \in Slots : enqueue_lock(a, s) \/ enqueue_put(a, s)
  \/ unlock_shm(a)

NotificationThread(a) ==
  \/ notif_lock(a)
  \/ notif_test(a)
  \/ notif_wake(a)
  \/ notif_cancelled_waiting(a)
  \/ notif_take(a)
  \/ notif_send(a)

Next == \E a \in Clients :
  \/ connect(a)
  \/ close_socket(a)
  \/ read_line(a)
  \/ read_eof(a)
  \/ MainThread(a)
  \/ CommandThread(a)
  \/ NotificationThread(a)

Spec == Init /\ [][Next]_vars

(* Every thread of a process runs while it can.  What a client sends and   *)
(* when it leaves is up to the client; that it has closed is read in the   *)
(* end.  No fairness is assumed of the mutexes: MaxLines bounds how often  *)
(* they are asked for.                                                     *)
FairSpec ==
  /\ Spec
  /\ \A a \in Clients : /\ WF_vars(MainThread(a))
                        /\ WF_vars(CommandThread(a))
                        /\ WF_vars(NotificationThread(a))
                        /\ WF_vars(read_eof(a))

-----------------------------------------------------------------------------
TypeOK ==
  /\ shm_mutex \in Clients \cup {NoClient}
  /\ client_socket \in [Slots -> Clients \cup {NoClient}]
  /\ mutex \in [Slots -> {Free} \cup ({"cmd", "ntf"} \X Clients)]
  /\ queue \in [Slots -> Seq(Clients)]
  /\ \A s \in Slots : Len(queue[s]) <= QUEUE_ROOM
  /\ records \in [Slots -> SUBSET Clients]
  /\ agent \in [Clients -> {"none", "serving", "joining", "cleaning", "gone", "killed"}]
  /\ client_id \in [Clients -> Slots \cup {-1}]
  /\ cmd \in [Clients -> {"read", "lock", "run", "notify", "put", "done"}]
  /\ line \in [Clients -> {"none", "command", "quit"}]
  /\ todo \in [Clients -> Notices]
  /\ notif \in [Clients -> {"lock", "test", "wait", "take", "send", "relock", "done"}]
  /\ hand \in [Clients -> Clients \cup {NoClient}]
  /\ signalled \in [Clients -> BOOLEAN]
  /\ cancelled \in [Clients -> BOOLEAN]
  /\ peer \in [Clients -> {"absent", "open", "closed"}]
  /\ lines \in [Clients -> Nat]
  /\ room \in [Clients -> 0 .. SOCKET_ROOM]

(* An agent holds shm->mutex exactly while its command thread is between   *)
(* lock and unlock, on every path: the early return of quit gives back     *)
(* what it took.  Whoever holds the mutex of a slot is in the code that    *)
(* takes it and works on that slot; the one exception is a notification    *)
(* thread that was cancelled.                                              *)
LocksHeldInside ==
  /\ \A a \in Clients : shm_mutex = a <=> cmd[a] \in {"run", "notify", "put"}
  /\ \A s \in Slots, a \in Clients :
       /\ mutex[s] = Cmd(a) => cmd[a] = "put" /\ todo[a][s] > 0
       /\ mutex[s] = Ntf(a) =>
            /\ client_id[a] = s
            /\ notif[a] \in {"test", "take"} \/ (notif[a] = "done" /\ cancelled[a])

(* No two agents at work share a slot: one takes it only after every       *)
(* thread of the last one is gone.                                         *)
OneAgentPerSlot ==
  strays = {} =>
    \A a, b \in Clients :
      Running(a) /\ Running(b) /\ client_id[a] = client_id[b] => a = b

(* The records under a slot's number are those of the client that has the  *)
(* slot, not of an earlier one, however either came or went.               *)
RecordsOfOccupant ==
  strays = {} => \A s \in Slots : records[s] \subseteq {client_socket[s]}

(* A client is only ever sent messages that were meant for it: what is     *)
(* left in the queue of a departed client never reaches the next.          *)
NoCrossTalk ==
  strays = {} =>
    /\ \A a \in Clients : hand[a] \in {a, NoClient}
    /\ \A s \in Slots : client_socket[s] # NoClient =>
         \A n \in DOMAIN queue[s] : queue[s][n] = client_socket[s]

(* A notification thread asleep in pthread_cond_wait, not yet signalled,   *)
(* has nothing to send: also in a slot used before, by a thread cancelled  *)
(* in that same wait.                                                      *)
NoLostWakeup ==
  strays = {} =>
    \A a \in Clients :
      Running(a) /\ notif[a] = "wait" /\ ~signalled[a] => queue[client_id[a]] = <<>>

(* While nobody leaves, every message put into the queue of a client that  *)
(* reads is sent in the end, also while another client does not read.      *)
NoticesAreSent ==
  \A s \in Slots : queue[s] # <<>> /\ client_socket[s] \notin Deaf ~> queue[s] = <<>>

(* Assignment, page 4: "All successfully commands is replied by the agent  *)
(* as 'OK'": a command that was read is carried out and answered.  A       *)
(* client that only watches and never reads keeps nobody waiting: its      *)
(* notification thread waits for room in send with no mutex held.          *)
CommandIsAnswered ==
  \A a \in Clients : cmd[a] = "lock" ~> cmd[a] \in {"read", "done"}

NothingLeftOf(a) == agent[a] = "gone" /\ \A s \in Slots : a \notin records[s]

(* Assignment, page 2: after quit "server closes connection and removes    *)
(* all supplies, demands and watches created by the connection".           *)
QuitCleansUp ==
  \A a \in Clients : line[a] = "quit" /\ cmd[a] = "done" ~> NothingLeftOf(a)

=============================================================================
