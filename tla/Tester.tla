------------------------------- MODULE Tester -------------------------------
(***************************************************************************)
(* hw1/tester.c against the server: one client_thread and one receiver     *)
(* thread per simulated client, `running' shared by all of them, and at    *)
(* the other end of each connection the reader of LineReader.  In          *)
(* interactive mode the first client has a second receiver on its socket.  *)
(* Both ends write while they do not read, and neither socket is endless.  *)
(***************************************************************************)
EXTENDS LineReader, FiniteSetsExt

CONSTANTS
  First,        \* client number 0
  Launches,     \* how main is called: its clients, the lines of the script
                \* file or of the user, interactive_mode, and the clients
                \* for which fopen will fail
  SOCKET_ROOM   \* the bytes a socket takes before they are read

(* fgets gives lines; what it takes the newline from has none left.        *)
ASSUME TesterAssumption ==
  /\ First \in Conns /\ SOCKET_ROOM \in Nat \ {0}
  /\ \A launch \in Launches :
       /\ launch.clients \subseteq Conns /\ launch.interactive \in BOOLEAN
       /\ launch.script \in Seq(Seq(Chars)) /\ launch.unopened \subseteq Conns

VARIABLES
  alive,        \* the process: FALSE once SIGPIPE has ended it
  interactive,  \* interactive_mode
  script,       \* the lines of scriptfile, the same for all; or of the user
  unopened,     \* the clients that cannot open it
  running,
  sender,       \* where client_thread is
  at,           \* at[c]: the lines fgets has given
  unsent,       \* what send_command has still to write
  receiver,     \* receiver[c][k]: where its receiver_thread k is
  hand,         \* hand[c][k]: what the last read put into its buffer
  cancelled,    \* cancelled[c]: the receivers pthread_cancel was called on
  printed       \* history: the answers printed

tvars == <<alive, interactive, script, unopened, running, sender, at, unsent, receiver,
           hand, cancelled, printed>>
vars == <<rvars, tvars>>

Init ==
  /\ ReaderInit
  /\ alive = TRUE
  /\ running = TRUE
  /\ \E launch \in Launches :
       /\ interactive = launch.interactive
       /\ script = launch.script
       /\ unopened = launch.unopened
       /\ sender = [c \in Conns |->
                     IF c \in launch.clients THEN "connect" ELSE "exit"]
  /\ at = [c \in Conns |-> 0]
  /\ unsent = [c \in Conns |-> <<>>]
  /\ receiver = [c \in Conns |-> [k \in {1, 2} |-> "none"]]
  /\ hand = [c \in Conns |-> [k \in {1, 2} |-> <<>>]]
  /\ cancelled = [c \in Conns |-> {}]
  /\ printed = [c \in Conns |-> <<>>]

Goto(c, place) == sender' = [sender EXCEPT ![c] = place]

-----------------------------------------------------------------------------
(* client_thread and run_interactive_mode                                  *)

Receivers(c) == IF interactive /\ c = First THEN {1, 2} ELSE {1}

(* Connected, a client starts its receivers and goes to its commands; in   *)
(* interactive mode only the first has any.                                *)
connect(c) ==
  /\ alive
  /\ sender[c] = "connect"
  /\ receiver' = [receiver EXCEPT ![c] =
                    [k \in {1, 2} |-> IF k \in Receivers(c) THEN "loop" ELSE "none"]]
  /\ Goto(c, IF interactive /\ c # First THEN "cancel" ELSE "test")
  /\ UNCHANGED <<rvars, alive, interactive, script, unopened, running, at, unsent, hand,
                 cancelled, printed>>

Unopened(c) == ~interactive /\ c \in unopened

(* The script cannot be opened: the socket is closed under the receiver.   *)
fopen_fails(c) ==
  /\ alive
  /\ sender[c] = "test" /\ Unopened(c)
  /\ hungup' = [hungup EXCEPT ![c] = TRUE]
  /\ Goto(c, "cancel")
  /\ UNCHANGED <<wire, buffer, reader, locked, replies, ran, alive, interactive, script, unopened,
                 running, at, unsent, receiver, hand, cancelled, printed>>

connect_fails(c) ==
  /\ alive
  /\ sender[c] = "connect"
  /\ Goto(c, "exit")
  /\ hungup' = [hungup EXCEPT ![c] = TRUE]
  /\ UNCHANGED <<wire, buffer, reader, locked, replies, ran, alive, interactive, script, unopened,
                 running, at, unsent, receiver, hand, cancelled, printed>>

test_running(c) ==
  /\ alive
  /\ sender[c] = "test" /\ ~Unopened(c)
  /\ Goto(c, IF running THEN "fgets" ELSE "cancel")
  /\ UNCHANGED <<rvars, alive, interactive, script, unopened, running, at, unsent,
                 receiver, hand, cancelled, printed>>

Line(c) == script[at[c]]

fgets(c) ==
  /\ alive
  /\ sender[c] = "fgets"
  /\ \/ /\ at[c] < Len(script)
        /\ at' = [at EXCEPT ![c] = @ + 1]
        /\ unsent' = [unsent EXCEPT ![c] = script[at[c] + 1]]
        /\ Goto(c, "command")
     \/ /\ at[c] = Len(script)
        /\ UNCHANGED <<at, unsent>>
        /\ Goto(c, "cancel")
  /\ UNCHANGED <<rvars, alive, interactive, script, unopened, running, receiver, hand,
                 cancelled, printed>>

(* One write of send_command.  On a connection the server has closed it    *)
(* may still succeed, or fail, or SIGPIPE ends the process.                *)
write(c) ==
  /\ alive
  /\ sender[c] \in {"command", "newline"}
  /\ unsent[c] # <<>>
  /\ \/ \E n \in 1 .. Len(unsent[c]) :
          /\ unsent' = [unsent EXCEPT ![c] = SubSeq(@, n + 1, Len(@))]
          /\ \/ /\ ~Closed(c)
                /\ Len(wire[c]) + n <= SOCKET_ROOM
                /\ wire' = [wire EXCEPT ![c] = @ \o SubSeq(unsent[c], 1, n)]
             \/ Closed(c) /\ UNCHANGED wire
          /\ UNCHANGED <<alive, sender, hungup>>
     \/ /\ Closed(c)
        /\ Goto(c, "cancel")
        /\ unsent' = [unsent EXCEPT ![c] = <<>>]
        /\ UNCHANGED <<alive, wire, hungup>>
     \/ /\ Closed(c)
        /\ alive' = FALSE
        /\ hungup' = [d \in Conns |-> TRUE]
        /\ UNCHANGED <<wire, sender, unsent>>
  /\ UNCHANGED <<buffer, reader, locked, replies, ran, interactive, script, unopened, running, at,
                 receiver, hand, cancelled, printed>>

(* The command is out, then its newline; exactly "quit" stops everybody.   *)
written(c) ==
  /\ alive
  /\ unsent[c] = <<>>
  /\ \/ /\ sender[c] = "command"
        /\ unsent' = [unsent EXCEPT ![c] = <<NL>>]
        /\ Goto(c, "newline")
        /\ UNCHANGED running
     \/ /\ sender[c] = "newline"
        /\ UNCHANGED unsent
        /\ \/ Line(c) = <<Q>> /\ running' = FALSE /\ Goto(c, "cancel")
           \/ Line(c) # <<Q>> /\ UNCHANGED running /\ Goto(c, "test")
  /\ UNCHANGED <<rvars, alive, interactive, script, unopened, at, receiver, hand, cancelled,
                 printed>>

(* The receiver to be ended next: the one of run_interactive_mode first.   *)
Victim(c) == Max({k \in {1, 2} : receiver[c][k] # "none"})

(* Mutant: pthread_join without pthread_cancel.                            *)
NotCancelled(c) == cancelled[c]

WithCancelled(c) == cancelled[c] \cup {Victim(c)}

cancel(c) ==
  /\ alive
  /\ sender[c] = "cancel"
  /\ cancelled' = [cancelled EXCEPT ![c] = WithCancelled(c)]
  /\ Goto(c, "join")
  /\ UNCHANGED <<rvars, alive, interactive, script, unopened, running, at, unsent,
                 receiver, hand, printed>>

join(c) ==
  /\ alive
  /\ sender[c] = "join"
  /\ receiver[c][Victim(c)] = "done"
  /\ receiver' = [receiver EXCEPT ![c][Victim(c)] = "none"]
  /\ Goto(c, IF Victim(c) = 2 THEN "cancel" ELSE IF hungup[c] THEN "exit" ELSE "close")
  /\ UNCHANGED <<rvars, alive, interactive, script, unopened, running, at, unsent, hand,
                 cancelled, printed>>

close(c) ==
  /\ alive
  /\ sender[c] = "close"
  /\ hungup' = [hungup EXCEPT ![c] = TRUE]
  /\ Goto(c, "exit")
  /\ UNCHANGED <<wire, buffer, reader, locked, replies, ran, alive, interactive, script, unopened,
                 running, at, unsent, receiver, hand, cancelled, printed>>

-----------------------------------------------------------------------------
(* receiver_thread                                                         *)

Move(c, k, place) == receiver' = [receiver EXCEPT ![c][k] = place]

receive_test(c, k) ==
  /\ alive
  /\ receiver[c][k] = "loop"
  /\ Move(c, k, IF running THEN "read" ELSE "done")
  /\ UNCHANGED <<rvars, alive, interactive, script, unopened, running, sender, at, unsent,
                 hand, cancelled, printed>>

(* Mutant: no terminator, the rest of the last text is printed again.      *)
Unterminated(old, new) == new \o SubSeq(old, Len(new) + 1, Len(old))

Terminated(old, new) == new

(* What printf with %s prints of it.                                       *)
UpToNul(text) ==
  SubSeq(text, 1, Min({i \in DOMAIN text : text[i] = NUL} \cup {Len(text) + 1}) - 1)

receive(c, k) ==
  /\ alive
  /\ receiver[c][k] = "read"
  /\ \E n \in 1 .. Len(replies[c]) :
       /\ n <= ANSWER_ROOM
       /\ hand' = [hand EXCEPT ![c][k] = Terminated(@, SubSeq(replies[c], 1, n))]
       /\ replies' = [replies EXCEPT ![c] = SubSeq(@, n + 1, Len(@))]
  /\ Move(c, k, "print")
  /\ UNCHANGED <<wire, hungup, buffer, reader, locked, ran, alive, interactive, script, unopened,
                 running, sender, at, unsent, cancelled, printed>>

print(c, k) ==
  /\ alive
  /\ receiver[c][k] = "print"
  /\ printed' = [printed EXCEPT ![c] = @ \o UpToNul(hand[c][k])]
  /\ Move(c, k, "loop")
  /\ UNCHANGED <<rvars, alive, interactive, script, unopened, running, sender, at, unsent,
                 hand, cancelled>>

(* The server has closed, and bytes it had not read make read fail early;  *)
(* or the client has closed the descriptor before the call.                *)
receive_end(c, k) ==
  /\ alive
  /\ receiver[c][k] = "read"
  /\ \/ Closed(c) /\ (replies[c] = <<>> \/ wire[c] # <<>>)
     \/ hungup[c]
  /\ running' = FALSE
  /\ Move(c, k, "done")
  /\ UNCHANGED <<rvars, alive, interactive, script, unopened, sender, at, unsent, hand,
                 cancelled, printed>>

(* PTHREAD_CANCEL_ASYNCHRONOUS: at any point.                              *)
receiver_cancelled(c, k) ==
  /\ alive
  /\ k \in cancelled[c]
  /\ receiver[c][k] \in {"loop", "read", "print"}
  /\ Move(c, k, "done")
  /\ UNCHANGED <<rvars, alive, interactive, script, unopened, running, sender, at, unsent,
                 hand, cancelled, printed>>

-----------------------------------------------------------------------------
Sender(c) ==
  \/ connect(c) \/ connect_fails(c) \/ fopen_fails(c) \/ test_running(c)
  \/ fgets(c) \/ write(c) \/ written(c) \/ cancel(c) \/ join(c) \/ close(c)

Receiver(c, k) ==
  \/ receive_test(c, k) \/ receive(c, k) \/ print(c, k)
  \/ receive_end(c, k) \/ receiver_cancelled(c, k)

Next ==
  \E c \in Conns :
    \/ Reader(c) /\ UNCHANGED tvars
    \/ Sender(c)
    \/ \E k \in {1, 2} : Receiver(c, k)

Spec == Init /\ [][Next]_vars

(* Every thread of both programs runs while it can, and a user types.      *)
FairSpec ==
  /\ Spec
  /\ \A c \in Conns :
       /\ WF_vars(Reader(c) /\ UNCHANGED tvars)
       /\ WF_vars(Sender(c))
       /\ \A k \in {1, 2} : WF_vars(Receiver(c, k))

-----------------------------------------------------------------------------
BytesOK ==
  /\ script \in Seq(Seq(Chars)) /\ at \in [Conns -> 0 .. Len(script)]
  /\ unsent \in [Conns -> Seq(Bytes)]
  /\ wire \in [Conns -> Seq(Bytes)] /\ \A c \in Conns : Len(wire[c]) <= SOCKET_ROOM
  /\ buffer \in [Conns -> Seq(Bytes)] /\ \A c \in Conns : Len(buffer[c]) < BUFFER
  /\ ran \in [Conns -> Seq(Seq(Bytes))]

PlacesOK ==
  /\ hungup \in [Conns -> BOOLEAN]
  /\ reader \in [Conns -> {"register", "read", "lines", "answer", "done", "hung",
                           "closed", "killed"}]
  /\ locked \in Conns \cup {NoOne}
  /\ alive \in BOOLEAN /\ interactive \in BOOLEAN /\ running \in BOOLEAN
  /\ unopened \subseteq Conns
  /\ sender \in [Conns -> {"connect", "test", "fgets", "command", "newline",
                           "cancel", "join", "close", "exit"}]
  /\ receiver \in [Conns -> [{1, 2} -> {"none", "loop", "read", "print", "done"}]]
  /\ cancelled \in [Conns -> SUBSET {1, 2}]

AnswersOK ==
  /\ replies \in [Conns -> Seq(Nat)]
  /\ hand \in [Conns -> [{1, 2} -> Seq(Nat)]]
  /\ printed \in [Conns -> Seq(Nat)]

TypeOK == BytesOK /\ PlacesOK /\ AnswersOK

HasQuit(c) == ran[c] # <<>> /\ IsQuit(Last(ran[c]))

(* The server runs the lines of the script, each once, whole and in order, *)
(* however write, the socket and read cut the bytes into pieces, and never *)
(* a piece of one: not when the client stops in the middle either.         *)
LinesArriveWhole ==
  \A c \in Conns : IsPrefix(ran[c], SubSeq(script, 1, at[c]))

(* An agent leaves its loop only for a reason: it has run a quit, the      *)
(* client's end is closed, or a line and its newline do not fit into the   *)
(* buffer.  A line that just fits does no harm.                            *)
ReaderEndsForCause ==
  \A c \in Conns :
    reader[c] \in {"done", "hung"} \/ Closed(c) =>
      \/ HasQuit(c)
      \/ hungup[c]
      \/ at[c] > Len(ran[c]) /\ Len(script[Len(ran[c]) + 1]) >= BUFFER - 1

(* No answer is printed twice; with a single receiver on the socket they   *)
(* are printed in the order of the commands, and none is left out unless   *)
(* an invalid command was answered before it, with a NUL.                  *)
AnswersPrintedOnce ==
  \A c \in Conns : \A i, j \in DOMAIN printed[c] :
    /\ printed[c][i] = printed[c][j] => i = j
    /\ ~interactive /\ i < j => printed[c][i] < printed[c][j]
    /\ ~interactive /\ (\A n \in 1 .. printed[c][i] - 1 : ~Invalid(ran[c][n]))
         => printed[c][i] = i

-----------------------------------------------------------------------------
(* How the two programs can wait for each other for good.                  *)

(* The socket is full, and the agent at the other end has not closed.      *)
CannotWrite(c) ==
  /\ sender[c] \in {"command", "newline"} /\ unsent[c] # <<>>
  /\ Len(wire[c]) = SOCKET_ROOM /\ ~Closed(c)

(* The agent writes an answer to a client that no longer reads, since      *)
(* running is 0, and that is itself in a write to the agent.               *)
WriteToEachOther(c) ==
  /\ reader[c] = "answer" /\ Len(replies[c]) > ANSWER_ROOM
  /\ CannotWrite(c) /\ ~running
  /\ \A k \in {1, 2} : receiver[c][k] \in {"none", "done"}

(* Nobody will have shm->mutex any more: its agent is dead or in that wait.*)
MutexLost ==
  \E d \in Conns : locked = d /\ (reader[d] = "killed" \/ WriteToEachOther(d))

(* The agent at c will never read again.                                   *)
AgentStuck(c) ==
  \/ reader[c] = "hung"
  \/ WriteToEachOther(c)
  \/ /\ MutexLost
     /\ \/ reader[c] \in {"register", "done"}
        \/ reader[c] = "lines" /\ HasLine(c)

(* A line that was sent with its newline is run, unless the agent is gone  *)
(* first or stuck: it never waits in the buffer for another line, and is   *)
(* not left there at the end of file.                                      *)
SentLineIsRun ==
  \A c \in Conns : \A n \in 1 .. 2 :
    sender[c] = "test" /\ at[c] = n
      ~> \/ Len(ran[c]) >= n \/ reader[c] = "killed" \/ AgentStuck(c)
         \/ reader[c] \in {"done", "closed"} /\ (HasLine(c) => HasQuit(c))

(* main gets through its pthread_join calls: every client thread ends, its *)
(* receivers blocked in read or not, unless SIGPIPE ends all of them, or   *)
(* it is in a write to an agent that will never read again: one that hangs *)
(* in its join, one that writes to this client while nobody reads, or one  *)
(* that waits for shm->mutex behind such an agent or a dead one.           *)
EveryClientEnds ==
  <>(~alive \/ \A c \in Conns :
       sender[c] = "exit" \/ (CannotWrite(c) /\ AgentStuck(c)))

=============================================================================
