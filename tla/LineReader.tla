----------------------------- MODULE LineReader -----------------------------
(***************************************************************************)
(* The read loop of command_thread_func in hw1/supdemserv.c, one instance  *)
(* per connection: bytes come off the socket in pieces of any size, whole  *)
(* lines are run and answered with shm->mutex held, the rest of the buffer *)
(* is kept for the next read.  What a command does is in SupDemMap and     *)
(* AgentPool; here it is its line and one answer, which is written to a    *)
(* socket that may be full.                                                *)
(***************************************************************************)
EXTENDS Integers, Sequences, SequencesExt

CONSTANTS
  Conns,     \* the connections
  NoOne,
  BUFFER,    \* sizeof(buffer)
  NL,        \* the newline character
  Chars,     \* the characters of a line: no newline, and no NUL
  Q,         \* stands for "quit" at the beginning of a line
  Unknown,   \* a character no command begins with
  ANSWER_ROOM   \* what a socket takes of the answers before they are read

ASSUME ReaderAssumption ==
  /\ BUFFER \in Nat /\ BUFFER >= 2
  /\ NL \notin Chars /\ Q \in Chars /\ Unknown \in Chars \ {Q}
  /\ NoOne \notin Conns /\ ANSWER_ROOM \in Nat \ {0}

Bytes == Chars \cup {NL}

VARIABLES
  wire,      \* wire[c]: the bytes sent to the server and not read yet
  hungup,    \* hungup[c]: the client's end is closed
  buffer,    \* buffer[c]: from line_start to buffer_len
  reader,    \* where the agent is; it may be "closed", "hung" for ever in a
             \* join, or "killed" by SIGPIPE
  locked,    \* whose agent has shm->mutex
  replies,   \* replies[c]: what the client has not read: answers, by number;
             \* what the socket has no room for is still to be written
  ran        \* history: the lines run

rvars == <<wire, hungup, buffer, reader, locked, replies, ran>>

ReaderInit ==
  /\ wire = [c \in Conns |-> <<>>]
  /\ hungup = [c \in Conns |-> FALSE]
  /\ buffer = [c \in Conns |-> <<>>]
  /\ reader = [c \in Conns |-> "register"]
  /\ locked = NoOne
  /\ replies = [c \in Conns |-> <<>>]
  /\ ran = [c \in Conns |-> <<>>]

Closed(c) == reader[c] \in {"closed", "killed"}

At(c, place) == reader' = [reader EXCEPT ![c] = place]

register_client(c) ==
  /\ reader[c] = "register"
  /\ locked = NoOne
  /\ At(c, "read")
  /\ UNCHANGED <<wire, hungup, buffer, locked, replies, ran>>

(* Mutants: a byte too much, a byte too few.                               *)
RoomToTheBrim(c) == BUFFER - Len(buffer[c])
RoomTooSmall(c) == BUFFER - Len(buffer[c]) - 2

(* What read may return at most: the last byte is for the terminator.      *)
Room(c) == BUFFER - Len(buffer[c]) - 1

read_some(c) ==
  /\ reader[c] = "read"
  /\ \E n \in 1 .. Room(c) :
       /\ n <= Len(wire[c])
       /\ buffer' = [buffer EXCEPT ![c] = @ \o SubSeq(wire[c], 1, n)]
       /\ wire' = [wire EXCEPT ![c] = SubSeq(@, n + 1, Len(@))]
  /\ At(c, "lines")
  /\ UNCHANGED <<hungup, locked, replies, ran>>

(* read returns 0 at the end of the stream, and when it is asked for 0     *)
(* bytes because a line fills the buffer; it fails when the client closed  *)
(* with answers unread.                                                    *)
read_ends(c) ==
  /\ reader[c] = "read"
  /\ \/ Room(c) = 0
     \/ hungup[c] /\ wire[c] = <<>>
     \/ hungup[c] /\ replies[c] # <<>>
  /\ At(c, "done")
  /\ UNCHANGED <<wire, hungup, buffer, locked, replies, ran>>

NewlineAt(c, i) ==
  /\ buffer[c][i] = NL
  /\ \A k \in 1 .. i - 1 : buffer[c][k] # NL

HasLine(c) == NL \in Range(buffer[c])

(* strncmp(command, "quit", 4): what follows does not matter.              *)
IsQuit(text) == text # <<>> /\ Head(text) = Q

(* "Error: Invalid command\n" is written with a length of 24, and so with  *)
(* its terminator.                                                         *)
NUL == 0

Invalid(text) == text = <<>> \/ Head(text) = Unknown

Answer(n, text) == IF Invalid(text) THEN <<n, NUL>> ELSE <<n>>

(* Mutant: `if' for the inner `while'.                                     *)
AfterLineRead(text) == IF IsQuit(text) THEN "done" ELSE "read"

AfterLine(text) == IF IsQuit(text) THEN "done" ELSE "lines"

(* shm->mutex is taken, the line is run and write is called for its answer.*)
run_line(c) ==
  /\ reader[c] = "lines"
  /\ locked = NoOne
  /\ \E i \in DOMAIN buffer[c] :
       /\ NewlineAt(c, i)
       /\ LET text == SubSeq(buffer[c], 1, i - 1)
          IN /\ ran' = [ran EXCEPT ![c] = Append(@, text)]
             /\ replies' = [replies EXCEPT ![c] = @ \o Answer(Len(ran'[c]), text)]
       /\ buffer' = [buffer EXCEPT ![c] = SubSeq(@, i + 1, Len(@))]
  /\ locked' = c
  /\ At(c, "answer")
  /\ UNCHANGED <<wire, hungup>>

(* write returns when the socket has taken the whole answer, or fails      *)
(* because the client has closed, or SIGPIPE ends the agent, which does    *)
(* not unlock shm->mutex.                                                  *)
answered(c) ==
  /\ reader[c] = "answer"
  /\ \/ /\ Len(replies[c]) <= ANSWER_ROOM \/ hungup[c]
        /\ At(c, AfterLine(Last(ran[c])))
        /\ locked' = NoOne
     \/ hungup[c] /\ At(c, "killed") /\ UNCHANGED locked
  /\ UNCHANGED <<wire, hungup, buffer, replies, ran>>

(* Mutant: no memmove, the next read overwrites the unfinished line.       *)
Overwritten(c) == <<>>

(* memmove of what follows the last newline.                               *)
Kept(c) == buffer[c]

need_more(c) ==
  /\ reader[c] = "lines"
  /\ ~HasLine(c)
  /\ buffer' = [buffer EXCEPT ![c] = Kept(c)]
  /\ At(c, "read")
  /\ UNCHANGED <<wire, hungup, locked, replies, ran>>

(* The agent joins its threads, cleans up with shm->mutex and closes the   *)
(* socket.  The second join may never return (AgentPool shows when).       *)
close_agent(c) ==
  /\ reader[c] = "done"
  /\ \/ locked = NoOne /\ At(c, "closed")
     \/ At(c, "hung")
  /\ UNCHANGED <<wire, hungup, buffer, locked, replies, ran>>

Reader(c) ==
  \/ register_client(c) \/ read_some(c) \/ read_ends(c) \/ run_line(c)
  \/ answered(c) \/ need_more(c) \/ close_agent(c)

=============================================================================
