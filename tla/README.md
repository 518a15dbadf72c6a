# A TLA+ model of the CENG536 programs

The repository holds three programs: `hw1`, a supply and demand matching
server with one process per client and tables in shared memory, with a tester
that plays its clients; `hw2`, a system call that describes the mapping at an
address; `hw3`, a Linux character device that stores a stream in buckets and
encrypts it. This directory models the four of them, checks the models with
TLC on small instances and proves the safety properties and five refinements
with TLAPS for every size.

Line numbers refer to `src/hw1/supdemserv.c`, `src/hw1/tester.c`,
`src/hw2/mm536.c` and `src/hw3/cipher/cipher.c`; which one is named where it is
not clear.

## Inventory

| part | state it keeps | operations | talks to |
|---|---|---|---|
| shared map (hw1, 268-309, 475-642) | tables `supplies`, `demands`, `watches`; position of each client | register, leave, move, demand, supply, watch, unwatch; the matching scan; the watch events | calls `enqueue_notification`; run with `shm->mutex` held |
| notification queue (hw1, 348-360, 448-473) | ring `notifications`, `notif_head`, `notif_tail`, mutex, condition | enqueue (any agent), take and send (notification thread of the client) | the socket |
| agents, slots, threads (hw1, 246-346, 362-473) | `client_socket` of each slot, three threads per process, the mutexes | accept and fork, register, command loop, cancel, join, clean up | all of the above |
| line reader (hw1, 367-388, 429-445) | a buffer of 1024 bytes | read, cut at newlines, run, keep the rest | the socket, the command handlers |
| listing commands (hw1, 644-760) | none | four reports: header with the number of rows, then the rows | read the tables with `shm->mutex` held |
| start-up (hw1, 109-266) | none of its own | initialise, listen | agents |
| `tester.c` (hw1) | `running`, one flag for all its clients; a socket and one or two receiver threads per client | connect, send a script or what a user types, print answers, cancel and join | the server's sockets |
| `mm536.c` (hw2) | a record and a page during the call | `check_addr`: fills a record about the mapping at an address | the kernel's memory maps, under `mmap_read_lock` |
| cipher device (hw3, 37-524) | list of buckets with reference counts, key, key offsets, list of contexts; per context a bucket pointer, two offsets, a quota | open, release, read, write, `CIPHER_IOCCLR`, `CIPHER_IOCSKEY`, `CIPHER_IOCQREM` | user programs |
| module set-up and removal (hw3, 537-629) | the array of devices | initialise, register, remove | kernel |

**What is hard in it.** The server is many processes on one memory: a thread
that is cancelled or a process ended by SIGPIPE leaves its mutexes as they are;
a slot is used by one client after another; a sender holds `shm->mutex` while it
waits for the mutex of a receiver; the receiver gives its mutex up to send. An
agent writes its answers with `shm->mutex` held while its client may itself be
in a write. The matching scan changes both tables while it walks them, and an
index is used after a call that may have emptied its cell. The device counts
references in four places (open, passing a bucket, leaving a bucket, close) that
must add up over all contexts, moves its key offset before it knows whether a
copy succeeded, gives a reference up before it knows whether allocation
succeeded, and reads a position before it takes the mutex. Between tester and
server lines are cut anywhere, either end may go first, and threads are
cancelled at any point. The system call has early returns under a lock which its
last step may need again.

**What makes each part correct.**

- map: no demand and supply that fit are ever left side by side; a demand is
  served whole, once, and from a supply that covers it; every record and every
  notice belongs to a client that is there; one watch per client.
- queue: first in first out up to its capacity, no lost wakeup, emptied in the
  end.
- agents: a mutex is held inside its critical sections only; no two
  agents at work share a slot; nothing of one client reaches the next client of
  its slot; commands are answered, also when another client does not read;
  leaving cleans up.
- line reader and tester: lines arrive whole, in order, once, and are run; a
  connection ends for a reason; an answer is printed once; the tester ends,
  unless it and its agent wait for each other.
- listing: the answer is the table of one moment.
- `check_addr`: area and counters answered are of one moment; lock and page are
  given back on every path; the call returns.
- device: a bucket lives as long as a context is at it; a reader gets the
  stream in order, once, and decrypted; nothing outlives a reset;
  `CIPHER_IOCQREM` tells the truth; every call gives the mutex back.

`PROJECT.json` lists the hazards behind these at their lines. Some of them the
code does not withstand: those have no property, or one that stops short of
them, and a note that says so.

## Modules

| module | what it is |
|---|---|
| `Market` | abstract: offers and wants on a map, served one at a time |
| `SupDemMap` | the tables and every command that changes them |
| `SupDemMapProofs`, `OwnershipProofs` | theorems about `SupDemMap`; the first also that it implements `Market` |
| `BoundedFifo` | abstract: a queue that drops the message that comes while it is full, and no other |
| `NotifyRing` | the ring, its mutex and condition, both sides |
| `NotifyRingProofs` | theorems about `NotifyRing`, with the refinement of `BoundedFifo` |
| `Listing` | the four listings beside the commands of `SupDemMap` |
| `ListingProofs` | theorems about `Listing`, which carries those about `SupDemMap` over |
| `AgentPool` | processes, threads, slots, mutexes, closing, cancelling, SIGPIPE, clients that do not read |
| `AgentPoolProofs` | theorems about `AgentPool` |
| `LineReader` | the read loop of a command thread, with its socket |
| `Tester` | `tester.c`, its threads, with a `LineReader` at the other end of each connection |
| `TesterProofs` | theorems about `Tester` and `LineReader` together |
| `AddressCall` | abstract: a call that takes effect in one step on the address space |
| `CheckAddr` | the system call, and the `mmap` calls of other threads |
| `CheckAddrProofs` | theorems about `CheckAddr`, with the refinement of `AddressCall` |
| `ByteStream` | abstract: one numbered stream, which every reader reads on its own |
| `CipherDev` | one minor device |
| `CipherProofs` | theorems about `CipherDev`, with the refinement of `ByteStream` |
| `MC...` | constants for TLC |

`AgentPool` composes the other two server modules by their abstractions: a
queue is the bounded FIFO that `NotifyRing` is proved to implement, and the map
is reduced to who has records, which `NoOrphanRecords` and
`OnlyLiveAreNotified` of `SupDemMap` justify (a notice goes to a slot with
records). Each table is `[client_id, at, amount, ...]` cells, a free cell has
`client_id = -1` as in C.

### SupDemMap

A command holds `shm->mutex`, so commands are steps that exclude each other.
`move`, `watch`, `unwatch`, `register_client` and `remove_client_resources` are
one step. `demand` and `supply` insert (`add_new_demand`, `add_new_supply`),
then `check_for_match` is one step per row of its outer loop, then
`end_command` is the part after the scan with
`check_for_watch_events_on_new_supply`. One row is one step since a demand that
is served is removed, after which `check_case_match` refuses the row's other
supplies. `out` is the sequence of `enqueue_notification` calls of the last
step; the text of a message is its kind, its receiver and the amounts.

### Listing

`Listing` adds the four listings to the commands. They differ in the table and
in whose rows they give, so one pair of actions stands for them:
`start_listing` counts and writes the header, `write_row` writes the next row,
`end_listing` gives the mutex back. Rows are separate steps because each is a
`write` to a socket (660-673); a command of another client would fit between
them if it could take the mutex.

### NotifyRing

`LockForEnqueue` and `Enqueue` are `enqueue_notification` with its mutex,
`LockToWait`, `Test`, `Wake`, `Take`, `Drained`, `Send` and `Relock` the program
points of `notification_thread_func`. `shm->mutex` is held around every
`enqueue_notification`, so there is one enqueuer at a time. `Wake` needs no
signal: `pthread_cond_wait` may return spuriously.

`BoundedFifo` has the message that is coming beside those that wait: `Offer`
names it, and from there it is either `Put` last or, with `capacity` waiting,
dropped (`Drop`). A ring that dropped a message while it has room, or dropped
an old one, would take a step that is none of these.

### AgentPool

An agent has `agent` (main thread), `cmd` (command thread) and `notif`
(notification thread) as program counters. A slot mutex records the thread that
holds it; nothing but that thread's steps give it back, so a thread that ends
inside `pthread_cond_wait` by cancellation (`notif_cancelled_waiting`) keeps it
for good, as POSIX says of a thread without a cleanup handler. `Killed` is
SIGPIPE: a write to a socket whose peer has closed may succeed or end the
process, in `run_command`, `run_quit` and `notif_send`. A record and a message
carry the connection they are meant for. The code does not store that; the
properties use it. Which tables a command touches is over-approximated: a
command may or may not add a record, and may cause notices to any slots with
records (restricted by `Notifies`), up to `MaxNotices` to each: a demand served
from its own client's supply is two or three of them (588, 598, 614). With no
free slot `client_id` stays uninitialised (line 315): `register_client_full`
lets the agent take any slot's number or crash at once, and `strays` remembers
it.

A client in `Deaf` never reads: its socket takes `SOCKET_ROOM` writes, then
`Written` is disabled, which is a `write` that blocks. The notification thread
gives its mutex up before it writes (`UnlockToSend`, 465) and so blocks alone.
The command thread writes its answer with `shm->mutex` held (392).

Left out: failing `fork` and `pthread_create`; bytes (a read gives one line or
end of file, which `LineReader` refines in a model of its own).

### LineReader and Tester

`wire`, `buffer` and `replies` are the bytes of one connection, sent, read and
answered. `read_some` takes any number of them up to the room there is,
`run_line` takes `shm->mutex`, runs the first whole line of the buffer and calls
`write` for its answer; `answered` is the return of that `write` and the unlock,
and waits until the socket has taken all of the answer (`ANSWER_ROOM`). If the
client has closed, it may instead be `killed` by SIGPIPE, with the mutex
`locked`. `need_more` is the `memmove` (441-442), `read_ends` the three ways out
of the loop: end of file, an error, and a full buffer, for which `read` is asked
for 0 bytes and returns 0. A line is a short sequence of characters that stands
for its command: the code looks at four characters for `quit`, at a prefix for
the other commands, and at the newline. An answer is its number, followed by a
NUL where the code writes one (435). What the command does is in `SupDemMap`;
what the agent does after the loop is in `AgentPool`; here it takes the mutex
once more and closes, or hangs in its join (`close_agent`), as
`quit_reused_slot` shows it can.

`Tester` runs `main`, a `client_thread` for each client and its receivers. In
interactive mode the first client has two receivers on one socket (270 and
`run_interactive_mode`), and the others send nothing. A client that cannot open
its script closes the socket under its receiver (`fopen_fails`, 280-288), which
makes `running` 0 for all. `write` sends any part of a command that the socket
has room for (`SOCKET_ROOM`); on a connection the server has closed it may
succeed, fail, or end the process. `cancelled` receivers end at any of their
steps, since the cancellation is asynchronous. `hungup` is the client's close,
which wakes or fails the server's calls on the other end.

Both ends write while they do not read, so they can wait for each other. When
`running` has become 0, receivers leave their loops (112) while a sender may be
blocked in `write` (91); if its agent is then blocked in the `write` of an answer
(392, 658, 670), neither reads again, and since the agent has `shm->mutex`
nobody else is served. `WriteToEachOther` is that state, `MutexLost` adds the
agent killed with the mutex, `AgentStuck` who is stuck on account of either or
in its join. TLC reaches all of them. `SentLineIsRun` and `EveryClientEnds`
except exactly these, by name, and nothing else: a client that is not in a
`write` ends in any case, and one in a `write` ends if its agent will read.

### CheckAddr

The steps of a call are the places at which something else can happen: taking
the lock, `find_vma`, the page for the path, the counters, the unlock, the
copy. `Writer` stands for `mmap` and `munmap` of other threads: it waits for
the lock, which already holds new readers back, changes the areas and then the
counters. `find_vma` is the first area that ends above the address. Of the
flags one is kept (`filemapped`, which decides about the page); the others are
copied from the same area at the same place. `total_vm` stands for the counters
of the map that the lock protects; `rss_stat` for the resident ones, which pages
coming and going change at any time (`resident`). The two of them that are
read (100-101) are read in two steps (`counters`, `more_counters`).
`copy_to_user` writes the fields one after the other, without a lock; at any of
them it may fault, and the fault (`page_fault`) needs the lock, so that it waits
while a writer has it or waits for it. Then the copy goes on, or the call fails
with what it has written so far left in the caller's structure.

`AddressCall` has no lock, no counters of the map apart from the areas and no
program points. A call takes effect in `Find`, which takes the area, the pages
and the number of areas down at once, or in `Miss`. The first resident counter
is sampled before that (`Sample`), the second is that of the moment of `Find`:
of one layout is the record except for these two. `Write` puts a front part of
what was taken down into the caller's structure, `Deliver` the whole, `Fail`
leaves what is there. `Sampled` and `TakenDown` map the code onto it: a call has
taken its record down from `more_counters` to the end of the copy. That the lock
is gone by then and a change may fall in between is no exception: what was taken
down stays as it is.

### CipherDev

A call holds `dev->mut` to its end. A read or write is `BeginRead`/`BeginWrite`,
then one step per turn of its loop (`PassBucket`, `CopyToUser`, `AddBucket`,
`CopyFromUser` and their failing forms), then `EndRead`/`EndWrite`; `call` is the
call in progress and what is left of its count. `CIPHER_IOCQREM` is two steps,
since lines 477-478 read the context before the mutex is taken at 480; the
first may fall anywhere, also inside another file's call. Open, release and
the two resets are one step each. A file is used by one thread at a time.

Buckets are numbered in the order of allocation and numbers are not used again,
so a pointer to a freed bucket is never mistaken for a live one. When the code
would follow such a pointer or take a remainder by an empty key's length, the
behaviour is undefined: `fault` says which and the model stops. A stored byte is
its number, its writer, the reset epoch and the key character it met; a byte
read is right when it meets the same character again. Key offsets are kept
modulo the length of the key, which is all `cipher_xor_buffer` uses of them
(their overflow after 2^31 bytes is not modelled).
`serial`, `resets`, `got`, `mishaps` and `resumed` are history variables. `got` is
what the turns of `read` have put into a reader's memory. When a later turn of
the same call fails, `read` returns `-EFAULT` (293) and does not say that
anything was copied, but the bytes are there and the position has moved behind
them.

`ByteStream` knows of no buckets, references, offsets or keys: a stream is its
length since the last reset, who has written to it, whether something was lost,
and what each reader has read. `Store` lengthens it, `Hand` gives one reader
more of it and leaves what it had and what others have alone, `Close`, `Lose`
and `Reset` are the rest. What is lost after a close, a failure or with two
writers it leaves open, and there it promises less (`Whole`).

The eight minors share nothing, so one is modelled. Opening for both reading
and writing, `llseek`, and the failing argument checks change nothing.

## Runs

| run | bounds | what it shows |
|---|---|---|
| `matching` | 2 clients, 2 supplies, 2 demands, 2 points one apart, distances 1 and 2 (out of reach, in reach), vectors that cover, tie and leave a rest | `NoPendingMatch`, `OnlyTheNewcomerMatches`, `ImplementsMarket`. Two rows and two columns are enough for a scan that serves several demands from one supply, or one demand of two that compete |
| `watching` | 2 clients, 2 supplies, 1 demand, watches of distance 0 and 1, a supply that is used up or not, listings | ownership of records, notices once and to live clients, the index used after the scan (`ToldOfTheNewSupply`), `ListingIsSnapshot` |
| `ring` | 4 cells, 3 messages | indices wrap, the queue fills and drops; safety, FIFO refinement and `EverythingIsSent` |
| `pool` | 3 clients on 2 slots, 1 line each with up to 2 notices to each slot, queue of 1, everybody may quit or close | a slot is used by two clients in turn, both slots leak and a third client finds none, two clients notify a third whose queue is full; all safety properties of `AgentPool` |
| `served` | 2 clients that stay, one of them deaf with a single command, 3 lines of the other, up to 3 notices of a command to each slot, queue of 2, 2 writes until a socket is full | `NoticesAreSent`, `CommandIsAnswered`: the deaf client's notification thread blocks, its queue fills, and the other client is served and told all the same |
| `session` | 1 client with 5 scripts, 2 clients that share `running`, one of which may not find its script; script and interactive mode; a buffer of 4, a socket of 2 bytes each way | `LinesArriveWhole`, `ReaderEndsForCause`, `AnswersPrintedOnce`, `SentLineIsRun`, `EveryClientEnds`; scripts with an empty, a just fitting and a too long line, `quit`, a line that only begins with `quit`, invalid commands |
| `check_addr` | 2 calls, 2 layouts that differ in area, pages and count (one area below; one of a file behind a hole and one above it), 2 addresses, 2 versions of the resident counters, 1 change of the layout | `CallIsAtomic`, `NothingLeftBehind`, `EveryCallReturns` |
| `cipher_stream` | 2 readers, 2 writers, buckets of 2, quota of 3, counts 1 and 3, 3 buckets in all, one writer closes and reopens, one failing allocation | `HeldUntilSomeoneCloses`, `InOrder`, `ImplementsStream`: streams that cross buckets, cut in any way |
| `cipher_reset` | 2 readers, one of which closes and comes back and asks, 1 writer that stays, 3 buckets of 2, a quota of 3, 1 reset, to another key or an empty one, failing copies | `NothingOutlivesReset`, `Deciphered` over several buckets and keys, `QremCountsUnread`, `EveryCallReturns` |
| `quit_reused_slot` | 2 clients on 1 slot | a violation, see below |
| `use_after_free`, `readers_resume` | 1 reader, 1 writer | violations, see below |

`pool` is symmetric in the clients and `cipher_stream` in the readers; no run
with a liveness property uses symmetry. The properties of `pool` other than
`TypeOK` and `LocksHeldInside` say nothing once an agent works under an
uninitialised number, which the run reaches as well.

`HeldUntilSomeoneCloses` and the part of `ImplementsStream` that is about whole
streams speak of epochs in which nothing has happened that is known to lose
data (`mishaps`): TLC finds that a close, or an allocation that fails, can free
a bucket in use, and that two writers leave bytes behind their readers. So they
do not catch what a second close or a retry after a failed `kmalloc` does to the
counts; it is listed below. `Deciphered` allows more: readers may close and
come back, so that buckets are freed and passed and a reader opens in the middle
of the stream, and still every byte is decrypted with the character it was
encrypted with. It needs one author, no failed `copy_to_user` since the reset, a
writer that has not closed, and a key whose length divides the bucket; of each
TLC finds that it cannot be dropped. With the writer's close, `keylast` is stale
when the tail of the list is freed and an earlier bucket stays.

**Deadlock.** The map and the ring always have a next step and are checked for
deadlock. The pool stops when all clients have sent what they send, and the
device stops after a fault and when the bound on buckets and resets is
reached; a session and the system calls end. Their runs say
`CHECK_DEADLOCK FALSE`, and where getting stuck would be a fault a liveness
property says so (`CommandIsAnswered`, `EveryClientEnds`, `EveryCallReturns`).

**Bounds** are `MaxLines`, `DeafLines`, `MaxConnections` and `MaxNotices` in
`AgentPool`, `MaxBuckets`, `MaxResets` and one failing `kmalloc` per epoch in
`CipherDev`, `CHANGES` in `CheckAddr`, and the scripts of `Tester`, which are
finite. The tables, the ring, the buffer of a line, the sockets and the quota
are bounded by the code's or the kernel's own constants, made small. One change
of the layout may fall before a call has the lock, after it has given it back,
while its copy waits, or behind it; the other layout differs in everything a
record shows.

**Fairness.** `AgentPool`: weak fairness of each thread, since the scheduler runs
every thread that can run, and of reading end of file; none of what clients
send. No fairness is assumed of a mutex: `MaxLines` bounds how often it is
taken. `NotifyRing`: weak fairness of the end of an enqueue and of the receiver,
none of spurious wakeups or of new messages; `EverythingIsSent` assumes that
enqueuing stops. `CipherDev`: weak fairness of the steps of the call that has
`dev->mut`, which has nobody to wait for. `Tester`: weak fairness of each
thread of both programs, that is of each agent while it can go on: an agent
that waits for `shm->mutex`, for room in a socket or in its join gets none; a
user goes on typing, as a script file does.
`CheckAddr`: strong fairness of each call, since the mmap lock queues those who
wait, so that no call is passed over by one writer after another; weak fairness
of the writers.

## Where code and documents disagree

- `quit_reused_slot`: `pthread_cancel` ends the notification thread inside
  `pthread_cond_wait` (456) with the slot mutex locked. The next client of the
  slot has a notification thread that hangs at 454, so its quit hangs at 340
  and its records stay. The same orphaned mutex, met by a sender at 349, stops
  the whole server, since `shm->mutex` is held there.
- `use_after_free`: line 270 reads the list link of a bucket freed at 261.
- `readers_resume`: a reset sets `next` to NULL (430) and no code gives an open
  reader a bucket again. A reader that opened an empty device is in the same
  state.

Seen while modelling, and not kept as runs of their own.

- *Departures.* SIGPIPE is not ignored, so an agent that writes to a closed
  socket may die before `remove_client_resources`, and with `shm->mutex` held if
  it is the answer of a command (392), which stops everybody. A client that
  reads nothing and sends more commands than its socket takes answers stops
  everybody too (`served` with `DeafLines = 2`), and so do a tester's client and
  its agent that write to each other (`WriteToEachOther` of `session`). The
  agent that finds no free slot works under an uninitialised number (315).
- *Lines.* A line of 1023 bytes or more is taken for the end of the connection
  (370). A NUL sent by a client ends the string functions' view of its line.
  The server takes every line that begins with `quit` for one, the tester only
  `quit` itself. `Error: Invalid command` is written with its terminator (435),
  and the tester's `%s` (118) drops what came behind it in the same read.
- *Answers.* A demand or supply that finds its table full is dropped with `OK`
  (395). `OK` and notices reach one socket from two threads in any order.
- *Tester.* In interactive mode two receivers read one socket, so answers come
  out in any order. A cancellation inside `printf` may leave `stdout` locked.
  When the script cannot be opened, the descriptor is closed under its receiver
  (284) and its number may be given to the next connection. `running` ends all
  clients when one quits.
- *Watches.* A watch with distance 0 never reports (551); a supply used up by its
  own scan is not reported to watchers (548).
- *Device.* The close of a lone writer (215-222) frees what it wrote last,
  because its buckets were counted for nobody else, although `test.c` line 55
  reads back what it wrote. Release also gives back the references a reader has
  given up already, and so frees a bucket another file is at. `keyfirst` stays 0
  when the head bucket is freed, although the 24 characters of the default key
  do not divide 256, so a reader that opens then starts at the wrong character.
  Two writers of one device each run a key offset of their own, and one that
  opened before the other's first bucket fills a bucket readers have passed. An
  empty key is a division by zero; a key offset is an `int` that never shrinks.
- *System call.* An area counts as the stack when it begins at `start_stack`,
  and as the heap only when it ends at `brk` exactly; major and minor come from
  `i_rdev`, which is that of a device file, not of the file's file system;
  `vmref` is the number of areas, where the assignment speaks of references;
  the resident set counters are not protected by the mmap lock.

## Proofs

All theorems hold for every value of the constants that satisfies the
assumptions, and are checked by `tlapm` to the last leaf.

Assumptions: table sizes are positive (`SizesAssumption`); `MAX_CLIENTS <=
MAX_WATCH`, both 1000 in the code (`WatchRoomAssumption`); points and distances
are integers and amounts are not negative (`InputsAssumption`, from the
assignment's "You do not have to handle error cases"); the ring has a cell
(`RingAssumption`); there is a slot, and the clients of each kind are clients
(`PoolAssumption`); the characters of a line are neither newline nor NUL, a
buffer and a socket have room, and scripts are lists of lines
(`ReaderAssumption`, `TesterAssumption`); areas are finitely many, not empty
and do not overlap (`CheckAddrAssumption`); readers and writers are different
files and finitely many, a bucket has a byte, keys are strings
(`CipherAssumption`).

- `SupDemMapProofs`: `TypeCorrect`; `NoMatchLeftBehind` and
  `ScanServesTheNewcomer`. `NoPendingMatch` is not inductive, since it says
  nothing during a scan. `MatchInv` adds that rows behind `row` have no match
  left and that any match there is involves the newcomer: the supply `fresh`,
  or else one demand. The lemma `MatchesShrink` carries it: a match step only
  lowers amounts and empties cells, so with amounts that are not negative it
  creates no match (here `InputsAssumption` is needed).
- `OwnershipProofs`: `OwnInv` (records belong to live clients, messages go to
  them, watches are unique) gives `NoOrphans`, `NoNoticeToTheDeparted` and
  `AtMostOneWatch`. `WatchIsNeverDropped` counts: with the client's own watch
  gone the rest belong to different other clients, fewer than `MAX_WATCH`.
  `WatchersToldTheTruth` follows the supply of the running command: its row is
  its own or free throughout the scan (`FreshInv`), which alone does not keep a
  watcher from being told of a freed one; the test of 548 does. It needs that the
  position of the running client stays put during its scan. `NoSupplyToldTwice`
  follows from unique watches and the order of the table.
- Also in `SupDemMapProofs`: `MapImplementsMarket`, every step of the map is a
  step of `Market` or changes nothing in it. A command that finds its table full
  and a row without a match are stuttering; a row with one is `Serve`.
- `ListingProofs`: `ListingShowsOneMoment` from `ListInv`: while a listing is
  under way nothing else is, so the rows out so far are those of the table up to
  the position, and those behind it are as many as the header still owes; the
  row count needs the cardinality of a set that shrinks by one with each row.
  `ListingsLeaveTheMapAlone` says that every step of `Listing` is a step of
  `SupDemMap` or stutters there, and with it the invariants of `SupDemMap` hold
  beside listings (the five theorems `...BesideListings`).
- `NotifyRingProofs`: `RingTypeCorrect`, `RingMutualExclusion`,
  `WakeupNeverLost` from one invariant (the program point tells who has the
  mutex, cells between tail and head hold messages, the local copy is full
  exactly between take and send), and `RingIsBoundedFifo`, with the arithmetic of
  the wrapping indices in `PutArithmetic` and `TakeArithmetic`. The message an
  enqueuer holds between its lock and its unlock is the one that is `coming`, and
  the test of 351 finds the ring full exactly when `capacity` messages wait.
- `AgentPoolProofs`: one invariant, `PoolInv`, for six theorems. `LocksBalanced`:
  `shm->mutex` is held exactly by an agent inside, and a slot mutex by no thread
  outside (a cancelled thread keeps its own): each action that takes or gives one
  moves its thread; that an enqueuer has one slot mutex at a time
  (`OneEnqueue`) keeps the rest true when it gives it back. `SlotsNotShared`
  comes from `Occupied`: while every agent found a free slot, `client_socket`
  of its slot names it, since only `remove_client_resources` of the same process
  clears it. From that `RecordsStayWithTheirClient`, and from both
  `NoMessageForAnother`: `register_client` empties the ring, and who enqueues
  reads the receiver off the records. `PoolWakeupNeverLost` is inductive with
  `Occupied`. All hold for clients that die, are cancelled or do not read.
- `TesterProofs`: one invariant, `SessionInv`, for both programs.
  `LinesAreNotTorn` follows the stream: what the server ran, what its buffer and
  its socket hold and what the tester has still to write are, joined, the lines
  sent so far (`Streams`). Since no character of a line is a newline, a newline
  in the buffer is the end of the first line under way and of nothing else; the
  lemmas about `Carries` say that cutting there takes off exactly that line,
  wherever `read` and `write` cut. `ReaderHasCause` adds what each end of the
  loop means for the stream (nothing more comes, or a line fills the buffer).
  `NoAnswerTwice` says where an answer is: not given yet, in the socket, or with
  one receiver, and in no two of these. `Joins` says that a client has a
  receiver from its start until it closes, so that `SessionTypeCorrect` may name
  the one to cancel.
- `CheckAddrProofs`: `AnswerIsASnapshot` and `LockAndPageReturned` from
  `CallInv`: a call has the lock from `mmap_read_lock` to the unlock, a writer
  has it alone, so what a reader saw is still there and the counters agree with
  it. `FirstAbove`, `FoundCovers` and `NothingCovers` say that the test after
  `find_vma` is right: areas do not overlap, so when the first that ends above
  the address begins above it, no area covers it. `CallsTypeCorrect` needs that
  `total_vm` is a number: it is a fold over a finite set, whose function exists
  and is natural because no set of areas is the smallest for which it fails
  (`SumsAlways`, `PagesType`), an induction without an induction theorem.
  `CheckAddrIsAtomic` is the refinement of `AddressCall`: by `CallInv` the area
  a call copied earlier is still among the areas when it reaches
  `more_counters`, and the counters agree with them, so that step is `Find`
  (`CountersFind`), and `counters` before it `Sample`; `not_mapped` is `Miss`;
  steps of the copy are `Write`, the last one `Deliver`, one that fails `Fail`;
  `write_areas` is `Change`, `resident` is `Page`, and every other step changes
  nothing in it. That the copy writes what was taken down, in order, is part of
  `CallInv`. `AnswerIsASnapshot` says in addition which moment it is: that at
  which the call got the lock.
- `CipherProofs`: `DeviceInv` is `TypeInv`, `Held`, `StreamInv` and `WholeInv`.
  `TypeInv` adds to the types that numbers grow along the list, and that a call
  keeps within its quota. `Held` counts: the open readers at or before a bucket
  and the writers at it are at most `refcount`, until somebody closes or
  `kmalloc` fails; so a bucket with one reference that a reader passes has no
  other descriptor at it (`BucketsStayWhileInUse`). `StreamInv` says where bytes
  stand: those of one writer grow along the list, no writer is behind what it
  wrote, what a reader has not come to is later than what it got, freed buckets
  are empty, stored bytes are of the present epoch. `BytesInOrder` and
  `ResetLeavesNothing` follow, through every close and failure.
  `StreamIsWhole`, which says the same of one writer as `ImplementsStream`
  does and more simply, adds `WholeInv`: as long as one writer writes, nothing is
  closed and nothing fails (`Alone`), every byte stored is still in a bucket
  (`Complete`), the byte numbered n met the character of the key at n - 1
  (`Sound`), a reader has had exactly the bytes behind its position
  (`NothingMissed`, `Settled`, `Exact`), and key offsets are the numbers of bytes
  written or read, modulo the length of the key (`KeysInStep`). No relation
  between that length and `BUCKET_SIZE` is needed: to free a bucket that was
  filled leads to the use after free at 270, which ends the behaviour, so a
  reader always begins at the first byte, for which `keyfirst = 0` is right.
  `DeviceIsStream` is the refinement of `ByteStream`, for any readers, writers,
  closes, failures and resets. It needs one invariant more, `OneStream`: no
  number is known under two writers, in a bucket or with a reader, and none
  beyond `serial`. A write numbers its bytes from `serial` on, which nobody knew
  (`KnownStored`), a read only repeats what a bucket has (`KnownHanded`), and
  everything else forgets. `CopyFromUser` is then `Store`, `CopyToUser` is `Hand`
  (`ReadsHand`, with `Exact` for the whole stream), the failing steps are `Lose`,
  and passing and adding buckets, opening and `CIPHER_IOCQREM` do not show.
  `QremIsExact` is about devices with one writer (`OneWriter`), with any readers,
  closes, failures and resets; of two writers one may fill a bucket that readers
  have passed, and bytes behind a reader are counted for nobody. `QremInv` says
  that the writer's bucket is the last (`WriterAtEnd`), that a reader has read
  what is behind it (`BehindIsRead`), and that what `CIPHER_IOCQREM` saw without
  the mutex is still its position when it has the mutex, or a reset has taken it
  back (`Asking`). Then the unread bytes are the rest of the list, and
  `SumIsCount` shows that the sum of its lengths is their number.

Only model-checked is liveness (`NoticesAreSent`, `CommandIsAnswered`,
`EverythingIsSent`, `SentLineIsRun`, `EveryClientEnds`, `EveryCallReturns`),
which needs fairness and `ENABLED`, beyond the prover; and `Deciphered`, whose
proof would have to follow the key offset of every bucket through closes.

## Not modelled

- Set-up: argument parsing, sockets, `listen`, registration of the module with
  the kernel and its removal, which no open file survives.
- Failures of `fork`, `malloc` and `pthread_create`, after which the programs
  exit or go on without the client.
- The layout of messages and listings, and script lines longer than the
  tester's 4095 characters, which `fgets` cuts.
- Reuse of a descriptor's number by another thread of the tester.
- `test.c`, which writes and reads one string, and the generated `cipher.mod.c`.

Definitions marked external in the map: `close_socket`, what a client does to
its end of a connection, and of the kernel the areas of a map, `find_vma`'s
notion of covering, and the `mmap` calls.

## Plan

Done: the map with its listings, the queue, the agents, the line reader, the
tester, the system call and the device; every safety and action property of the
passing runs but `Deciphered` is a theorem, and so is each of the five
refinements. What is left is that proof, what is outside the prover's reach
(liveness), and what is outside the programs' own logic (`Not modelled`).
