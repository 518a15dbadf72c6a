------------------------------ MODULE CipherDev ------------------------------
(***************************************************************************)
(* One minor device of the cipher driver: its list of buckets with their   *)
(* reference counts, the contexts of the open files, and open, release,    *)
(* read, write and ioctl.  A call holds dev->mut to its end; the turns of  *)
(* its loop are steps of their own, and CIPHER_IOCQREM, which looks at its *)
(* context before it takes dev->mut, may have its first half in between.   *)
(*                                                                         *)
(* A bucket is known by the order of its allocation, so a pointer to a     *)
(* freed one is never mistaken for another.  Where the code would follow   *)
(* such a pointer, or divide by zero, the behaviour is undefined: "fault"  *)
(* says which, and the model stops there.                                  *)
(***************************************************************************)
EXTENDS Integers, Sequences, FiniteSets, FiniteSetsExt

CONSTANTS
  Readers, Writers,   \* the open files, by the mode they open with
  Nobody,
  BUCKET_SIZE, MAX_WRITE_LEN,
  DEFAULTCIPHER,      \* a key is a sequence of characters
  Keys,               \* what CIPHER_IOCSKEY may be given
  Counts,             \* the lengths asked of read and write
  Closers,            \* the contexts that are closed, and may open again
  Askers,             \* the readers that use CIPHER_IOCQREM
  Failures,           \* what of copy_to_user, copy_from_user, kmalloc may fail
  MaxBuckets,         \* bound: buckets allocated in all
  MaxResets           \* bound

ASSUME CipherAssumption ==
  /\ Readers \cap Writers = {} /\ IsFiniteSet(Readers \cup Writers)
  /\ Nobody \notin Readers \cup Writers
  /\ BUCKET_SIZE \in Nat \ {0}
  /\ MAX_WRITE_LEN \in Nat
  /\ Keys \cup {DEFAULTCIPHER} \subseteq Seq(STRING)
  /\ Counts \subseteq Nat \ {0}
  /\ Closers \subseteq Readers \cup Writers
  /\ Askers \subseteq Readers
  /\ Failures \subseteq {"copy_to_user", "copy_from_user", "kmalloc"}
  /\ MaxBuckets \in Nat /\ MaxResets \in Nat

Contexts == Readers \cup Writers
Buckets == 1 .. MaxBuckets
NULL == 0
NoCall == [by |-> Nobody, left |-> 0]
NotAsking == [bucket |-> NULL, off |-> -1]

VARIABLES
  buckets,       \* the device's list, head first
  refcount, buffer,
  allocated,     \* how many buckets kmalloc has returned
  keylast, cipher,
  contexes,      \* the open contexts
  next, off, keyoff, totalwritten,  \* the fields of a context
  call,          \* the read or write that holds dev->mut, and its count
  qrem,          \* what a CIPHER_IOCQREM without dev->mut yet saw
  fault,
  (* history                                                               *)
  resets,        \* how often the device was reset
  serial,        \* bytes stored since
  got,           \* what turns of read put into each reader's memory since
                 \* its open or the last reset, if a later turn failed too
  mishaps,       \* what happened since the last reset that may lose data
  resumed        \* the contexts that were open when the device was reset

device == <<buckets, refcount, buffer, allocated, keylast, cipher>>
position == <<next, off, keyoff, totalwritten>>
history == <<serial, resets, got, mishaps, resumed>>
vars == <<device, contexes, position, call, qrem, fault, history>>

Lesser(a, b) == IF a <= b THEN a ELSE b

Listed == {buckets[i] : i \in DOMAIN buckets}
Dangling(b) == b # NULL /\ b \notin Listed
Stored == UNION {{buffer[b][i] : i \in DOMAIN buffer[b]} : b \in Listed}

Place(b) == CHOOSE i \in DOMAIN buckets : buckets[i] = b

(* list.next of a bucket, NULL when that is the head of the list.          *)
After(b) == IF Place(b) = Len(buckets) THEN NULL ELSE buckets[Place(b) + 1]

(* The list with only these of its buckets, in the order it has them.      *)
Sublists(kept) ==
  {s \in [1 .. Cardinality(kept) -> kept] :
     /\ kept = {s[i] : i \in DOMAIN s}
     /\ \A i, j \in DOMAIN s : i < j => Place(s[i]) < Place(s[j])}

(* list_del and kfree of a set of buckets.                                 *)
Free(gone) ==
  /\ buckets' \in Sublists(Listed \ gone)
  /\ buffer' = [b \in Buckets |-> IF b \in gone THEN <<>> ELSE buffer[b]]

(* The key is cycled, so only an offset's remainder matters.               *)
KeyAt(offset) == cipher[(offset % Len(cipher)) + 1]
(* Mutant: cipher_xor_buffer gets the offset by value.                     *)
KeyAfterByValue(offset, n) == offset

KeyAfter(offset, n) ==
  IF cipher = <<>> THEN offset ELSE (offset + n) % Len(cipher)

(* Mutant: a reader starts with the key offset of the writers.             *)
KeyOfTheTail == keylast

(* Nothing but 0 is ever assigned to keyfirst.                             *)
keyfirst == 0

Init ==
  /\ buckets = <<>>
  /\ refcount = [b \in Buckets |-> 0]
  /\ buffer = [b \in Buckets |-> <<>>]
  /\ allocated = 0
  /\ keylast = 0
  /\ cipher = DEFAULTCIPHER
  /\ contexes = {}
  /\ next = [c \in Contexts |-> NULL]
  /\ off = [c \in Contexts |-> 0]
  /\ keyoff = [c \in Contexts |-> 0]
  /\ totalwritten = [c \in Contexts |-> 0]
  /\ call = NoCall
  /\ qrem = [r \in Readers |-> NotAsking]
  /\ fault = "none"
  /\ resets = 0 /\ serial = 0
  /\ got = [r \in Readers |-> <<>>]
  /\ mishaps = {}
  /\ resumed = {}

Quiet == fault = "none" /\ call = NoCall

(* A file is used by one thread at a time.                                 *)
Ready(c) == c \in contexes /\ (c \in Readers => qrem[c] = NotAsking)

-----------------------------------------------------------------------------
(* open and release                                                        *)

OpenAt(c, bucket, offset, keyoffset) ==
  /\ next' = [next EXCEPT ![c] = bucket]
  /\ off' = [off EXCEPT ![c] = offset]
  /\ keyoff' = [keyoff EXCEPT ![c] = keyoffset]

Open(c) ==
  /\ Quiet
  /\ c \notin contexes
  /\ contexes' = contexes \cup {c}
  /\ refcount' = [b \in Buckets |->
                    IF b \in Listed THEN refcount[b] + 1 ELSE refcount[b]]
  /\ \/ /\ buckets = <<>>
        /\ OpenAt(c, NULL, 0, 0)
     \/ /\ buckets # <<>> /\ c \in Readers
        /\ OpenAt(c, Head(buckets), 0, keyfirst)
     \/ /\ buckets # <<>> /\ c \in Writers
        /\ LET last == buckets[Len(buckets)]
           IN OpenAt(c, last, Len(buffer[last]), keylast)
  /\ UNCHANGED <<buckets, buffer, allocated, keylast, cipher, totalwritten,
                 call, qrem, fault, history>>

(* Every bucket loses a reference, those this context has gone past and    *)
(* given one up for already included.                                      *)
Release(c) ==
  /\ c \in Closers
  /\ Quiet
  /\ Ready(c)
  /\ contexes' = contexes \ {c}
  /\ refcount' = [b \in Buckets |->
                    IF b \in Listed /\ refcount[b] > 0
                    THEN refcount[b] - 1 ELSE refcount[b]]
  /\ Free({b \in Listed : refcount[b] = 1})
  /\ OpenAt(c, NULL, 0, 0)
  /\ totalwritten' = [totalwritten EXCEPT ![c] = 0]
  /\ got' = [r \in Readers |-> IF r = c THEN <<>> ELSE got[r]]
  /\ mishaps' = mishaps \cup
       {IF c \in Readers THEN "reader closed" ELSE "writer closed"}
  /\ resumed' = resumed \ {c}
  /\ UNCHANGED <<allocated, keylast, cipher, call, qrem, fault, serial,
                 resets>>

(* Mutant: count -= to_copy is missing.                                    *)
CopiedUncounted(n) == UNCHANGED call

(* count -= to_copy, at the end of a turn of either loop.                  *)
Copied(n) == call' = [call EXCEPT !.left = @ - n]

-----------------------------------------------------------------------------
(* read                                                                    *)

BeginRead(r, n) ==
  /\ Quiet
  /\ Ready(r)
  /\ call' = [by |-> r, left |-> n]
  /\ UNCHANGED <<device, contexes, position, qrem, fault, history>>

Reading(r) ==
  /\ fault = "none"
  /\ call.by = r
  /\ call.left > 0
  /\ next[r] \in Listed

Available(r) == Len(buffer[next[r]]) - off[r]

(* A bucket read to its end is passed, and freed by the last to pass it;   *)
(* the code then looks for the next bucket in the one it has freed, unless *)
(* the list has become empty.                                              *)
PassBucket(r) ==
  /\ Reading(r)
  /\ Available(r) <= 0
  /\ LET b    == next[r]
         free == refcount[b] = 1
     IN /\ refcount' = [refcount EXCEPT ![b] = @ - 1]
        /\ Free(IF free THEN {b} ELSE {})
        /\ next' = [next EXCEPT ![r] = IF free THEN NULL ELSE After(b)]
        /\ fault' = IF free /\ buckets' # <<>>
                    THEN "use after free" ELSE "none"
  /\ off' = [off EXCEPT ![r] = 0]
  /\ UNCHANGED <<allocated, keylast, cipher, contexes, keyoff, totalwritten,
                 call, qrem, history>>

(* A byte comes out right if it meets the key character it went in with.   *)
Decrypted(byte, offset) ==
  [n |-> byte.n, epoch |-> byte.epoch, by |-> byte.by,
   right |-> byte.key = KeyAt(offset)]

CopyToUser(r) ==
  /\ Reading(r)
  /\ Available(r) > 0
  /\ cipher # <<>>
  /\ LET to_copy == Lesser(Available(r), call.left)
     IN /\ got' = [got EXCEPT ![r] = @ \o
             [i \in 1 .. to_copy |->
                Decrypted(buffer[next[r]][off[r] + i], keyoff[r] + i - 1)]]
        /\ keyoff' = [keyoff EXCEPT ![r] = KeyAfter(@, to_copy)]
        /\ off' = [off EXCEPT ![r] = @ + to_copy]
        /\ Copied(to_copy)
  /\ UNCHANGED <<device, contexes, next, totalwritten, qrem, fault,
                 serial, resets, mishaps, resumed>>

(* copy_to_user fails after the key offset has moved: EFAULT.  What the    *)
(* turns before it copied stays with the reader, and its offset past it,   *)
(* though nobody says how much it was; of this turn nothing counts.        *)
CopyToUserFails(r) ==
  /\ "copy_to_user" \in Failures
  /\ Reading(r)
  /\ Available(r) > 0
  /\ cipher # <<>>
  /\ keyoff' = [keyoff EXCEPT ![r] =
                  KeyAfter(@, Lesser(Available(r), call.left))]
  /\ call' = NoCall
  /\ mishaps' = mishaps \cup {"read failed"}
  /\ UNCHANGED <<device, contexes, next, off, totalwritten, qrem, fault,
                 serial, resets, got, resumed>>

EndRead(r) ==
  /\ fault = "none"
  /\ call.by = r
  /\ call.left = 0 \/ next[r] = NULL
  /\ call' = NoCall
  /\ UNCHANGED <<device, contexes, position, qrem, fault, history>>

-----------------------------------------------------------------------------
(* write                                                                   *)

(* What a writer may still write, and the answer of its CIPHER_IOCQREM.    *)
Quota(w) == MAX_WRITE_LEN - totalwritten[w]

(* Mutant: the count is not cut to what is left of the quota.              *)
ClippedNot(w, n) == n

Clipped(w, n) == Lesser(n, Quota(w))

(* A writer that has used its quota up gets 0 and nothing changes.         *)
BeginWrite(w, n) ==
  /\ Quiet
  /\ Ready(w)
  /\ Quota(w) > 0
  /\ (MaxBuckets - allocated) * BUCKET_SIZE >= n   \* bound
  /\ call' = [by |-> w, left |-> Clipped(w, n)]
  /\ UNCHANGED <<device, contexes, position, qrem, fault, history>>

Writing(w) ==
  /\ fault = "none"
  /\ call.by = w
  /\ call.left > 0
  /\ ~Dangling(next[w])

NeedsBucket(w) == next[w] # NULL => Len(buffer[next[w]]) >= BUCKET_SIZE

(* The references after the writer leaves a full bucket behind.            *)
LeaveBucket(w) ==
  [b \in Buckets |-> IF b = next[w] THEN refcount[b] - 1 ELSE refcount[b]]

(* Mutant: the readers are not counted.                                    *)
WriterOfNew == 1

(* A reference for the writer and for every open reader.                   *)
HoldersOfNew == 1 + Cardinality(contexes \cap Readers)

(* Mutant: list_add for list_add_tail.                                     *)
ListWithAtHead(b) == <<b>> \o buckets

ListWith(b) == Append(buckets, b)

AddBucket(w) ==
  /\ Writing(w)
  /\ NeedsBucket(w)
  /\ LET new == allocated + 1
     IN /\ new \in Buckets
        /\ allocated' = new
        /\ refcount' = [LeaveBucket(w) EXCEPT ![new] = HoldersOfNew]
        /\ buckets' = ListWith(new)
        /\ next' = [next EXCEPT ![w] = new]
  /\ off' = [off EXCEPT ![w] = 0]
  /\ UNCHANGED <<buffer, keylast, cipher, contexes, keyoff, totalwritten,
                 call, qrem, fault, history>>

(* kmalloc fails after the reference has been given up: ENOMEM.  Bound: at *)
(* most once between two resets.                                           *)
AddBucketFails(w) ==
  /\ "kmalloc" \in Failures
  /\ Writing(w)
  /\ NeedsBucket(w)
  /\ "no memory" \notin mishaps
  /\ refcount' = LeaveBucket(w)
  /\ call' = NoCall
  /\ mishaps' = mishaps \cup {"no memory"}
  /\ UNCHANGED <<buckets, buffer, allocated, keylast, cipher, contexes,
                 position, qrem, fault, serial, resets, got, resumed>>

CopyFromUser(w) ==
  /\ Writing(w)
  /\ ~NeedsBucket(w)
  /\ cipher # <<>>
  /\ LET b       == next[w]
         to_copy == Lesser(BUCKET_SIZE - Len(buffer[b]), call.left)
     IN /\ buffer' = [buffer EXCEPT ![b] = @ \o
             [i \in 1 .. to_copy |->
                [n |-> serial + i, epoch |-> resets, by |-> w,
                 key |-> KeyAt(keyoff[w] + i - 1)]]]
        /\ keyoff' = [keyoff EXCEPT ![w] = KeyAfter(@, to_copy)]
        /\ keylast' = keyoff'[w]
        /\ totalwritten' = [totalwritten EXCEPT ![w] = @ + to_copy]
        /\ Copied(to_copy)
        /\ serial' = serial + to_copy
  /\ UNCHANGED <<buckets, refcount, allocated, cipher, contexes, next, off,
                 qrem, fault, resets, got, mishaps, resumed>>

(* copy_from_user fails: EFAULT, what earlier turns stored stays.          *)
CopyFromUserFails(w) ==
  /\ "copy_from_user" \in Failures
  /\ Writing(w)
  /\ ~NeedsBucket(w)
  /\ call' = NoCall
  /\ UNCHANGED <<device, contexes, position, qrem, fault, history>>

EndWrite(w) ==
  /\ fault = "none"
  /\ call.by = w
  /\ call.left = 0
  /\ call' = NoCall
  /\ UNCHANGED <<device, contexes, position, qrem, fault, history>>

-----------------------------------------------------------------------------
(* ioctl                                                                   *)

(* Mutant: cipher_free_buckets is not called.                              *)
FreeNoBuckets == UNCHANGED <<buckets, buffer, refcount>>

FreeBuckets == Free(Listed) /\ refcount' = [b \in Buckets |-> 0]

(* cipher_free_buckets, and every open context back to the beginning; the  *)
(* fields of a closed one are what Release left.                           *)
ResetTo(c, key) ==
  /\ resets < MaxResets   \* bound
  /\ Quiet
  /\ Ready(c)
  /\ FreeBuckets
  /\ keylast' = 0
  /\ cipher' = key
  /\ next' = [k \in Contexts |-> NULL]
  /\ off' = [k \in Contexts |-> 0]
  /\ keyoff' = [k \in Contexts |-> 0]
  /\ totalwritten' = [k \in Contexts |-> 0]
  /\ resets' = resets + 1
  /\ serial' = 0
  /\ got' = [r \in Readers |-> <<>>]
  /\ mishaps' = {}
  /\ resumed' = contexes
  /\ UNCHANGED <<allocated, contexes, call, qrem, fault>>

Clear(c) == ResetTo(c, DEFAULTCIPHER)

SetKey(c) == \E key \in Keys : ResetTo(c, key)

(* The reader's position, read before dev->mut is taken.                   *)
BeginQrem(r) ==
  /\ r \in Askers
  /\ fault = "none"
  /\ Ready(r)
  /\ call.by # r
  /\ qrem' = [qrem EXCEPT ![r] = [bucket |-> next[r], off |-> off[r]]]
  /\ UNCHANGED <<device, contexes, position, call, fault, history>>

(* Mutant: the offset in the first bucket is left out.                     *)
RemainingFromStart(b, offset) ==
  IF b = NULL THEN 0
  ELSE Len(buffer[b]) +
       MapThenSumSet(LAMBDA i : Len(buffer[buckets[i]]),
                     Place(b) + 1 .. Len(buckets))

(* The bytes from a position to the end of the list.                       *)
Remaining(b, offset) ==
  IF b = NULL THEN 0
  ELSE Len(buffer[b]) - Lesser(offset, Len(buffer[b])) +
       MapThenSumSet(LAMBDA i : Len(buffer[buckets[i]]),
                     Place(b) + 1 .. Len(buckets))

AnswerQrem(r) ==
  /\ Quiet
  /\ qrem[r] # NotAsking
  /\ ~Dangling(qrem[r].bucket)
  /\ qrem' = [qrem EXCEPT ![r] = NotAsking]
  /\ UNCHANGED <<device, contexes, position, call, fault, history>>

-----------------------------------------------------------------------------
(* Undefined behaviour                                                     *)

Fault(kind) ==
  /\ fault' = kind
  /\ UNCHANGED <<device, contexes, position, call, qrem, history>>

(* A read or write whose context points at a freed bucket.                 *)
TouchFreed ==
  /\ fault = "none"
  /\ call.left > 0
  /\ Dangling(next[call.by])
  /\ Fault("use after free")

(* The same for CIPHER_IOCQREM and what it saw before it had dev->mut.     *)
CountFreed(r) ==
  /\ Quiet
  /\ qrem[r] # NotAsking
  /\ Dangling(qrem[r].bucket)
  /\ Fault("use after free")

(* The remainder by the length of an empty key.                            *)
DivideByZero(c) ==
  /\ cipher = <<>>
  /\ \/ c \in Readers /\ Reading(c) /\ Available(c) > 0
     \/ c \in Writers /\ Writing(c) /\ ~NeedsBucket(c)
  /\ Fault("divide by zero")

-----------------------------------------------------------------------------
ReadStep(r) ==
  PassBucket(r) \/ CopyToUser(r) \/ CopyToUserFails(r) \/ EndRead(r)

WriteStep(w) ==
  \/ AddBucket(w) \/ AddBucketFails(w)
  \/ CopyFromUser(w) \/ CopyFromUserFails(w) \/ EndWrite(w)

(* The turns of the call that holds dev->mut.                              *)
CallStep ==
  \/ \E r \in Readers : ReadStep(r)
  \/ \E w \in Writers : WriteStep(w)
  \/ TouchFreed
  \/ \E c \in Contexts : DivideByZero(c)

Next ==
  \/ CallStep
  \/ \E r \in Readers, n \in Counts : BeginRead(r, n)
  \/ \E w \in Writers, n \in Counts : BeginWrite(w, n)
  \/ \E r \in Readers : BeginQrem(r) \/ AnswerQrem(r) \/ CountFreed(r)
  \/ \E c \in Contexts : Open(c) \/ Release(c) \/ Clear(c) \/ SetKey(c)

Spec == Init /\ [][Next]_vars

(* A thread inside a call runs on.                                         *)
FairSpec == Spec /\ WF_vars(CallStep)

-----------------------------------------------------------------------------
TypeOK ==
  /\ buckets \in Seq(Buckets)
  /\ refcount \in [Buckets -> Int]
  /\ \A b \in Buckets : Len(buffer[b]) <= BUCKET_SIZE
  /\ allocated \in 0 .. MaxBuckets
  /\ keylast \in Nat
  /\ contexes \in SUBSET Contexts
  /\ next \in [Contexts -> Buckets \cup {NULL}]
  /\ off \in [Contexts -> 0 .. BUCKET_SIZE]
  /\ keyoff \in [Contexts -> Nat]
  /\ totalwritten \in [Contexts -> 0 .. MAX_WRITE_LEN]
  /\ call \in [by : Contexts \cup {Nobody}, left : Nat]
  /\ fault \in {"none", "use after free", "divide by zero"}
  /\ serial \in Nat /\ resets \in 0 .. MaxResets

(* The reference counts keep a bucket in memory for every context that is  *)
(* at it, as long as nobody closes a file and kmalloc does not fail.       *)
HeldUntilSomeoneCloses ==
  mishaps \subseteq {"read failed"} =>
    \A c \in contexes : ~Dangling(next[c])

(* While one writer writes and stays, and no read fails, every byte that   *)
(* a reader gets is decrypted with the character of the key it was         *)
(* encrypted with: in each piece into which reads, writes and buckets cut  *)
(* the stream, under the key of the last reset, and also for a reader that *)
(* comes back when the list begins with a later bucket.  keyfirst = 0 is   *)
(* right there only if the length of the key divides that of a bucket.     *)
Deciphered ==
  /\ mishaps \subseteq {"reader closed"}
  /\ Cardinality({w \in Writers : totalwritten[w] > 0}) <= 1
  /\ cipher # <<>> /\ BUCKET_SIZE % Len(cipher) = 0
  => \A r \in Readers : \A i \in DOMAIN got[r] : got[r][i].right

(* Whatever the writers, closes and failures, no reader gets two bytes of  *)
(* one writer in another order than they were written, or one twice.       *)
InOrder ==
  \A r \in Readers : \A i, j \in DOMAIN got[r] :
    i < j /\ got[r][i].by = got[r][j].by => got[r][i].n < got[r][j].n

HaveWritten == {w \in Writers : totalwritten[w] > 0}

(* The device is one stream that its readers read: the buckets, references *)
(* and offsets by which it is kept do not show.                            *)
Stream == INSTANCE ByteStream WITH
  written <- serial,
  authors <- HaveWritten,
  lost    <- mishaps # {}

(* Whatever the calls, closes and failures, a read only adds to what its   *)
(* reader has, and adds bytes that were stored since the last reset and    *)
(* that every reader knows by the same writer; with one writer and nothing *)
(* lost it adds the next bytes of the stream, deciphered.  No write, open  *)
(* or failure changes what a reader has read.                              *)
ImplementsStream == Stream!Spec

(* No reader gets a byte that was written before the last reset.           *)
NothingOutlivesReset ==
  \A r \in Readers : \A i \in DOMAIN got[r] : got[r][i].epoch = resets

Unread(r) == {byte \in Stored : \A i \in DOMAIN got[r] : got[r][i].n # byte.n}

(* With one writer CIPHER_IOCQREM tells a reader that is not at the end of *)
(* the list how many bytes of the device it has not read, although it      *)
(* looked at its position without dev->mut and the writer may have been at *)
(* work since.                                                             *)
QremCountsUnread ==
  [][\A r \in Readers :
       qrem[r] # NotAsking /\ qrem'[r] = NotAsking /\ next[r] # NULL =>
         Remaining(qrem[r].bucket, qrem[r].off) = Cardinality(Unread(r))]_vars

(* A read or write that has dev->mut comes to its end and gives it back.   *)
EveryCallReturns == (call # NoCall) ~> (call = NoCall \/ fault # "none")

(* What the documents say and the code does not do.                        *)

(* A reader that has passed a bucket finds the next in the list.           *)
NoUseAfterFree == fault # "use after free"

(* After a reset the readers "resume from an empty buffer": a read that    *)
(* returns less than was asked leaves nothing unread.                      *)
ReadersResume ==
  [][\A r \in resumed \cap Readers :
       EndRead(r) /\ call.left > 0 => Unread(r) = {}]_vars

=============================================================================
