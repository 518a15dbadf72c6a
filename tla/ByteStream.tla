----------------------------- MODULE ByteStream -----------------------------
(***************************************************************************)
(* What the cipher device promises those who use it: one stream of bytes,  *)
(* numbered from 1, which every reader reads on its own.  It knows of no   *)
(* buckets, references, offsets or keys.                                   *)
(*                                                                         *)
(* As long as nothing was lost and one file writes, a reader reads the     *)
(* stream from its first byte on and gets every byte deciphered.  After a  *)
(* loss, or with more writers, bytes may be missing or garbled; but what a *)
(* reader has got stays as it is, every byte was stored since the last     *)
(* reset, two readers never differ in who wrote a byte, and the bytes of   *)
(* one writer come in the order of the stream.                             *)
(***************************************************************************)
EXTENDS Integers, Sequences

CONSTANTS Readers, Writers

VARIABLES
  written,   \* the length of the stream since the last reset
  resets,
  authors,   \* who has written to it and is open
  lost,      \* whether a close or a failure may have lost something since
  got        \* what each reader was handed: [n, by, epoch, right]

Init ==
  /\ written = 0 /\ resets = 0
  /\ authors = {} /\ lost = FALSE
  /\ got = [r \in Readers |-> <<>>]

Store(w) ==
  /\ written' > written
  /\ authors' = authors \cup {w}
  /\ UNCHANGED <<resets, lost, got>>

Whole == ~lost /\ \A v, w \in authors : v = w

(* The sequence t is s and at least one byte more.                         *)
Continues(s, t) ==
  /\ Len(t) > Len(s)
  /\ \A i \in DOMAIN s : t[i] = s[i]

Stored(bytes) ==
  \A i \in DOMAIN bytes : bytes[i].n \in 1 .. written /\ bytes[i].epoch = resets

OfOneStream(bytes) ==
  \A q \in Readers : \A i \in DOMAIN bytes, j \in DOMAIN got[q] :
    bytes[i].n = got[q][j].n => bytes[i].by = got[q][j].by

Rising(bytes) ==
  \A i, j \in DOMAIN bytes :
    i < j /\ bytes[i].by = bytes[j].by => bytes[i].n < bytes[j].n

FromTheFirst(bytes) ==
  \A i \in DOMAIN bytes : bytes[i].n = i /\ bytes[i].right

Hand(r) ==
  /\ Continues(got[r], got'[r])
  /\ Stored(got'[r]) /\ OfOneStream(got'[r]) /\ Rising(got'[r])
  /\ Whole => FromTheFirst(got'[r])
  /\ got' = [got EXCEPT ![r] = got'[r]]
  /\ UNCHANGED <<written, resets, authors, lost>>

Lose ==
  /\ lost' = TRUE
  /\ UNCHANGED <<written, resets, authors, got>>

(* A reader takes with it what it has read, a writer its name.             *)
Close(c) ==
  /\ lost' = TRUE
  /\ authors' = authors \ {c}
  /\ got' = [r \in Readers |-> IF r = c THEN <<>> ELSE got[r]]
  /\ UNCHANGED <<written, resets>>

Reset ==
  /\ written' = 0 /\ resets' = resets + 1
  /\ authors' = {} /\ lost' = FALSE
  /\ got' = [r \in Readers |-> <<>>]

Next ==
  \/ \E w \in Writers : Store(w)
  \/ \E r \in Readers : Hand(r)
  \/ Lose
  \/ \E c \in Readers \cup Writers : Close(c)
  \/ Reset

Spec == Init /\ [][Next]_<<written, resets, authors, lost, got>>

=============================================================================
