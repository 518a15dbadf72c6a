---------------------------- MODULE CipherProofs ----------------------------
(***************************************************************************)
(* Theorems about CipherDev, for any number of readers, writers, buckets   *)
(* and resets, any bucket size and any keys.                               *)
(***************************************************************************)
EXTENDS CipherDev, SequenceTheorems, FiniteSetTheorems, WellFoundedInduction, TLAPS

-----------------------------------------------------------------------------
(* Types and the list.                                                     *)

Byte == [n : Nat, epoch : Nat, by : Writers, key : STRING]
ReadByte == [n : Nat, epoch : Nat, by : Writers, right : BOOLEAN]

DataType ==
  /\ buffer \in [Buckets -> Seq(Byte)]
  /\ cipher \in Seq(STRING)
  /\ got \in [Readers -> Seq(ReadByte)]

(* A bucket's number grows along the list, and none is used twice.         *)
Ordered ==
  /\ \A i, j \in DOMAIN buckets : i < j => buckets[i] < buckets[j]
  /\ \A i \in DOMAIN buckets : buckets[i] <= allocated
  /\ \A c \in Contexts : next[c] <= allocated

(* A call is made by an open context and within its quota.                 *)
Caller ==
  /\ call.by # Nobody => call.by \in contexes
  /\ call.by \in Writers => call.left <= Quota(call.by)

TypeInv == TypeOK /\ DataType /\ Ordered /\ Caller

LEMMA Sizes ==
  /\ BUCKET_SIZE \in Nat \ {0} /\ MAX_WRITE_LEN \in Nat
  /\ MaxBuckets \in Nat /\ MaxResets \in Nat
  /\ Buckets = 1 .. MaxBuckets /\ NULL = 0
  /\ Nobody \notin Contexts /\ Readers \cap Writers = {}
  /\ Readers \subseteq Contexts /\ Writers \subseteq Contexts
  /\ Counts \subseteq Nat
  BY CipherAssumption DEF Buckets, NULL, Contexts

LEMMA PlaceFacts ==
  ASSUME buckets \in Seq(Buckets), NEW b \in Listed
  PROVE  Place(b) \in DOMAIN buckets /\ buckets[Place(b)] = b
  BY DEF Listed, Place

(* What comes after a bucket is the next greater number in the list.       *)
LEMMA AfterFacts ==
  ASSUME buckets \in Seq(Buckets), Ordered, NEW b \in Listed
  PROVE  /\ After(b) \in Listed \cup {NULL}
         /\ After(b) # NULL => After(b) > b
         /\ \A x \in Listed : x > b => After(b) # NULL /\ After(b) <= x
<1>1. /\ Place(b) \in 1 .. Len(buckets) /\ buckets[Place(b)] = b
      /\ Len(buckets) \in Nat
      /\ \A i \in 1 .. Len(buckets) : buckets[i] \in Buckets
  BY PlaceFacts, LenProperties, ElementOfSeq
<1>2. Buckets \subseteq Nat \ {0} /\ NULL = 0
  BY Sizes
<1>1a. \A i, j \in 1 .. Len(buckets) : i < j => buckets[i] < buckets[j]
  BY LenProperties DEF Ordered
<1>1b. \A i \in 1 .. Len(buckets) : buckets[i] \in Nat /\ buckets[i] # NULL
  BY <1>1, <1>2
<1>3. ASSUME NEW x \in Listed, x > b
      PROVE  After(b) # NULL /\ After(b) <= x
  <2>1. PICK i \in 1 .. Len(buckets) : buckets[i] = x
    BY <1>1 DEF Listed
  <2>2. Place(b) < i
    <3>1. ~(i < Place(b)) /\ i # Place(b)
      BY <1>1, <1>3, <1>1a, <1>1b, <2>1
    <3> QED
      BY <1>1, <3>1
  <2>3. Place(b) + 1 \in 1 .. Len(buckets) /\ Place(b) # Len(buckets)
    BY <1>1, <2>2
  <2>4. Place(b) + 1 = i \/ Place(b) + 1 < i
    BY <1>1, <2>2
  <2>5. buckets[Place(b) + 1] <= x /\ buckets[Place(b) + 1] # NULL
    <3>1. CASE Place(b) + 1 = i
      BY <1>1b, <2>1, <3>1
    <3>2. CASE Place(b) + 1 < i
      BY <1>1a, <1>1b, <2>1, <2>3, <3>2
    <3> QED
      BY <2>4, <3>1, <3>2
  <2> QED
    BY <2>3, <2>5 DEF After
<1>4. After(b) \in Listed \cup {NULL} /\ (After(b) # NULL => After(b) > b)
  BY <1>1, <1>2 DEF After, Ordered, Listed
<1> QED
  BY <1>3, <1>4

LEMMA FreeFacts ==
  ASSUME buckets \in Seq(Buckets), DataType, Ordered, NEW gone \in SUBSET Listed, Free(gone)
  PROVE  /\ buckets' \in Seq(Buckets)
         /\ Listed' = Listed \ gone
         /\ \A i, j \in DOMAIN buckets' : i < j => buckets'[i] < buckets'[j]
         /\ \A i \in DOMAIN buckets' : buckets'[i] <= allocated
         /\ buffer' \in [Buckets -> Seq(Byte)]
         /\ \A b \in Buckets : buffer'[b] = IF b \in gone THEN <<>> ELSE buffer[b]
<1> DEFINE kept == Listed \ gone
<1>1. Listed \subseteq Buckets /\ \A i \in DOMAIN buckets : buckets[i] \in Buckets
  BY ElementOfSeq, LenProperties DEF Listed
<1>2. IsFiniteSet(kept) /\ Cardinality(kept) \in Nat
  <2>1. IsFiniteSet(Buckets)
    BY FS_Interval, Sizes
  <2> QED
    BY <1>1, <2>1, FS_Subset, FS_CardinalityType
<1>3. /\ buckets' \in [1 .. Cardinality(kept) -> kept]
      /\ kept = {buckets'[i] : i \in DOMAIN buckets'}
      /\ \A i, j \in DOMAIN buckets' : i < j => Place(buckets'[i]) < Place(buckets'[j])
  BY DEF Free, Sublists
<1> HIDE DEF kept
<1>4. buckets' \in Seq(Buckets)
  <2>1. buckets' \in [1 .. Cardinality(kept) -> Buckets]
    BY <1>1, <1>3 DEF kept
  <2> QED
    BY <1>2, <2>1, IsASeq
<1>5. \A i \in DOMAIN buckets' : buckets'[i] \in Listed
  BY <1>3 DEF kept
<1>6. \A i, j \in DOMAIN buckets' : i < j => buckets'[i] < buckets'[j]
  BY <1>3, <1>5, PlaceFacts DEF Ordered
<1>7. \A i \in DOMAIN buckets' : buckets'[i] <= allocated
  BY <1>5, PlaceFacts DEF Ordered
<1>8. Listed' = Listed \ gone
  BY <1>3 DEF Listed, kept
<1>9. buffer' = [b \in Buckets |-> IF b \in gone THEN <<>> ELSE buffer[b]]
  BY DEF Free
<1>10. buffer' \in [Buckets -> Seq(Byte)]
  BY <1>9, EmptySeq DEF DataType
<1> QED
  BY <1>4, <1>6, <1>7, <1>8, <1>9, <1>10

-----------------------------------------------------------------------------
(* A step is one of these: most leave the device and the positions alone,  *)
(* and the read of a reader that has bytes to come and somewhere to look.  *)
Begun ==
  \/ call' = NoCall
  \/ \E r \in Readers, n \in Counts : Ready(r) /\ call' = [by |-> r, left |-> n]
  \/ \E w \in Writers, n \in Counts :
       Ready(w) /\ Quota(w) > 0 /\ call' = [by |-> w, left |-> Clipped(w, n)]

Elsewhere ==
  /\ UNCHANGED <<device, contexes, position, history>>
  /\ Begun \/ UNCHANGED call
  /\ \A r \in Readers : call.by = r /\ call.left > 0 /\ next[r] # NULL => UNCHANGED call
  /\ fault' \in {fault, "use after free", "divide by zero"}

LEMMA Cases ==
  [Next]_vars =>
    \/ Elsewhere
    \/ \E c \in Contexts :
         Open(c) \/ Release(c) \/ \E key \in Keys \cup {DEFAULTCIPHER} : ResetTo(c, key)
    \/ \E r \in Readers : PassBucket(r) \/ CopyToUser(r) \/ CopyToUserFails(r)
    \/ \E w \in Writers : AddBucket(w) \/ AddBucketFails(w) \/ CopyFromUser(w)
<1> SUFFICES ASSUME [Next]_vars
             PROVE  \/ Elsewhere
                    \/ \E c \in Contexts :
                         Open(c) \/ Release(c) \/ \E key \in Keys \cup {DEFAULTCIPHER} : ResetTo(c, key)
                    \/ \E r \in Readers : PassBucket(r) \/ CopyToUser(r) \/ CopyToUserFails(r)
                    \/ \E w \in Writers : AddBucket(w) \/ AddBucketFails(w) \/ CopyFromUser(w)
  OBVIOUS
<1>1. CASE UNCHANGED vars
  BY <1>1 DEF vars, Elsewhere
<1>2. CASE TouchFreed \/ \E c \in Contexts : DivideByZero(c)
  BY <1>2 DEF TouchFreed, DivideByZero, Fault, Elsewhere
<1>3. CASE \E r \in Readers : BeginQrem(r) \/ AnswerQrem(r) \/ CountFreed(r)
  BY <1>3 DEF BeginQrem, AnswerQrem, CountFreed, Fault, Elsewhere
<1>a. NoCall.by \notin Readers /\ \A w \in Writers : w \notin Readers
  BY Sizes DEF NoCall
<1>4. ASSUME NEW r \in Readers, EndRead(r) PROVE Elsewhere
  <2>1. ~(call.left > 0 /\ next[r] # NULL)
    BY <1>4 DEF EndRead
  <2>2. call.by = r /\ Begun /\ UNCHANGED <<device, contexes, position, history, fault>>
    BY <1>4 DEF EndRead, Begun
  <2> QED
    BY <2>1, <2>2 DEF Elsewhere
<1>8. ASSUME NEW w \in Writers, EndWrite(w) \/ CopyFromUserFails(w) PROVE Elsewhere
  <2>1. call.by = w /\ Begun /\ UNCHANGED <<device, contexes, position, history, fault>>
    BY <1>8 DEF EndWrite, CopyFromUserFails, Writing, Begun
  <2> QED
    BY <1>a, <2>1 DEF Elsewhere
<1>5. CASE \E r \in Readers, n \in Counts : BeginRead(r, n)
  BY <1>5, <1>a DEF BeginRead, Quiet, Begun, Elsewhere
<1>6. CASE \E w \in Writers, n \in Counts : BeginWrite(w, n)
  BY <1>6, <1>a DEF BeginWrite, Quiet, Begun, Elsewhere
<1>7. CASE \E c \in Contexts : Clear(c) \/ SetKey(c)
  BY <1>7 DEF Clear, SetKey
<1> QED
  BY <1>1, <1>2, <1>3, <1>4, <1>5, <1>6, <1>7, <1>8 DEF Next, CallStep, ReadStep, WriteStep
(* The parts of the data an action works on and what they have.        *)
LEMMA BufferFacts ==
  ASSUME TypeInv, NEW b \in Buckets
  PROVE  buffer[b] \in Seq(Byte) /\ Len(buffer[b]) \in 0 .. BUCKET_SIZE
<1>1. buffer[b] \in Seq(Byte)
  BY DEF TypeInv, DataType
<1>2. Len(buffer[b]) <= BUCKET_SIZE
  BY DEF TypeInv, TypeOK
<1>3. Len(buffer[b]) \in Nat
  BY <1>1, LenProperties
<1> QED
  BY <1>1, <1>2, <1>3, Sizes

(* What TypeOK says of the numbers.                                        *)
LEMMA NumberFacts ==
  ASSUME TypeInv
  PROVE  /\ serial \in Nat /\ resets \in Nat /\ allocated \in Nat /\ keylast \in Nat
         /\ \A c \in Contexts : /\ keyoff[c] \in Nat
                              /\ off[c] \in Nat /\ off[c] <= BUCKET_SIZE
                              /\ totalwritten[c] \in Nat /\ totalwritten[c] <= MAX_WRITE_LEN
<1>1. TypeOK
  BY DEF TypeInv
<1>2. /\ serial \in Nat /\ resets \in 0 .. MaxResets /\ allocated \in 0 .. MaxBuckets
      /\ keylast \in Nat
  BY <1>1 DEF TypeOK
<1>3. \A c \in Contexts : /\ keyoff[c] \in Nat /\ off[c] \in 0 .. BUCKET_SIZE
                         /\ totalwritten[c] \in 0 .. MAX_WRITE_LEN
  BY <1>1 DEF TypeOK
<1> QED
  BY <1>2, <1>3, Sizes

LEMMA ListedFacts ==
  ASSUME TypeInv
  PROVE  /\ Len(buckets) \in Nat /\ DOMAIN buckets = 1 .. Len(buckets)
         /\ Listed \subseteq Buckets /\ NULL \notin Listed
         /\ \A i \in DOMAIN buckets : buckets[i] \in Listed
         /\ \A b \in Listed : b <= allocated
         /\ buckets # <<>> => Head(buckets) \in Listed /\ buckets[Len(buckets)] \in Listed
<1>1. buckets \in Seq(Buckets)
  BY DEF TypeInv, TypeOK
<1>2. Len(buckets) \in Nat /\ DOMAIN buckets = 1 .. Len(buckets)
  BY <1>1, LenProperties
<1>3. \A i \in DOMAIN buckets : buckets[i] \in Listed /\ buckets[i] \in Buckets
  BY <1>1, <1>2, ElementOfSeq DEF Listed
<1>4. Listed \subseteq Buckets /\ NULL \notin Listed /\ \A b \in Listed : b <= allocated
  BY <1>3, Sizes DEF Listed, TypeInv, Ordered
<1>5. ASSUME buckets # <<>>
      PROVE  Head(buckets) \in Listed /\ buckets[Len(buckets)] \in Listed
  <2>1. 1 \in DOMAIN buckets /\ Len(buckets) \in DOMAIN buckets /\ Head(buckets) = buckets[1]
    BY <1>1, <1>2, <1>5, EmptySeq, HeadTailProperties
  <2> QED
    BY <1>3, <2>1
<1> QED
  BY <1>2, <1>3, <1>4, <1>5

LEMMA CallFacts ==
  ASSUME TypeInv
  PROVE  call.left \in Nat /\ call = [by |-> call.by, left |-> call.left]
  BY DEF TypeInv, TypeOK

(* copy_to_user: some bytes that follow the reader's position.             *)
HandsOut(r, m, new) ==
  /\ next[r] \in Listed /\ call.by = r /\ r \in contexes
  /\ fault = "none" /\ cipher # <<>>
  /\ m > 0 /\ m <= call.left /\ off[r] + m <= Len(buffer[next[r]])
  /\ Len(new) = m
  /\ \A i \in 1 .. m : new[i].right = (buffer[next[r]][off[r] + i].key
                                       = KeyAt(keyoff[r] + i - 1))
  /\ \A i \in 1 .. m : /\ off[r] + i \in DOMAIN buffer[next[r]]
                       /\ new[i].n = buffer[next[r]][off[r] + i].n
                       /\ new[i].epoch = buffer[next[r]][off[r] + i].epoch
                       /\ new[i].by = buffer[next[r]][off[r] + i].by
  /\ got' = [got EXCEPT ![r] = @ \o new]
  /\ off' = [off EXCEPT ![r] = @ + m]
  /\ keyoff' = [keyoff EXCEPT ![r] = KeyAfter(@, m)]
  /\ call' = [by |-> r, left |-> call.left - m]
  /\ UNCHANGED <<device, contexes, next, totalwritten, qrem, fault,
                 serial, resets, mishaps, resumed>>

LEMMA CopyToFacts ==
  ASSUME TypeInv, NEW r \in Readers, CopyToUser(r)
  PROVE  \E m \in Nat, new \in Seq(ReadByte) : HandsOut(r, m, new)
<1> DEFINE b == next[r]
           m == Lesser(Available(r), call.left)
           new == [i \in 1 .. m |-> Decrypted(buffer[b][off[r] + i], keyoff[r] + i - 1)]
<1>1. /\ b \in Listed /\ b \in Buckets /\ call.by = r /\ r \in contexes
      /\ fault = "none" /\ cipher # <<>> /\ call.left > 0
  BY ListedFacts, Sizes DEF CopyToUser, Reading, TypeInv, Caller, Contexts
<1>2. Len(buffer[b]) \in Nat /\ buffer[b] \in Seq(Byte) /\ off[r] \in Nat /\ call.left \in Nat
  BY <1>1, BufferFacts, CallFacts, NumberFacts, Sizes
<1>3. Available(r) \in Nat \ {0} /\ Available(r) = Len(buffer[b]) - off[r]
  BY <1>2 DEF CopyToUser, Available
<1>4. m \in Nat /\ m > 0 /\ m <= call.left /\ off[r] + m <= Len(buffer[b])
  BY <1>1, <1>2, <1>3 DEF Lesser
<1> HIDE DEF m
<1>5. \A i \in 1 .. m : off[r] + i \in DOMAIN buffer[b] /\ buffer[b][off[r] + i] \in Byte
  <2>1. \A i \in 1 .. m : off[r] + i \in 1 .. Len(buffer[b])
    BY <1>2, <1>4
  <2> QED
    BY <1>2, <2>1, LenProperties, ElementOfSeq
<1>6. /\ new \in [1 .. m -> ReadByte]
      /\ \A i \in 1 .. m : /\ new[i].n = buffer[b][off[r] + i].n
                           /\ new[i].epoch = buffer[b][off[r] + i].epoch
                           /\ new[i].by = buffer[b][off[r] + i].by
                           /\ new[i].right = (buffer[b][off[r] + i].key
                                              = KeyAt(keyoff[r] + i - 1))
  BY <1>5 DEF Decrypted, ReadByte, Byte
<1>7. new \in Seq(ReadByte) /\ Len(new) = m
  BY <1>4, <1>6, IsASeq, LenProperties
<1>8. /\ got' = [got EXCEPT ![r] = @ \o new]
      /\ off' = [off EXCEPT ![r] = @ + m]
      /\ keyoff' = [keyoff EXCEPT ![r] = KeyAfter(@, m)]
      /\ call' = [call EXCEPT !.left = @ - m]
      /\ UNCHANGED <<device, contexes, next, totalwritten, qrem, fault,
                     serial, resets, mishaps, resumed>>
  BY DEF CopyToUser, Copied, m
<1>9. call' = [by |-> r, left |-> call.left - m]
  BY <1>1, <1>8, CallFacts
<1> HIDE DEF new
<1> QED
  BY <1>1, <1>4, <1>5, <1>6, <1>7, <1>8, <1>9 DEF HandsOut

(* copy_from_user: some bytes, numbered on, after those the bucket has.    *)
Stores(w, m, new) ==
  /\ next[w] \in Listed /\ call.by = w /\ w \in contexes
  /\ fault = "none" /\ cipher # <<>>
  /\ m > 0 /\ m <= call.left /\ Len(buffer[next[w]]) + m <= BUCKET_SIZE
  /\ Len(new) = m
  /\ \A i \in 1 .. m : new[i].key = KeyAt(keyoff[w] + i - 1)
  /\ \A i \in 1 .. m : new[i].n = serial + i /\ new[i].epoch = resets /\ new[i].by = w
  /\ buffer' = [buffer EXCEPT ![next[w]] = @ \o new]
  /\ keyoff' = [keyoff EXCEPT ![w] = KeyAfter(@, m)]
  /\ keylast' = keyoff'[w]
  /\ totalwritten' = [totalwritten EXCEPT ![w] = @ + m]
  /\ call' = [by |-> w, left |-> call.left - m]
  /\ serial' = serial + m
  /\ UNCHANGED <<buckets, refcount, allocated, cipher, contexes, next, off,
                 qrem, fault, resets, got, mishaps, resumed>>

LEMMA CopyFromFacts ==
  ASSUME TypeInv, NEW w \in Writers, CopyFromUser(w)
  PROVE  \E m \in Nat, new \in Seq(Byte) : Stores(w, m, new)
<1> DEFINE b == next[w]
           m == Lesser(BUCKET_SIZE - Len(buffer[b]), call.left)
           new == [i \in 1 .. m |-> [n |-> serial + i, epoch |-> resets, by |-> w,
                                     key |-> KeyAt(keyoff[w] + i - 1)]]
<1>1. /\ b \in Listed /\ b \in Buckets /\ call.by = w /\ w \in contexes
      /\ fault = "none" /\ cipher # <<>> /\ call.left > 0
      /\ ~(Len(buffer[b]) >= BUCKET_SIZE)
  BY ListedFacts, Sizes
     DEF CopyFromUser, Writing, NeedsBucket, Dangling, TypeInv, Caller, Contexts
<1>2. Len(buffer[b]) \in 0 .. BUCKET_SIZE /\ buffer[b] \in Seq(Byte) /\ call.left \in Nat
  BY <1>1, BufferFacts, CallFacts
<1>3. m \in Nat /\ m > 0 /\ m <= call.left /\ Len(buffer[b]) + m <= BUCKET_SIZE
  BY <1>1, <1>2, Sizes DEF Lesser
<1> HIDE DEF m
<1>4. \A i \in 1 .. m : KeyAt(keyoff[w] + i - 1) \in STRING
  <2> TAKE i \in 1 .. m
  <2>1. cipher \in Seq(STRING) /\ cipher # <<>> /\ Len(cipher) \in Nat \ {0}
    BY LenProperties, EmptySeq DEF CopyFromUser, TypeInv, DataType
  <2>2. keyoff[w] + i - 1 \in Nat
    BY NumberFacts, Sizes
  <2>3. ((keyoff[w] + i - 1) % Len(cipher)) + 1 \in 1 .. Len(cipher)
    BY <2>1, <2>2
  <2> QED
    BY <2>1, <2>3, ElementOfSeq DEF KeyAt
<1>5. serial \in Nat /\ resets \in Nat
  BY NumberFacts
<1>6. /\ new \in [1 .. m -> Byte]
      /\ \A i \in 1 .. m : new[i].n = serial + i /\ new[i].epoch = resets /\ new[i].by = w
      /\ \A i \in 1 .. m : new[i].key = KeyAt(keyoff[w] + i - 1)
  BY <1>4, <1>5 DEF Byte
<1>7. new \in Seq(Byte) /\ Len(new) = m
  BY <1>3, <1>6, IsASeq, LenProperties
<1>8. /\ buffer' = [buffer EXCEPT ![b] = @ \o new]
      /\ keyoff' = [keyoff EXCEPT ![w] = KeyAfter(@, m)]
      /\ keylast' = keyoff'[w]
      /\ totalwritten' = [totalwritten EXCEPT ![w] = @ + m]
      /\ call' = [call EXCEPT !.left = @ - m]
      /\ serial' = serial + m
      /\ UNCHANGED <<buckets, refcount, allocated, cipher, contexes, next, off,
                     qrem, fault, resets, got, mishaps, resumed>>
  BY DEF CopyFromUser, Copied, m
<1>9. call' = [by |-> w, left |-> call.left - m]
  BY <1>1, <1>8, CallFacts
<1> HIDE DEF new
<1> QED
  BY <1>1, <1>3, <1>6, <1>7, <1>8, <1>9 DEF Stores
-----------------------------------------------------------------------------
(* The types are kept.                                                     *)
LEMMA NextFacts ==
  ASSUME TypeInv
  PROVE  /\ next \in [Contexts -> Buckets \cup {NULL}]
         /\ \A c \in Contexts : next[c] \in Nat /\ next[c] <= allocated
<1>1. next \in [Contexts -> Buckets \cup {NULL}]
  BY DEF TypeInv, TypeOK
<1>2. \A c \in Contexts : next[c] <= allocated
  BY DEF TypeInv, Ordered
<1> QED
  BY <1>1, <1>2, Sizes

LEMMA CallerStep == TypeInv /\ [Next]_vars => Caller'
<1> SUFFICES ASSUME TypeInv, [Next]_vars PROVE Caller'
  OBVIOUS
<1> USE DEF Caller, Quota, device, position
<1>1. CASE Elsewhere
  <2>0. UNCHANGED <<contexes, totalwritten>>
    BY <1>1 DEF Elsewhere
  <2>1. CASE UNCHANGED call
    BY <2>0, <2>1 DEF TypeInv
  <2>2. CASE call' = NoCall
    BY <2>2, Sizes DEF NoCall, Contexts
  <2>3. ASSUME NEW r \in Readers, Ready(r), call'.by = r PROVE Caller'
    BY <2>0, <2>3, Sizes DEF Ready
  <2>4. ASSUME NEW w \in Writers, NEW n \in Counts, Ready(w), Quota(w) > 0,
               call' = [by |-> w, left |-> Clipped(w, n)]
        PROVE Caller'
    <3>1. Clipped(w, n) <= Quota(w) /\ Quota(w)' = Quota(w)
      <4>1. n \in Nat /\ Quota(w) \in Int
        BY NumberFacts, Sizes
      <4> QED
        BY <2>0, <4>1 DEF Clipped, Lesser
    <3> QED
      BY <2>0, <2>4, <3>1 DEF Ready
  <2> QED
    <3> HIDE DEF Caller, Quota
    <3>1. Begun \/ UNCHANGED call
      BY <1>1 DEF Elsewhere
    <3> QED
      BY <2>1, <2>2, <2>3, <2>4, <3>1 DEF Begun
<1>2. ASSUME NEW c \in Contexts, Open(c) PROVE Caller'
  BY <1>2, Sizes DEF Open, OpenAt, Quiet, TypeInv, history
<1>3. ASSUME NEW c \in Contexts, Release(c) PROVE Caller'
  <2>1. call.by = Nobody /\ UNCHANGED call
    BY <1>3 DEF Release, Quiet, NoCall
  <2> QED
    BY <2>1, Sizes DEF Contexts
<1>4. ASSUME NEW c \in Contexts, NEW key \in Keys \cup {DEFAULTCIPHER}, ResetTo(c, key) PROVE Caller'
  <2>1. call.by = Nobody /\ UNCHANGED call
    BY <1>4 DEF ResetTo, Quiet, NoCall
  <2> QED
    BY <2>1, Sizes DEF Contexts
<1>5. ASSUME NEW r \in Readers, PassBucket(r) PROVE Caller'
  BY <1>5, Sizes DEF PassBucket, Reading, TypeInv, history
<1>6. ASSUME NEW r \in Readers, CopyToUser(r) PROVE Caller'
  <2>1. call'.by = r /\ r \in contexes /\ UNCHANGED contexes
    BY <1>6, CopyToFacts DEF HandsOut
  <2> QED
    BY <2>1, Sizes
<1>7. ASSUME NEW r \in Readers, CopyToUserFails(r) PROVE Caller'
  BY <1>7, Sizes DEF CopyToUserFails, Reading, NoCall, history
<1>8. ASSUME NEW w \in Writers, AddBucket(w) PROVE Caller'
  BY <1>8, Sizes DEF AddBucket, ListWith, Writing, TypeInv, history
<1>9. ASSUME NEW w \in Writers, AddBucketFails(w) PROVE Caller'
  BY <1>9, Sizes DEF AddBucketFails, LeaveBucket, Writing, NoCall, history
<1>10. ASSUME NEW w \in Writers, CopyFromUser(w) PROVE Caller'
  <2>1. PICK m \in Nat : /\ call.by = w /\ w \in contexes
                         /\ totalwritten' = [totalwritten EXCEPT ![w] = @ + m]
                         /\ call' = [by |-> w, left |-> call.left - m]
                         /\ UNCHANGED contexes
    BY <1>10, CopyFromFacts DEF Stores
  <2>2. call.left <= MAX_WRITE_LEN - totalwritten[w] /\ call.left \in Nat
    BY <2>1, CallFacts DEF TypeInv
  <2>3. totalwritten'[w] = totalwritten[w] + m /\ totalwritten[w] \in Nat
    BY <2>1, Sizes, NumberFacts DEF TypeInv, TypeOK
  <2> QED
    BY <2>1, <2>2, <2>3, Sizes
<1> QED
  BY <1>1, <1>2, <1>3, <1>4, <1>5, <1>6, <1>7, <1>8, <1>9, <1>10, Cases

LEMMA OrderedStep == TypeInv /\ [Next]_vars => Ordered'
<1> SUFFICES ASSUME TypeInv, [Next]_vars PROVE Ordered'
  OBVIOUS
<1> USE DEF Ordered, device, position
<1>1. CASE Elsewhere
  BY <1>1 DEF Elsewhere, TypeInv
<1>2. ASSUME NEW c \in Contexts, Open(c) PROVE Ordered'
  <2>1. UNCHANGED <<buckets, allocated>> /\ \E b \in Listed \cup {NULL} : next' = [next EXCEPT ![c] = b]
    BY <1>2, ListedFacts DEF Open, OpenAt
  <2>2. \A k \in Contexts : next'[k] <= allocated'
    BY <2>1, ListedFacts, NextFacts, NumberFacts, Sizes
  <2> QED
    BY <2>1, <2>2 DEF TypeInv
<1>3. ASSUME NEW c \in Contexts, Release(c) PROVE Ordered'
  <2>1. Free({b \in Listed : refcount[b] = 1}) /\ UNCHANGED allocated
        /\ next' = [next EXCEPT ![c] = NULL]
    BY <1>3 DEF Release, OpenAt
  <2>2. /\ \A i, j \in DOMAIN buckets' : i < j => buckets'[i] < buckets'[j]
        /\ \A i \in DOMAIN buckets' : buckets'[i] <= allocated
    BY <2>1, FreeFacts DEF TypeInv, TypeOK
  <2> QED
    BY <2>1, <2>2, NextFacts, NumberFacts, Sizes
<1>4. ASSUME NEW c \in Contexts, NEW key \in Keys \cup {DEFAULTCIPHER}, ResetTo(c, key) PROVE Ordered'
  <2>1. Free(Listed) /\ UNCHANGED allocated /\ next' = [k \in Contexts |-> NULL]
    BY <1>4 DEF ResetTo, FreeBuckets
  <2>2. /\ \A i, j \in DOMAIN buckets' : i < j => buckets'[i] < buckets'[j]
        /\ \A i \in DOMAIN buckets' : buckets'[i] <= allocated
    BY <2>1, FreeFacts DEF TypeInv, TypeOK
  <2> QED
    BY <2>1, <2>2, NumberFacts, Sizes
<1>5. ASSUME NEW r \in Readers, PassBucket(r) PROVE Ordered'
  <2>1. PICK gone \in SUBSET Listed : Free(gone)
    BY <1>5 DEF PassBucket, Reading
  <2>2. /\ \A i, j \in DOMAIN buckets' : i < j => buckets'[i] < buckets'[j]
        /\ \A i \in DOMAIN buckets' : buckets'[i] <= allocated
    BY <2>1, FreeFacts DEF TypeInv, TypeOK
  <2>3. next[r] \in Listed /\ UNCHANGED allocated
        /\ \E b \in {NULL, After(next[r])} : next' = [next EXCEPT ![r] = b]
    BY <1>5 DEF PassBucket, Reading
  <2>4. After(next[r]) \in Listed \cup {NULL}
    BY <2>3, AfterFacts DEF TypeInv, TypeOK
  <2> QED
    BY <2>2, <2>3, <2>4, ListedFacts, NextFacts, NumberFacts, Sizes
<1>6. ASSUME NEW r \in Readers, CopyToUser(r) PROVE Ordered'
  BY <1>6, Sizes DEF CopyToUser, Reading, Copied, TypeInv, history
<1>7. ASSUME NEW r \in Readers, CopyToUserFails(r) PROVE Ordered'
  BY <1>7, Sizes DEF CopyToUserFails, Reading, TypeInv, history
<1>8. ASSUME NEW w \in Writers, AddBucket(w) PROVE Ordered'
  <2>1. /\ buckets' = Append(buckets, allocated + 1) /\ allocated' = allocated + 1
        /\ next' = [next EXCEPT ![w] = allocated + 1] /\ allocated + 1 \in Buckets
    BY <1>8 DEF AddBucket, ListWith
  <2>2. /\ DOMAIN buckets' = 1 .. Len(buckets) + 1
        /\ \A i \in 1 .. Len(buckets) : buckets'[i] = buckets[i]
        /\ buckets'[Len(buckets) + 1] = allocated + 1
    <3>1. buckets \in Seq(Buckets)
      BY DEF TypeInv, TypeOK
    <3> QED
      BY <2>1, <3>1, AppendProperties, LenProperties
  <2>3. /\ \A i, j \in 1 .. Len(buckets) : i < j => buckets[i] < buckets[j]
        /\ \A i \in 1 .. Len(buckets) : buckets[i] \in Nat /\ buckets[i] <= allocated
    BY ListedFacts, Sizes DEF TypeInv
  <2>4. \A i, j \in DOMAIN buckets' : i < j => buckets'[i] < buckets'[j]
    <3>1. PICK len, last : len = Len(buckets) /\ last = allocated
      OBVIOUS
    <3>2. /\ len \in Nat /\ last \in Nat /\ DOMAIN buckets' = 1 .. len + 1
          /\ \A i \in 1 .. len : buckets'[i] \in Nat /\ buckets'[i] <= last
          /\ buckets'[len + 1] = last + 1
          /\ \A i, j \in 1 .. len : i < j => buckets'[i] < buckets'[j]
      BY <2>2, <2>3, <3>1, ListedFacts, NumberFacts
    <3>3. \A i \in 1 .. len + 1 : i \in 1 .. len \/ i = len + 1
      BY <3>2
    <3> QED
      BY ONLY <3>2, <3>3
  <2>5. \A i \in DOMAIN buckets' : buckets'[i] <= allocated'
    BY <2>1, <2>2, <2>3, ListedFacts, NumberFacts
  <2>6. \A c \in Contexts : next'[c] <= allocated'
    BY <2>1, NextFacts, NumberFacts, Sizes
  <2> QED
    BY <2>4, <2>5, <2>6
<1>9. ASSUME NEW w \in Writers, AddBucketFails(w) PROVE Ordered'
  BY <1>9, Sizes DEF AddBucketFails, LeaveBucket, Writing, TypeInv, history
<1>10. ASSUME NEW w \in Writers, CopyFromUser(w) PROVE Ordered'
  BY <1>10, Sizes DEF CopyFromUser, Copied, Writing, TypeInv, history
<1> QED
  BY <1>1, <1>2, <1>3, <1>4, <1>5, <1>6, <1>7, <1>8, <1>9, <1>10, Cases
(* TypeOK in parts: the list, the sizes of its buckets, the rest.         *)
ListType ==
  /\ buckets \in Seq(Buckets)
  /\ refcount \in [Buckets -> Int]
  /\ allocated \in 0 .. MaxBuckets
  /\ next \in [Contexts -> Buckets \cup {NULL}]

BufferType == DataType /\ \A b \in Buckets : Len(buffer[b]) <= BUCKET_SIZE

NumberType ==
  /\ contexes \in SUBSET Contexts
  /\ keylast \in Nat
  /\ off \in [Contexts -> 0 .. BUCKET_SIZE]
  /\ keyoff \in [Contexts -> Nat]
  /\ totalwritten \in [Contexts -> 0 .. MAX_WRITE_LEN]
  /\ serial \in Nat /\ resets \in 0 .. MaxResets

CallType ==
  /\ call \in [by : Contexts \cup {Nobody}, left : Nat]
  /\ fault \in {"none", "use after free", "divide by zero"}

LEMMA TypeParts == TypeInv => ListType /\ BufferType /\ NumberType /\ CallType
  BY DEF TypeInv, TypeOK, ListType, BufferType, NumberType, CallType

LEMMA PartsType == ListType /\ BufferType /\ NumberType /\ CallType => TypeOK /\ DataType
  BY DEF TypeOK, ListType, BufferType, NumberType, CallType

LEMMA KeyAfterType ==
  ASSUME TypeInv, NEW n \in Nat, NEW m \in Nat PROVE KeyAfter(n, m) \in Nat
<1>1. Len(cipher) \in Nat /\ (cipher # <<>> => Len(cipher) # 0)
  BY LenProperties, EmptySeq DEF TypeInv, DataType
<1>2. CASE cipher = <<>>
  BY <1>2 DEF KeyAfter
<1>3. CASE cipher # <<>>
  <2>1. n + m \in Nat /\ Len(cipher) \in Nat /\ Len(cipher) > 0
    BY <1>1, <1>3
  <2>2. (n + m) % Len(cipher) \in Nat
    BY <2>1
  <2> QED
    BY <1>3, <2>2 DEF KeyAfter
<1> QED
  BY <1>2, <1>3

LEMMA OpenReaders ==
  ASSUME TypeInv
  PROVE  /\ IsFiniteSet(contexes)
         /\ IsFiniteSet(contexes \cap Readers)
         /\ Cardinality(contexes \cap Readers) \in Nat
<1>1. IsFiniteSet(Contexts) /\ contexes \subseteq Contexts
  BY CipherAssumption DEF Contexts, TypeInv, TypeOK
<1>2. IsFiniteSet(contexes) /\ IsFiniteSet(contexes \cap Readers)
  BY <1>1, FS_Subset
<1> QED
  BY <1>2, FS_CardinalityType

LEMMA ListTypeStep == TypeInv /\ [Next]_vars => ListType'
<1> SUFFICES ASSUME TypeInv, [Next]_vars PROVE ListType'
  OBVIOUS
<1> USE DEF ListType, device, position
<1>1. CASE Elsewhere
  BY <1>1, Sizes, TypeParts DEF Elsewhere, Begun, NoCall, device, position, history
<1>2. ASSUME NEW c \in Contexts, Open(c) PROVE ListType'
  <2>1. UNCHANGED <<buckets, allocated>> /\ \E b \in Listed \cup {NULL} : next' = [next EXCEPT ![c] = b]
    BY <1>2, ListedFacts DEF Open, OpenAt
  <2>2. next' \in [Contexts -> Buckets \cup {NULL}]
    BY <2>1, ListedFacts, TypeParts
  <2>3. refcount' \in [Buckets -> Int]
    BY <1>2, TypeParts DEF Open
  <2> QED
    BY <2>1, <2>2, <2>3, TypeParts
<1>3. ASSUME NEW c \in Contexts, Release(c) PROVE ListType'
  <2>1. Free({b \in Listed : refcount[b] = 1}) /\ UNCHANGED allocated
        /\ next' = [next EXCEPT ![c] = NULL]
    BY <1>3 DEF Release, OpenAt
  <2>2. buckets' \in Seq(Buckets)
    BY <2>1, FreeFacts DEF TypeInv, TypeOK
  <2>3. refcount' = [b \in Buckets |-> IF b \in Listed /\ refcount[b] > 0
                                       THEN refcount[b] - 1 ELSE refcount[b]]
    BY <1>3 DEF Release
  <2>4. refcount' \in [Buckets -> Int] /\ next' \in [Contexts -> Buckets \cup {NULL}]
    BY <2>1, <2>3, TypeParts
  <2> QED
    BY <2>1, <2>2, <2>4, TypeParts
<1>4. ASSUME NEW c \in Contexts, NEW key \in Keys \cup {DEFAULTCIPHER}, ResetTo(c, key) PROVE ListType'
  <2>1. Free(Listed) /\ UNCHANGED allocated /\ next' = [k \in Contexts |-> NULL]
        /\ refcount' = [b \in Buckets |-> 0]
    BY <1>4 DEF ResetTo, FreeBuckets
  <2>2. buckets' \in Seq(Buckets)
    BY <2>1, FreeFacts DEF TypeInv, TypeOK
  <2> QED
    BY <2>1, <2>2, TypeParts
<1>5. ASSUME NEW r \in Readers, PassBucket(r) PROVE ListType'
  <2>1. PICK gone \in SUBSET Listed : Free(gone)
    BY <1>5 DEF PassBucket, Reading
  <2>2. buckets' \in Seq(Buckets)
    BY <2>1, FreeFacts DEF TypeInv, TypeOK
  <2>3. /\ next[r] \in Listed /\ UNCHANGED allocated
        /\ refcount' = [refcount EXCEPT ![next[r]] = @ - 1]
        /\ \E b \in {NULL, After(next[r])} : next' = [next EXCEPT ![r] = b]
    BY <1>5 DEF PassBucket, Reading
  <2>4. After(next[r]) \in Buckets \cup {NULL}
    BY <2>3, AfterFacts, ListedFacts DEF TypeInv, TypeOK
  <2>5. next' \in [Contexts -> Buckets \cup {NULL}]
    BY <2>3, <2>4, TypeParts
  <2>6. refcount' \in [Buckets -> Int]
    BY <2>3, ListedFacts, TypeParts
  <2> QED
    BY <2>2, <2>3, <2>5, <2>6, TypeParts
<1>6. ASSUME NEW r \in Readers, CopyToUser(r) PROVE ListType'
  BY <1>6, Sizes, TypeParts DEF CopyToUser, Reading, Copied, history
<1>7. ASSUME NEW r \in Readers, CopyToUserFails(r) PROVE ListType'
  BY <1>7, Sizes, TypeParts DEF CopyToUserFails, Reading, history
<1>8. ASSUME NEW w \in Writers, AddBucket(w) PROVE ListType'
  <2>1. /\ buckets' = Append(buckets, allocated + 1) /\ allocated' = allocated + 1
        /\ next' = [next EXCEPT ![w] = allocated + 1] /\ allocated + 1 \in Buckets
        /\ refcount' = [LeaveBucket(w) EXCEPT ![allocated + 1] = HoldersOfNew]
    BY <1>8 DEF AddBucket, ListWith
  <2>2. buckets' \in Seq(Buckets)
    BY <2>1, TypeParts, AppendProperties
  <2>3. LeaveBucket(w) \in [Buckets -> Int]
    BY TypeParts DEF LeaveBucket
  <2>4. HoldersOfNew \in Int
    BY OpenReaders DEF HoldersOfNew
  <2>5. refcount' \in [Buckets -> Int]
    BY <2>1, <2>3, <2>4
  <2>6. next' \in [Contexts -> Buckets \cup {NULL}] /\ allocated' \in 0 .. MaxBuckets
    BY <2>1, Sizes, TypeParts
  <2> QED
    BY <2>2, <2>5, <2>6
<1>9. ASSUME NEW w \in Writers, AddBucketFails(w) PROVE ListType'
  <2>1. refcount' = LeaveBucket(w) /\ UNCHANGED <<buckets, allocated, next>>
    BY <1>9 DEF AddBucketFails
  <2>2. LeaveBucket(w) \in [Buckets -> Int]
    BY TypeParts DEF LeaveBucket
  <2> QED
    BY <2>1, <2>2, TypeParts
<1>10. ASSUME NEW w \in Writers, CopyFromUser(w) PROVE ListType'
  BY <1>10, Sizes, TypeParts DEF CopyFromUser, Copied, Writing, history
<1> QED
  BY <1>1, <1>2, <1>3, <1>4, <1>5, <1>6, <1>7, <1>8, <1>9, <1>10, Cases

LEMMA BufferTypeStep == TypeInv /\ [Next]_vars => BufferType'
<1> SUFFICES ASSUME TypeInv, [Next]_vars PROVE BufferType'
  OBVIOUS
<1> USE DEF BufferType, DataType, device, position
<1>1. CASE Elsewhere
  BY <1>1, Sizes, TypeParts DEF Elsewhere, Begun, NoCall, device, position, history
<1>2. ASSUME NEW c \in Contexts, Open(c) PROVE BufferType'
  BY <1>2, Sizes, TypeParts DEF Open, OpenAt, Quiet, history
<1>3. ASSUME NEW c \in Contexts, Release(c) PROVE BufferType'
  <2>1. Free({b \in Listed : refcount[b] = 1}) /\ UNCHANGED cipher
    BY <1>3 DEF Release
  <2>2. buffer' \in [Buckets -> Seq(Byte)] /\ \A b \in Buckets : buffer'[b] = buffer[b] \/ buffer'[b] = <<>>
    BY <2>1, FreeFacts DEF TypeInv, TypeOK
  <2>3. \A b \in Buckets : Len(buffer'[b]) <= BUCKET_SIZE
    BY <2>2, Sizes, TypeParts, EmptySeq
  <2>4. got' \in [Readers -> Seq(ReadByte)]
    BY <1>3, TypeParts, EmptySeq DEF Release
  <2> QED
    BY <2>1, <2>2, <2>3, <2>4, TypeParts
<1>4. ASSUME NEW c \in Contexts, NEW key \in Keys \cup {DEFAULTCIPHER}, ResetTo(c, key) PROVE BufferType'
  <2>1. Free(Listed) /\ cipher' = key
    BY <1>4 DEF ResetTo, FreeBuckets
  <2>2. buffer' \in [Buckets -> Seq(Byte)] /\ \A b \in Buckets : buffer'[b] = buffer[b] \/ buffer'[b] = <<>>
    BY <2>1, FreeFacts DEF TypeInv, TypeOK
  <2>3. \A b \in Buckets : Len(buffer'[b]) <= BUCKET_SIZE
    BY <2>2, Sizes, TypeParts, EmptySeq
  <2>4. got' \in [Readers -> Seq(ReadByte)]
    BY <1>4, EmptySeq DEF ResetTo
  <2> QED
    BY <2>1, <2>2, <2>3, <2>4, CipherAssumption
<1>5. ASSUME NEW r \in Readers, PassBucket(r) PROVE BufferType'
  <2>1. (\E gone \in SUBSET Listed : Free(gone)) /\ UNCHANGED <<cipher, got>>
    BY <1>5 DEF PassBucket, Reading, history
  <2>2. buffer' \in [Buckets -> Seq(Byte)] /\ \A b \in Buckets : buffer'[b] = buffer[b] \/ buffer'[b] = <<>>
    BY <2>1, FreeFacts DEF TypeInv, TypeOK
  <2>3. \A b \in Buckets : Len(buffer'[b]) <= BUCKET_SIZE
    BY <2>2, Sizes, TypeParts, EmptySeq
  <2> QED
    BY <2>1, <2>2, <2>3, TypeParts
<1>6. ASSUME NEW r \in Readers, CopyToUser(r) PROVE BufferType'
  <2>1. UNCHANGED <<buffer, cipher>> /\ \E new \in Seq(ReadByte) : got' = [got EXCEPT ![r] = @ \o new]
    <3>1. PICK m \in Nat, new \in Seq(ReadByte) : HandsOut(r, m, new)
      BY <1>6, CopyToFacts, Zenon
    <3>2. got' = [got EXCEPT ![r] = @ \o new] /\ UNCHANGED <<buffer, cipher>>
      BY <3>1, Zenon DEF HandsOut
    <3> QED
      BY <3>2, Zenon
  <2>2. got' \in [Readers -> Seq(ReadByte)]
    BY <2>1, TypeParts, ConcatProperties
  <2> QED
    BY <2>1, <2>2, TypeParts
<1>7. ASSUME NEW r \in Readers, CopyToUserFails(r) PROVE BufferType'
  BY <1>7, Sizes, TypeParts DEF CopyToUserFails, Reading, history
<1>8. ASSUME NEW w \in Writers, AddBucket(w) PROVE BufferType'
  BY <1>8, Sizes, TypeParts DEF AddBucket, ListWith, Writing, history
<1>9. ASSUME NEW w \in Writers, AddBucketFails(w) PROVE BufferType'
  BY <1>9, Sizes, TypeParts DEF AddBucketFails, LeaveBucket, Writing, history
<1>10. ASSUME NEW w \in Writers, CopyFromUser(w) PROVE BufferType'
  <2>1. PICK m \in Nat, new \in Seq(Byte) :
          /\ next[w] \in Buckets /\ Len(buffer[next[w]]) + m <= BUCKET_SIZE /\ Len(new) = m
          /\ buffer' = [buffer EXCEPT ![next[w]] = @ \o new]
          /\ UNCHANGED <<cipher, got>>
    BY <1>10, CopyFromFacts, ListedFacts DEF Stores
  <2>2. buffer[next[w]] \in Seq(Byte) /\ Len(buffer[next[w]]) \in Nat
    BY <2>1, BufferFacts, Sizes
  <2>3. buffer[next[w]] \o new \in Seq(Byte) /\ Len(buffer[next[w]] \o new) <= BUCKET_SIZE
    BY <2>1, <2>2, ConcatProperties
  <2> QED
    BY <2>1, <2>3, TypeParts
<1> QED
  BY <1>1, <1>2, <1>3, <1>4, <1>5, <1>6, <1>7, <1>8, <1>9, <1>10, Cases

LEMMA NumberTypeStep == TypeInv /\ [Next]_vars => NumberType'
<1> SUFFICES ASSUME TypeInv, [Next]_vars PROVE NumberType'
  OBVIOUS
<1> USE DEF NumberType, device, position
<1>1. CASE Elsewhere
  BY <1>1, Sizes, TypeParts DEF Elsewhere, Begun, NoCall, device, position, history
<1>2. ASSUME NEW c \in Contexts, Open(c) PROVE NumberType'
  <2>1. /\ contexes' = contexes \cup {c} /\ UNCHANGED <<keylast, totalwritten, serial, resets>>
        /\ \/ off' = [off EXCEPT ![c] = 0]
           \/ \E b \in Listed : off' = [off EXCEPT ![c] = Len(buffer[b])]
        /\ keyoff' = [keyoff EXCEPT ![c] = 0] \/ keyoff' = [keyoff EXCEPT ![c] = keylast]
    <3>1. CASE buckets = <<>>
      BY <1>2, <3>1 DEF Open, OpenAt, history
    <3>2. CASE buckets # <<>> /\ c \in Readers
      BY <1>2, <3>2, Sizes DEF Open, OpenAt, keyfirst, history
    <3>3. CASE buckets # <<>> /\ c \in Writers
      <4>1. /\ off' = [off EXCEPT ![c] = Len(buffer[buckets[Len(buckets)]])]
            /\ keyoff' = [keyoff EXCEPT ![c] = keylast]
            /\ contexes' = contexes \cup {c}
            /\ UNCHANGED <<keylast, totalwritten, serial, resets>>
        BY <1>2, <3>3, Sizes DEF Open, OpenAt, history
      <4> QED
        BY <3>3, <4>1, ListedFacts
    <3> QED
      BY <1>2, <3>1, <3>2, <3>3 DEF Open
  <2>2. 0 \in 0 .. BUCKET_SIZE /\ \A b \in Listed : Len(buffer[b]) \in 0 .. BUCKET_SIZE
    BY BufferFacts, ListedFacts, Sizes
  <2>3. off' \in [Contexts -> 0 .. BUCKET_SIZE]
    BY <2>1, <2>2, TypeParts
  <2>4. keyoff' \in [Contexts -> Nat]
    <3>1. keylast \in Nat /\ keyoff \in [Contexts -> Nat]
      BY TypeParts
    <3> QED
      BY <2>1, <3>1
  <2> QED
    BY <2>1, <2>3, <2>4, TypeParts
<1>3. ASSUME NEW c \in Contexts, Release(c) PROVE NumberType'
  <2>1. /\ contexes' = contexes \ {c} /\ UNCHANGED <<keylast, serial, resets>>
        /\ off' = [off EXCEPT ![c] = 0] /\ keyoff' = [keyoff EXCEPT ![c] = 0]
        /\ totalwritten' = [totalwritten EXCEPT ![c] = 0]
    BY <1>3 DEF Release, OpenAt
  <2> QED
    BY <2>1, Sizes, TypeParts
<1>4. ASSUME NEW c \in Contexts, NEW key \in Keys \cup {DEFAULTCIPHER}, ResetTo(c, key) PROVE NumberType'
  BY <1>4, Sizes, TypeParts DEF ResetTo, FreeBuckets, Quiet, history
<1>5. ASSUME NEW r \in Readers, PassBucket(r) PROVE NumberType'
  <2>1. /\ off' = [off EXCEPT ![r] = 0]
        /\ UNCHANGED <<contexes, keylast, keyoff, totalwritten, serial, resets>>
    BY <1>5 DEF PassBucket, history
  <2> QED
    BY <2>1, Sizes, TypeParts
<1>6. ASSUME NEW r \in Readers, CopyToUser(r) PROVE NumberType'
  <2>1. PICK m \in Nat : /\ next[r] \in Buckets /\ off[r] + m <= Len(buffer[next[r]])
                         /\ off' = [off EXCEPT ![r] = @ + m]
                         /\ keyoff' = [keyoff EXCEPT ![r] = KeyAfter(@, m)]
                         /\ UNCHANGED <<contexes, keylast, totalwritten, serial, resets>>
    BY <1>6, CopyToFacts, ListedFacts DEF device, HandsOut
  <2>2. off[r] + m \in 0 .. BUCKET_SIZE
    <3>1. PICK len, o : len = Len(buffer[next[r]]) /\ o = off[r]
      OBVIOUS
    <3>2. len \in 0 .. BUCKET_SIZE
      BY <2>1, <3>1, BufferFacts
    <3>3. o \in Nat /\ BUCKET_SIZE \in Nat /\ o + m <= len
      BY <2>1, <3>1, NumberFacts, Sizes
    <3> QED
      BY ONLY m \in Nat, <3>1, <3>2, <3>3
  <2>3. KeyAfter(keyoff[r], m) \in Nat
    BY NumberFacts, KeyAfterType, Sizes
  <2>4. off' \in [Contexts -> 0 .. BUCKET_SIZE] /\ keyoff' \in [Contexts -> Nat]
    BY <2>1, <2>2, <2>3, TypeParts
  <2> QED
    BY <2>1, <2>4, TypeParts
<1>7. ASSUME NEW r \in Readers, CopyToUserFails(r) PROVE NumberType'
  <2>1. /\ keyoff' = [keyoff EXCEPT ![r] = KeyAfter(@, Lesser(Available(r), call.left))]
        /\ UNCHANGED <<contexes, keylast, off, totalwritten, serial, resets>>
        /\ next[r] \in Buckets /\ Available(r) > 0
    BY <1>7, ListedFacts DEF CopyToUserFails, Reading
  <2>2. Lesser(Available(r), call.left) \in Nat
    <3>1. Len(buffer[next[r]]) \in 0 .. BUCKET_SIZE
      BY <2>1, BufferFacts
    <3>2. off[r] \in Nat /\ BUCKET_SIZE \in Nat /\ call.left \in Nat
      BY NumberFacts, CallFacts, Sizes
    <3>3. Available(r) \in Nat
      BY ONLY <2>1, <3>1, <3>2 DEF Available
    <3> QED
      BY <3>2, <3>3 DEF Lesser
  <2>3. KeyAfter(keyoff[r], Lesser(Available(r), call.left)) \in Nat
    BY <2>2, NumberFacts, KeyAfterType, Sizes
  <2> QED
    BY <2>1, <2>3, Sizes, TypeParts
<1>8. ASSUME NEW w \in Writers, AddBucket(w) PROVE NumberType'
  BY <1>8, Sizes, TypeParts DEF AddBucket, ListWith, Writing, history
<1>9. ASSUME NEW w \in Writers, AddBucketFails(w) PROVE NumberType'
  BY <1>9, Sizes, TypeParts DEF AddBucketFails, LeaveBucket, Writing, history
<1>10. ASSUME NEW w \in Writers, CopyFromUser(w) PROVE NumberType'
  <2>1. PICK m \in Nat : /\ call.by = w /\ m <= call.left
                         /\ keyoff' = [keyoff EXCEPT ![w] = KeyAfter(@, m)]
                         /\ keylast' = keyoff'[w]
                         /\ totalwritten' = [totalwritten EXCEPT ![w] = @ + m]
                         /\ serial' = serial + m
                         /\ UNCHANGED <<contexes, off, resets>>
    BY <1>10, CopyFromFacts DEF Stores
  <2>2. KeyAfter(keyoff[w], m) \in Nat
    BY NumberFacts, KeyAfterType, Sizes
  <2>3. keyoff' \in [Contexts -> Nat] /\ keylast' \in Nat
    BY <2>1, <2>2, Sizes, TypeParts
  <2>4. totalwritten[w] + m \in 0 .. MAX_WRITE_LEN
    <3>1. call.left <= Quota(w) /\ call.left \in Nat /\ totalwritten[w] \in Nat
      BY <2>1, CallFacts, NumberFacts, Sizes DEF TypeInv, Caller
    <3> QED
      BY <2>1, <3>1, Sizes DEF Quota
  <2>5. totalwritten' \in [Contexts -> 0 .. MAX_WRITE_LEN]
    BY <2>1, <2>4, TypeParts
  <2> QED
    BY <2>1, <2>3, <2>5, TypeParts
<1> QED
  BY <1>1, <1>2, <1>3, <1>4, <1>5, <1>6, <1>7, <1>8, <1>9, <1>10, Cases

LEMMA CallTypeStep == TypeInv /\ [Next]_vars => CallType'
<1> SUFFICES ASSUME TypeInv, [Next]_vars PROVE CallType'
  OBVIOUS
<1> USE DEF CallType, device, position
<1>1. CASE Elsewhere
  <2>1. fault' \in {"none", "use after free", "divide by zero"}
    BY <1>1, TypeParts DEF Elsewhere
  <2>2. ASSUME UNCHANGED call \/ call' = NoCall PROVE CallType'
    <3>1. NoCall \in [by : Contexts \cup {Nobody}, left : Nat]
      BY DEF NoCall
    <3>2. call' \in [by : Contexts \cup {Nobody}, left : Nat]
      BY <2>2, <3>1, TypeParts
    <3> QED
      BY <2>1, <3>2
  <2>3. ASSUME NEW r \in Readers, NEW n \in Counts, call' = [by |-> r, left |-> n] PROVE CallType'
    BY <2>1, <2>3, Sizes
  <2>4. ASSUME NEW w \in Writers, NEW n \in Counts, Quota(w) > 0,
               call' = [by |-> w, left |-> Clipped(w, n)]
        PROVE CallType'
    <3>1. Clipped(w, n) \in Nat
      <4>1. n \in Nat /\ Quota(w) \in Int
        BY NumberFacts, Sizes DEF Quota
      <4> QED
        BY <2>4, <4>1 DEF Clipped, Lesser
    <3> QED
      BY <2>1, <2>4, <3>1, Sizes
  <2> QED
    BY <1>1, <2>2, <2>3, <2>4 DEF Elsewhere, Begun
<1>2. ASSUME NEW c \in Contexts, Open(c) PROVE CallType'
  BY <1>2, Sizes, TypeParts DEF Open, OpenAt, Quiet, history
<1>3. ASSUME NEW c \in Contexts, Release(c) PROVE CallType'
  BY <1>3, Sizes, TypeParts DEF Release, OpenAt, Quiet, Ready, history
<1>4. ASSUME NEW c \in Contexts, NEW key \in Keys \cup {DEFAULTCIPHER}, ResetTo(c, key) PROVE CallType'
  BY <1>4, Sizes, TypeParts DEF ResetTo, FreeBuckets, Quiet, history
<1>5. ASSUME NEW r \in Readers, PassBucket(r) PROVE CallType'
  BY <1>5, Sizes, TypeParts DEF PassBucket, Reading, history
<1>6. ASSUME NEW r \in Readers, CopyToUser(r) PROVE CallType'
  <2>1. PICK m \in Nat : m <= call.left /\ call' = [by |-> r, left |-> call.left - m] /\ UNCHANGED fault
    BY <1>6, CopyToFacts DEF HandsOut
  <2>2. call.left - m \in Nat
    BY <2>1, CallFacts
  <2>3. call' \in [by : Contexts \cup {Nobody}, left : Nat]
    BY <2>1, <2>2, Sizes
  <2> QED
    BY <2>1, <2>3, TypeParts
<1>7. ASSUME NEW r \in Readers, CopyToUserFails(r) PROVE CallType'
  <2>1. call' = NoCall /\ UNCHANGED fault
    BY <1>7 DEF CopyToUserFails
  <2> QED
    BY <2>1, TypeParts DEF NoCall
<1>8. ASSUME NEW w \in Writers, AddBucket(w) PROVE CallType'
  BY <1>8, Sizes, TypeParts DEF AddBucket, ListWith, Writing, history
<1>9. ASSUME NEW w \in Writers, AddBucketFails(w) PROVE CallType'
  <2>1. call' = NoCall /\ UNCHANGED fault
    BY <1>9 DEF AddBucketFails
  <2> QED
    BY <2>1, TypeParts DEF NoCall
<1>10. ASSUME NEW w \in Writers, CopyFromUser(w) PROVE CallType'
  <2>1. PICK m \in Nat : m <= call.left /\ call' = [by |-> w, left |-> call.left - m] /\ UNCHANGED fault
    BY <1>10, CopyFromFacts DEF Stores
  <2>2. call.left - m \in Nat
    BY <2>1, CallFacts
  <2>3. call' \in [by : Contexts \cup {Nobody}, left : Nat]
    BY <2>1, <2>2, Sizes
  <2> QED
    BY <2>1, <2>3, TypeParts
<1> QED
  BY <1>1, <1>2, <1>3, <1>4, <1>5, <1>6, <1>7, <1>8, <1>9, <1>10, Cases
LEMMA TypeInit == Init => TypeInv
<1> SUFFICES ASSUME Init PROVE TypeInv
  OBVIOUS
<1>1. ListType /\ BufferType /\ NumberType /\ CallType
  BY Sizes, CipherAssumption, EmptySeq
     DEF Init, ListType, BufferType, DataType, NumberType, CallType, NoCall
<1>2. Ordered /\ Caller
  BY Sizes, EmptySeq DEF Init, Ordered, Caller, NoCall
<1> QED
  BY <1>1, <1>2, PartsType DEF TypeInv

LEMMA TypeStep == TypeInv /\ [Next]_vars => TypeInv'
<1> SUFFICES ASSUME TypeInv, [Next]_vars PROVE TypeInv'
  OBVIOUS
<1>1. (ListType /\ BufferType /\ NumberType /\ CallType)'
  BY ListTypeStep, BufferTypeStep, NumberTypeStep, CallTypeStep
<1>2. (TypeOK /\ DataType)'
  BY <1>1, PartsType, PTL
<1> QED
  BY <1>2, OrderedStep, CallerStep DEF TypeInv

-----------------------------------------------------------------------------
(* The reference counts.  A bucket is held by the readers at it or before  *)
(* it, who have yet to pass it, and by the writers at it.                  *)
Holders(b) ==
  {r \in contexes \cap Readers : next[r] # NULL /\ next[r] <= b}
    \cup {w \in contexes \cap Writers : next[w] = b}

Mild == mishaps \subseteq {"read failed"}

Held ==
  Mild =>
    /\ \A b \in Listed : Cardinality(Holders(b)) <= refcount[b]
    /\ \A c \in contexes : next[c] # NULL => next[c] \in Listed

LEMMA HoldersFacts ==
  ASSUME TypeInv, NEW b \in Buckets
  PROVE  /\ IsFiniteSet(Holders(b)) /\ Cardinality(Holders(b)) \in Nat
         /\ Holders(b) \subseteq contexes
         /\ refcount[b] \in Int
<1>1. Holders(b) \subseteq contexes /\ IsFiniteSet(contexes)
  BY OpenReaders DEF Holders
<1> QED
  BY <1>1, FS_Subset, FS_CardinalityType, TypeParts DEF ListType

LEMMA TwoFacts ==
  ASSUME NEW x, NEW y, x # y PROVE Cardinality({x, y}) = 2
<1>1. IsFiniteSet({x}) /\ Cardinality({x}) = 1
  BY FS_Singleton
<1>2. Cardinality({x} \cup {y}) = 1 + 1
  BY <1>1, FS_AddElement
<1>3. {x, y} = {x} \cup {y}
  OBVIOUS
<1> QED
  BY <1>2, <1>3

(* What PassBucket and AddBucket do to list, references and positions.     *)
LEMMA PassFacts ==
  ASSUME TypeInv, NEW r \in Readers, PassBucket(r)
  PROVE  /\ next[r] \in Listed /\ r \in contexes
         /\ UNCHANGED <<contexes, mishaps, got, resets, serial, allocated>>
         /\ off' = [off EXCEPT ![r] = 0]
         /\ \A x \in Buckets : refcount'[x] = IF x = next[r] THEN refcount[next[r]] - 1
                                              ELSE refcount[x]
         /\ Listed' = Listed \ (IF refcount[next[r]] = 1 THEN {next[r]} ELSE {})
         /\ next' = [next EXCEPT ![r] = IF refcount[next[r]] = 1 THEN NULL ELSE After(next[r])]
         /\ \A x \in Buckets : buffer'[x] = IF x \in Listed \ Listed' THEN <<>> ELSE buffer[x]
<1> DEFINE gone == IF refcount[next[r]] = 1 THEN {next[r]} ELSE {}
<1>1. /\ next[r] \in Listed /\ call.by = r
      /\ UNCHANGED <<contexes, mishaps, got, resets, serial, allocated>>
      /\ off' = [off EXCEPT ![r] = 0]
      /\ refcount' = [refcount EXCEPT ![next[r]] = @ - 1]
      /\ Free(gone)
      /\ next' = [next EXCEPT ![r] = IF refcount[next[r]] = 1 THEN NULL ELSE After(next[r])]
  BY DEF PassBucket, Reading, history
<1>2. r \in contexes
  BY <1>1, Sizes DEF TypeInv, Caller
<1>3. \A x \in Buckets : refcount'[x] = IF x = next[r] THEN refcount[next[r]] - 1
                                        ELSE refcount[x]
  BY <1>1, TypeParts DEF ListType
<1>4. gone \in SUBSET Listed
  BY <1>1
<1> HIDE DEF gone
<1>5. /\ Listed' = Listed \ gone
      /\ \A x \in Buckets : buffer'[x] = IF x \in gone THEN <<>> ELSE buffer[x]
  BY <1>1, <1>4, FreeFacts DEF TypeInv, TypeOK
<1>6. Listed \ Listed' = gone
  BY <1>4, <1>5
<1> QED
  BY <1>1, <1>2, <1>3, <1>5, <1>6 DEF gone

LEMMA AddFacts ==
  ASSUME TypeInv, NEW w \in Writers, AddBucket(w)
  PROVE  /\ allocated + 1 \in Buckets /\ allocated + 1 \notin Listed
         /\ Listed' = Listed \cup {allocated + 1}
         /\ w \in contexes /\ UNCHANGED <<contexes, mishaps, got, resets, serial, buffer>>
         /\ next'[w] = allocated + 1
         /\ \A k \in Contexts : k # w => next'[k] = next[k] /\ off'[k] = off[k]
         /\ \A x \in Buckets : refcount'[x] =
              IF x = allocated + 1 THEN HoldersOfNew
              ELSE IF x = next[w] THEN refcount[x] - 1 ELSE refcount[x]
<1>1. /\ buckets' = Append(buckets, allocated + 1)
      /\ next' = [next EXCEPT ![w] = allocated + 1] /\ allocated + 1 \in Buckets
      /\ refcount' = [LeaveBucket(w) EXCEPT ![allocated + 1] = HoldersOfNew]
      /\ off' = [off EXCEPT ![w] = 0] /\ call.by = w
      /\ UNCHANGED <<contexes, mishaps, got, resets, serial, buffer>>
  BY DEF AddBucket, ListWith, Writing, history
<1>2. w \in contexes
  BY <1>1, Sizes DEF TypeInv, Caller
<1>3. allocated + 1 \notin Listed
  BY ListedFacts, NumberFacts
<1>4. Listed' = Listed \cup {allocated + 1}
  <2>1. buckets \in Seq(Buckets) /\ Len(buckets) \in Nat /\ DOMAIN buckets = 1 .. Len(buckets)
    BY ListedFacts, TypeParts DEF ListType
  <2>2. /\ DOMAIN buckets' = 1 .. Len(buckets) + 1
        /\ \A i \in 1 .. Len(buckets) : buckets'[i] = buckets[i]
        /\ buckets'[Len(buckets) + 1] = allocated + 1
    BY <1>1, <2>1, AppendProperties, LenProperties
  <2>3. 1 .. Len(buckets) + 1 = (1 .. Len(buckets)) \cup {Len(buckets) + 1}
    BY <2>1
  <2> QED
    BY <2>1, <2>2, <2>3 DEF Listed
<1>5. \A x \in Buckets : refcount'[x] =
        IF x = allocated + 1 THEN HoldersOfNew
        ELSE IF x = next[w] THEN refcount[x] - 1 ELSE refcount[x]
  BY <1>1 DEF LeaveBucket
<1>6. /\ next'[w] = allocated + 1
      /\ \A k \in Contexts : k # w => next'[k] = next[k] /\ off'[k] = off[k]
  BY <1>1, Sizes, TypeParts DEF ListType, NumberType
<1> QED
  BY <1>1, <1>2, <1>3, <1>4, <1>5, <1>6

LEMMA HeldStep == TypeInv /\ TypeInv' /\ Held /\ [Next]_vars => Held'
<1> SUFFICES ASSUME TypeInv, TypeInv', Held, [Next]_vars PROVE Held'
  OBVIOUS
<1> USE DEF Held
<1>0. mishaps \subseteq mishaps' => (Mild' => Mild)
  BY DEF Mild
<1>1. CASE Elsewhere
  <2>1. UNCHANGED <<buckets, refcount, contexes, next>> /\ mishaps \subseteq mishaps'
    BY <1>1 DEF Elsewhere, device, position, history
  <2> QED
    BY <1>0, <2>1 DEF Listed, Holders
<1>2. ASSUME NEW c \in Contexts, Open(c) PROVE Held'
  <2>1. /\ c \notin contexes /\ contexes' = contexes \cup {c}
        /\ UNCHANGED buckets /\ mishaps \subseteq mishaps'
        /\ refcount' = [b \in Buckets |-> IF b \in Listed THEN refcount[b] + 1 ELSE refcount[b]]
        /\ \E b \in Listed \cup {NULL} : next' = [next EXCEPT ![c] = b]
    BY <1>2, ListedFacts DEF Open, OpenAt, history
  <2>2. /\ next'[c] \in Listed \cup {NULL}
        /\ \A k \in contexes : next'[k] = next[k]
    BY <2>1, NextFacts DEF TypeInv, TypeOK
  <2>3. Listed' = Listed
    BY <2>1 DEF Listed
  <2> HIDE DEF Held
  <2>4. ASSUME NEW b \in Listed, Cardinality(Holders(b)) <= refcount[b]
        PROVE  Cardinality(Holders(b)') <= refcount'[b]
    <3>1. b \in Buckets
      BY ListedFacts
    <3>2. Holders(b)' \subseteq Holders(b) \cup {c}
      BY <2>1, <2>2 DEF Holders
    <3>0. c \notin Holders(b) /\ IsFiniteSet(Holders(b))
      BY <2>1, <3>1, HoldersFacts
    <3>3. /\ IsFiniteSet(Holders(b) \cup {c})
          /\ Cardinality(Holders(b) \cup {c}) = Cardinality(Holders(b)) + 1
      BY <3>0, FS_AddElement
    <3>4. /\ IsFiniteSet(Holders(b)') /\ Cardinality(Holders(b)') \in Nat
          /\ Cardinality(Holders(b)') <= Cardinality(Holders(b) \cup {c})
      BY <3>2, <3>3, FS_Subset, FS_CardinalityType
    <3>5. refcount'[b] = refcount[b] + 1
      BY <2>1, <3>1
    <3>6. Cardinality(Holders(b) \cup {c}) \in Nat
      BY <3>3, FS_CardinalityType
    <3>7. Cardinality(Holders(b)) \in Nat /\ refcount[b] \in Int
      BY <3>1, HoldersFacts
    <3> QED
      BY <2>4, <3>3, <3>4, <3>5, <3>6, <3>7
  <2> QED
    BY <1>0, <2>1, <2>2, <2>3, <2>4 DEF Held
<1>3. ASSUME NEW c \in Contexts, Release(c) PROVE Held'
  <2>1. ~Mild'
    BY <1>3 DEF Release, Mild
  <2> QED
    BY <2>1
<1>4. ASSUME NEW c \in Contexts, NEW key \in Keys \cup {DEFAULTCIPHER}, ResetTo(c, key) PROVE Held'
  <2>1. Free(Listed) /\ next' = [k \in Contexts |-> NULL] /\ UNCHANGED contexes
    BY <1>4 DEF ResetTo, FreeBuckets
  <2>2. Listed' = {}
    BY <2>1, FreeFacts DEF TypeInv, TypeOK
  <2>3. \A c1 \in contexes' : next'[c1] = NULL
    BY <2>1 DEF TypeInv, TypeOK
  <2> QED
    BY <2>2, <2>3
<1>5. ASSUME NEW r \in Readers, PassBucket(r) PROVE Held'
  <2> SUFFICES ASSUME Mild'
               PROVE  /\ \A x \in Listed' : Cardinality(Holders(x)') <= refcount'[x]
                      /\ \A c \in contexes' : next'[c] # NULL => next'[c] \in Listed'
    OBVIOUS
  <2> PICK b : b = next[r]
    OBVIOUS
  <2>1. /\ b \in Listed /\ b \in Buckets /\ r \in contexes /\ UNCHANGED contexes /\ mishaps \subseteq mishaps'
        /\ \A x \in Buckets : refcount'[x] = IF x = b THEN refcount[b] - 1 ELSE refcount[x]
    BY <1>5, PassFacts, ListedFacts
  <2>2. /\ \A x \in Listed : Cardinality(Holders(x)) <= refcount[x]
        /\ \A c \in contexes : next[c] # NULL => next[c] \in Listed
    BY <1>0, <2>1
  <2> HIDE DEF Held
  <2>3. ASSUME NEW x \in Listed
        PROVE  x \in Buckets /\ x # NULL /\ (b <= x => r \in Holders(x))
    BY <2>1, ListedFacts DEF Holders
  <2>4. \A k \in contexes : k # r => next'[k] = next[k]
    <3>1. \E v : next' = [next EXCEPT ![r] = v]
      BY <1>5, PassFacts
    <3>2. contexes \subseteq Contexts
      BY TypeParts DEF NumberType
    <3> QED
      BY <3>1, <3>2, NextFacts
  <2>5. CASE refcount[b] = 1
    <3>1. Listed' = Listed \ {b} /\ next'[r] = NULL
      <4>1. Listed' = Listed \ {b} /\ next' = [next EXCEPT ![r] = NULL]
        BY <1>5, <2>5, PassFacts
      <4> QED
        BY <4>1, Sizes, NextFacts
    <3>2. ASSUME NEW x \in Listed', x \in Listed
          PROVE  Cardinality(Holders(x)') <= refcount'[x]
      <4>1. x # b /\ x \in Buckets
        BY <2>3, <3>1
      <4>2. Holders(x)' \subseteq Holders(x)
        BY <2>1, <2>3, <2>4, <3>1, <4>1, Sizes DEF Holders
      <4>3. Cardinality(Holders(x)') <= Cardinality(Holders(x))
        BY <4>1, <4>2, HoldersFacts, FS_Subset
      <4>4. Cardinality(Holders(x)') \in Nat
        BY <4>1, <4>2, HoldersFacts, FS_Subset, FS_CardinalityType
      <4> QED
        BY <2>1, <2>2, <3>2, <4>1, <4>3, <4>4, HoldersFacts
    <3>3. ASSUME NEW c \in contexes, c # r, next[c] = b PROVE FALSE
      <4>1. c \in Holders(b) /\ r \in Holders(b)
        <5>1. c \in Readers \/ c \in Writers
          BY DEF TypeInv, TypeOK, Contexts
        <5> QED
          BY <2>1, <2>3, <3>3, <5>1, ListedFacts, Sizes DEF Holders
      <4>2. {c, r} \subseteq Holders(b) /\ IsFiniteSet(Holders(b))
        BY <2>1, <4>1, HoldersFacts
      <4>3. Cardinality({c, r}) = 2
        BY <3>3, FS_Singleton, FS_AddElement, TwoFacts
      <4>4. Cardinality({c, r}) <= Cardinality(Holders(b))
        BY <4>2, FS_Subset
      <4>5. Cardinality(Holders(b)) <= 1 /\ Cardinality(Holders(b)) \in Nat
        BY <2>1, <2>2, <2>5, HoldersFacts
      <4> QED
        BY <4>3, <4>4, <4>5
    <3> QED
      BY <2>1, <2>2, <2>4, <3>1, <3>2, <3>3
  <2>6. CASE refcount[b] # 1
    <3>1. Listed' = Listed /\ next'[r] = After(b)
      <4>1. Listed' = Listed /\ next' = [next EXCEPT ![r] = After(b)]
        BY <1>5, <2>6, PassFacts
      <4> QED
        BY <4>1, Sizes, NextFacts
    <3>2. After(b) \in Listed \cup {NULL} /\ (After(b) # NULL => After(b) > b)
      BY <2>1, AfterFacts DEF TypeInv, TypeOK
    <3>3. ASSUME NEW x \in Listed
          PROVE  Cardinality(Holders(x)') <= refcount'[x]
      <4>0. x \in Buckets /\ x \in Nat /\ b \in Nat
        BY <2>1, <2>3, Sizes
      <4>1. Holders(x)' \subseteq Holders(x) /\ (x = b => Holders(x)' \subseteq Holders(x) \ {r})
        <5>0. ASSUME NEW n \in Nat, n > b, n <= x PROVE b <= x /\ x # b
          BY <4>0, <5>0
        <5>1. After(b) # NULL /\ After(b) <= x => b <= x /\ x # b
          <6>1. After(b) # NULL => After(b) \in Nat
            BY <3>2, ListedFacts, Sizes
          <6> QED
            BY <3>2, <5>0, <6>1
        <5> QED
          BY <2>1, <2>3, <2>4, <3>1, <5>1, Sizes DEF Holders
      <4>2. CASE x # b
        <5>1. Cardinality(Holders(x)') <= Cardinality(Holders(x)) /\ Cardinality(Holders(x)') \in Nat
          BY <4>0, <4>1, HoldersFacts, FS_Subset, FS_CardinalityType
        <5> QED
          BY <2>1, <2>2, <4>0, <4>2, <5>1, HoldersFacts
      <4>3. CASE x = b
        <5>1. r \in Holders(b) /\ IsFiniteSet(Holders(b)) /\ Cardinality(Holders(b)) \in Nat
          BY <2>1, <2>3, <4>0, HoldersFacts
        <5>2. /\ IsFiniteSet(Holders(b) \ {r})
              /\ Cardinality(Holders(b) \ {r}) = Cardinality(Holders(b)) - 1
          BY <5>1, FS_RemoveElement
        <5>3. Cardinality(Holders(x)') <= Cardinality(Holders(b) \ {r}) /\ Cardinality(Holders(x)') \in Nat
          BY <4>1, <4>3, <5>2, FS_Subset, FS_CardinalityType
        <5>4. refcount'[x] = refcount[b] - 1 /\ refcount[b] \in Int /\ Cardinality(Holders(b)) <= refcount[b]
          BY <2>1, <2>2, <4>0, <4>3, HoldersFacts
        <5> QED
          BY <5>1, <5>2, <5>3, <5>4
      <4> QED
        BY <4>2, <4>3
    <3> QED
      BY <2>1, <2>2, <2>4, <3>1, <3>2, <3>3
  <2> QED
    BY <2>5, <2>6
<1>6. ASSUME NEW r \in Readers, CopyToUser(r) PROVE Held'
  <2>1. UNCHANGED <<buckets, refcount, contexes, next>> /\ mishaps \subseteq mishaps'
    BY <1>6, CopyToFacts DEF device, HandsOut
  <2> QED
    BY <1>0, <2>1 DEF Listed, Holders
<1>7. ASSUME NEW r \in Readers, CopyToUserFails(r) PROVE Held'
  <2>1. UNCHANGED <<buckets, refcount, contexes, next>> /\ mishaps \subseteq mishaps'
    BY <1>7 DEF CopyToUserFails, device
  <2> QED
    BY <1>0, <2>1 DEF Listed, Holders
<1>8. ASSUME NEW w \in Writers, AddBucket(w) PROVE Held'
  <2> SUFFICES ASSUME Mild'
               PROVE  /\ \A x \in Listed' : Cardinality(Holders(x)') <= refcount'[x]
                      /\ \A c \in contexes' : next'[c] # NULL => next'[c] \in Listed'
    OBVIOUS
  <2> PICK new, b : new = allocated + 1 /\ b = next[w]
    OBVIOUS
  <2>1. /\ new \in Buckets /\ new \notin Listed /\ Listed' = Listed \cup {new}
        /\ w \in contexes /\ UNCHANGED contexes /\ mishaps \subseteq mishaps' /\ next'[w] = new
        /\ \A k \in contexes : k # w => next'[k] = next[k]
        /\ \A x \in Buckets : refcount'[x] = IF x = new THEN HoldersOfNew
                                         ELSE IF x = b THEN refcount[x] - 1 ELSE refcount[x]
    <3>1. contexes \subseteq Contexts
      BY TypeParts DEF NumberType
    <3> QED
      BY <1>8, <3>1, AddFacts
  <2>2. /\ \A x \in Listed : Cardinality(Holders(x)) <= refcount[x]
        /\ \A c \in contexes : next[c] # NULL => next[c] \in Listed
    BY <1>0, <2>1
  <2> HIDE DEF Held
  <2>3. \A k \in contexes : next[k] \in Nat /\ next[k] < new
    <3>1. contexes \subseteq Contexts
      BY TypeParts DEF NumberType
    <3> QED
      BY <3>1, NextFacts, NumberFacts
  <2>4. w \notin Readers
    BY Sizes
  <2>5. ASSUME NEW x \in Listed PROVE Cardinality(Holders(x)') <= refcount'[x]
    <3>0. x \in Buckets /\ x # new
      BY <2>1, ListedFacts
    <3>1. Holders(x)' \subseteq Holders(x) /\ (x = b => Holders(x)' \subseteq Holders(x) \ {w})
      BY <2>1, <2>4, <3>0 DEF Holders
    <3>2. CASE x # b
      <4>1. Cardinality(Holders(x)') <= Cardinality(Holders(x)) /\ Cardinality(Holders(x)') \in Nat
        BY <3>0, <3>1, HoldersFacts, FS_Subset, FS_CardinalityType
      <4> QED
        BY <2>1, <2>2, <3>0, <3>2, <4>1, HoldersFacts
    <3>3. CASE x = b
      <4>1. w \in Holders(x) /\ IsFiniteSet(Holders(x)) /\ Cardinality(Holders(x)) \in Nat
        <5>1. w \in Holders(x)
          BY <2>1, <3>3 DEF Holders
        <5> QED
          BY <3>0, <5>1, HoldersFacts
      <4>2. /\ IsFiniteSet(Holders(x) \ {w})
            /\ Cardinality(Holders(x) \ {w}) = Cardinality(Holders(x)) - 1
        BY <4>1, FS_RemoveElement
      <4>3. Cardinality(Holders(x)') <= Cardinality(Holders(x) \ {w}) /\ Cardinality(Holders(x)') \in Nat
        BY <3>1, <3>3, <4>2, FS_Subset, FS_CardinalityType
      <4>4. refcount'[x] = refcount[x] - 1 /\ refcount[x] \in Int /\ Cardinality(Holders(x)) <= refcount[x]
        BY <2>1, <2>2, <3>0, <3>3, HoldersFacts
      <4> QED
        BY <4>1, <4>2, <4>3, <4>4
    <3> QED
      BY <3>2, <3>3
  <2>6. Cardinality(Holders(new)') <= refcount'[new]
    <3>1. Holders(new)' \subseteq (contexes \cap Readers) \cup {w}
      BY <2>1, <2>3 DEF Holders
    <3>2. /\ IsFiniteSet((contexes \cap Readers) \cup {w})
          /\ Cardinality((contexes \cap Readers) \cup {w}) = Cardinality(contexes \cap Readers) + 1
      <4>1. w \notin contexes \cap Readers /\ IsFiniteSet(contexes \cap Readers)
        BY <2>4, OpenReaders
      <4> QED
        BY <4>1, FS_AddElement
    <3>3. Cardinality(Holders(new)') <= Cardinality((contexes \cap Readers) \cup {w})
      BY <3>1, <3>2, FS_Subset
    <3>4. refcount'[new] = 1 + Cardinality(contexes \cap Readers)
      BY <2>1 DEF HoldersOfNew
    <3>5. Cardinality(contexes \cap Readers) \in Nat
      BY OpenReaders
    <3> QED
      BY <3>2, <3>3, <3>4, <3>5
  <2> QED
    BY <2>1, <2>2, <2>5, <2>6
<1>9. ASSUME NEW w \in Writers, AddBucketFails(w) PROVE Held'
  <2>1. ~Mild'
    BY <1>9 DEF AddBucketFails, Mild
  <2> QED
    BY <2>1
<1>10. ASSUME NEW w \in Writers, CopyFromUser(w) PROVE Held'
  <2>1. UNCHANGED <<buckets, refcount, contexes, next>> /\ mishaps \subseteq mishaps'
    BY <1>10, CopyFromFacts DEF device, Stores
  <2> QED
    BY <1>0, <2>1 DEF Listed, Holders
<1> QED
  BY <1>1, <1>2, <1>3, <1>4, <1>5, <1>6, <1>7, <1>8, <1>9, <1>10, Cases

-----------------------------------------------------------------------------
(* The order of the bytes.  Position i of bucket b comes before j of c.    *)
Before(b, i, c, j) == b < c \/ (b = c /\ i < j)

(* In the buckets the bytes of one writer stand as they were written.      *)
InStream ==
  \A b, c \in Buckets : \A i \in DOMAIN buffer[b], j \in DOMAIN buffer[c] :
    Before(b, i, c, j) /\ buffer[b][i].by = buffer[c][j].by =>
      buffer[b][i].n < buffer[c][j].n

Numbered ==
  /\ \A b \in Buckets : \A i \in DOMAIN buffer[b] :
       buffer[b][i].n <= serial /\ buffer[b][i].epoch = resets
  /\ \A r \in Readers : \A i \in DOMAIN got[r] :
       got[r][i].n <= serial /\ got[r][i].epoch = resets

Emptied ==
  /\ \A b \in Buckets : b \notin Listed => buffer[b] = <<>>
  /\ \A r \in Readers : r \notin contexes => got[r] = <<>>

(* No writer is behind what it wrote.                                      *)
Ahead ==
  \A w \in contexes \cap Writers : \A b \in Buckets : \A i \in DOMAIN buffer[b] :
    buffer[b][i].by = w => b <= next[w]

(* What a reader has not come to is later than what it got.                *)
Unpassed ==
  \A r \in contexes \cap Readers : next[r] # NULL =>
    \A k \in DOMAIN got[r] : \A b \in Buckets : \A j \in DOMAIN buffer[b] :
      Before(next[r], off[r], b, j) /\ got[r][k].by = buffer[b][j].by =>
        got[r][k].n < buffer[b][j].n

StreamInv == InStream /\ Numbered /\ Emptied /\ Ahead /\ Unpassed /\ InOrder

LEMMA ByteFacts ==
  ASSUME TypeInv, NEW b \in Buckets, NEW i \in DOMAIN buffer[b]
  PROVE  /\ i \in 1 .. Len(buffer[b]) /\ i \in Nat /\ b \in Nat
         /\ buffer[b][i].n \in Nat /\ buffer[b][i].by \in Writers
<1>1. buffer[b] \in Seq(Byte)
  BY BufferFacts
<1>2. DOMAIN buffer[b] = 1 .. Len(buffer[b]) /\ Len(buffer[b]) \in Nat
  BY <1>1, LenProperties
<1>3. buffer[b][i] \in Byte
  BY <1>1, <1>2, ElementOfSeq
<1> QED
  BY <1>2, <1>3, Sizes DEF Byte

LEMMA GotFacts ==
  ASSUME TypeInv, NEW r \in Readers
  PROVE  /\ got[r] \in Seq(ReadByte)
         /\ DOMAIN got[r] = 1 .. Len(got[r]) /\ Len(got[r]) \in Nat
         /\ \A i \in DOMAIN got[r] : got[r][i].n \in Nat
<1>1. got[r] \in Seq(ReadByte)
  BY DEF TypeInv, DataType
<1>2. DOMAIN got[r] = 1 .. Len(got[r]) /\ Len(got[r]) \in Nat
  BY <1>1, LenProperties
<1>3. \A i \in DOMAIN got[r] : got[r][i] \in ReadByte
  BY <1>1, <1>2, ElementOfSeq
<1> QED
  BY <1>1, <1>2, <1>3 DEF ReadByte

(* Nothing is stored and nothing handed out.                               *)
Shrinks ==
  /\ serial' = serial /\ resets' = resets
  /\ \A b \in Buckets : buffer'[b] = buffer[b] \/ buffer'[b] = <<>>
  /\ \A r \in Readers : got'[r] = got[r] \/ got'[r] = <<>>

LEMMA EmptyDomain == DOMAIN <<>> = {}
OBVIOUS

LEMMA ShrinkFacts ==
  ASSUME Shrinks
  PROVE  /\ \A b \in Buckets : \A i \in DOMAIN buffer'[b] :
              i \in DOMAIN buffer[b] /\ buffer'[b] = buffer[b]
         /\ \A r \in Readers : \A i \in DOMAIN got'[r] :
              i \in DOMAIN got[r] /\ got'[r] = got[r]
BY EmptyDomain DEF Shrinks

LEMMA ShrinkStep ==
  ASSUME StreamInv, Shrinks
  PROVE  InStream' /\ Numbered' /\ InOrder'
<1>1. InStream'
  BY ShrinkFacts DEF StreamInv, InStream, Before
<1>2. Numbered'
  BY ShrinkFacts DEF StreamInv, Numbered, Shrinks
<1>3. InOrder'
  BY ShrinkFacts DEF StreamInv, InOrder
<1> QED
  BY <1>1, <1>2, <1>3

(* A step that moves no writer back, and no reader except to NULL.         *)
LEMMA StandStep ==
  ASSUME StreamInv, Shrinks, UNCHANGED contexes,
         \A w \in contexes \cap Writers : next'[w] = next[w],
         \A r \in contexes \cap Readers :
           next'[r] = NULL \/ (next'[r] = next[r] /\ off'[r] = off[r])
  PROVE  Ahead' /\ Unpassed'
<1>1. Ahead'
  BY ShrinkFacts DEF StreamInv, Ahead
<1>2. Unpassed'
  BY ShrinkFacts DEF StreamInv, Unpassed, Before
<1> QED
  BY <1>1, <1>2

LEMMA LastFacts ==
  ASSUME TypeInv, NEW b \in Listed
  PROVE  buckets # <<>> /\ b <= buckets[Len(buckets)]
<1>1. PICK i \in DOMAIN buckets : buckets[i] = b
  BY DEF Listed
<1>2. DOMAIN buckets = 1 .. Len(buckets) /\ Len(buckets) \in Nat /\ buckets # <<>>
  BY <1>1, ListedFacts, EmptyDomain
<1>3. /\ b \in Nat /\ (i < Len(buckets) => b < buckets[Len(buckets)])
      /\ buckets[Len(buckets)] \in Nat
  BY <1>1, <1>2, ListedFacts, Sizes DEF TypeInv, Ordered
<1> QED
  BY <1>1, <1>2, <1>3

(* cipher_read hands out the bytes that follow the reader's position.      *)
LEMMA CopyToStream ==
  ASSUME TypeInv, StreamInv, NEW r \in Readers, CopyToUser(r)
  PROVE  InStream' /\ Numbered' /\ Emptied' /\ Ahead' /\ Unpassed' /\ InOrder'
<1>0. InStream /\ Numbered /\ Emptied /\ Ahead /\ Unpassed /\ InOrder
  BY DEF StreamInv
<1>p. PICK m \in Nat, new \in Seq(ReadByte) : HandsOut(r, m, new)
  BY CopyToFacts
<1>1. /\ m \in Nat /\ new \in Seq(ReadByte)
      /\ next[r] \in Listed /\ r \in contexes
      /\ Len(new) = m
      /\ \A i \in 1 .. m : /\ off[r] + i \in DOMAIN buffer[next[r]]
                           /\ new[i].n = buffer[next[r]][off[r] + i].n
                           /\ new[i].epoch = buffer[next[r]][off[r] + i].epoch
                           /\ new[i].by = buffer[next[r]][off[r] + i].by
      /\ got' = [got EXCEPT ![r] = @ \o new]
      /\ off' = [off EXCEPT ![r] = @ + m]
      /\ UNCHANGED <<device, contexes, next, serial, resets>>
  BY <1>p DEF HandsOut
<1>2. PICK b, o : b = next[r] /\ o = off[r]
  OBVIOUS
<1>3. /\ b \in Buckets /\ b \in Nat /\ b # NULL /\ o \in Nat /\ r \in contexes
      /\ UNCHANGED <<buckets, buffer, contexes, next, serial, resets>>
  BY <1>1, <1>2, ListedFacts, NumberFacts, Sizes DEF device
<1>4. /\ \A q \in Readers : q # r => got'[q] = got[q]
      /\ got'[r] = got[r] \o new
      /\ off'[r] = o + m
      /\ \A c \in contexes : c # r => off'[c] = off[c]
  BY <1>1, <1>2, Sizes DEF TypeInv, TypeOK, DataType
<1>5. PICK L \in Nat : L = Len(got[r])
  BY GotFacts
<1>6. /\ DOMAIN got[r] = 1 .. L
      /\ DOMAIN got'[r] = 1 .. L + m
      /\ \A i \in 1 .. L : got'[r][i] = got[r][i]
      /\ \A i \in 1 .. m : got'[r][L + i] = new[i]
  BY <1>1, <1>4, <1>5, GotFacts, ConcatProperties, LenProperties
<1>7. \A i \in 1 .. m : /\ o + i \in DOMAIN buffer[b]
                        /\ new[i].n = buffer[b][o + i].n
                        /\ new[i].epoch = buffer[b][o + i].epoch
                        /\ new[i].by = buffer[b][o + i].by
  BY <1>1, <1>2
<1>8. \A i \in 1 .. L + m : i \in 1 .. L \/ \E j \in 1 .. m : i = L + j
  <2>1. \A i \in 1 .. L + m : i \in 1 .. L \/ (i - L \in 1 .. m /\ i = L + (i - L))
    OBVIOUS
  <2> QED
    BY <2>1
<1>9. InStream'
  BY <1>0, <1>3 DEF InStream, Before
<1>10. Numbered'
  <2>1. \A i \in 1 .. L + m : got'[r][i].n <= serial /\ got'[r][i].epoch = resets
    <3>1. \A i \in 1 .. L : got'[r][i].n <= serial /\ got'[r][i].epoch = resets
      BY <1>0, <1>6 DEF Numbered
    <3>2. ASSUME NEW i \in 1 .. m
          PROVE  got'[r][L + i].n <= serial /\ got'[r][L + i].epoch = resets
      <4>1. buffer[b][o + i].n <= serial /\ buffer[b][o + i].epoch = resets
        BY <1>0, <1>3, <1>7 DEF Numbered
      <4>2. /\ got'[r][L + i] = new[i] /\ new[i].n = buffer[b][o + i].n
            /\ new[i].epoch = buffer[b][o + i].epoch
        BY <1>6, <1>7
      <4> QED
        BY <4>1, <4>2
    <3> QED
      BY <1>8, <3>1, <3>2
  <2>2. \A q \in Readers : \A i \in DOMAIN got'[q] :
          got'[q][i].n <= serial /\ got'[q][i].epoch = resets
    <3>1. ASSUME NEW q \in Readers, q # r, NEW i \in DOMAIN got'[q]
          PROVE  got'[q][i].n <= serial /\ got'[q][i].epoch = resets
      BY <1>0, <1>4, <3>1 DEF Numbered
    <3> QED
      BY <1>6, <2>1, <3>1
  <2>3. \A x \in Buckets : \A i \in DOMAIN buffer[x] :
          buffer[x][i].n <= serial /\ buffer[x][i].epoch = resets
    BY <1>0 DEF Numbered
  <2>4. UNCHANGED <<buffer, serial, resets>>
    BY <1>3
  <2> QED
    BY <2>2, <2>3, <2>4 DEF Numbered
<1>11. Emptied'
  <2>1. Listed' = Listed
    BY <1>3 DEF Listed
  <2> QED
    BY <1>0, <1>1, <1>3, <1>4, <2>1 DEF Emptied
<1>12. Ahead'
  BY <1>0, <1>3 DEF Ahead
<1>13. ASSUME NEW k \in 1 .. L, NEW x \in Buckets, NEW j \in DOMAIN buffer[x],
              Before(b, o, x, j), got[r][k].by = buffer[x][j].by
       PROVE  got[r][k].n < buffer[x][j].n
  BY <1>0, <1>2, <1>3, <1>6, <1>13 DEF Unpassed
<1>14. ASSUME NEW k \in 1 .. m, NEW x \in Buckets, NEW j \in DOMAIN buffer[x],
              Before(b, o + k, x, j), new[k].by = buffer[x][j].by
       PROVE  new[k].n < buffer[x][j].n
  BY <1>0, <1>3, <1>7, <1>14 DEF InStream
<1>15. Unpassed'
  <2>1. ASSUME NEW i \in 1 .. L + m, NEW x \in Buckets, NEW j \in DOMAIN buffer[x],
               Before(b, o + m, x, j), got'[r][i].by = buffer[x][j].by
        PROVE  got'[r][i].n < buffer[x][j].n
    <3>0. j \in Nat /\ x \in Nat
      BY ByteFacts
    <3>1. CASE i \in 1 .. L
      <4>1. Before(b, o, x, j)
        BY <1>3, <2>1, <3>0 DEF Before
      <4> QED
        BY <1>6, <1>13, <2>1, <3>1, <4>1
    <3>2. ASSUME NEW k \in 1 .. m, i = L + k PROVE got'[r][i].n < buffer[x][j].n
      <4>1. Before(b, o + k, x, j)
        BY <1>3, <2>1, <3>0 DEF Before
      <4> QED
        BY <1>6, <1>14, <2>1, <3>2, <4>1
    <3> QED
      BY <1>8, <3>1, <3>2
  <2>2. ASSUME NEW q \in contexes \cap Readers, next[q] # NULL,
               NEW i \in DOMAIN got'[q], NEW x \in Buckets, NEW j \in DOMAIN buffer[x],
               Before(next[q], off'[q], x, j), got'[q][i].by = buffer[x][j].by
        PROVE  got'[q][i].n < buffer[x][j].n
    <3>1. CASE q = r
      BY <1>2, <1>4, <1>6, <2>1, <2>2, <3>1
    <3>2. CASE q # r
      BY <1>0, <1>4, <2>2, <3>2 DEF Unpassed
    <3> QED
      BY <3>1, <3>2
  <2> QED
    BY <1>3, <2>2 DEF Unpassed, Before
<1>16. InOrder'
  <2>1. ASSUME NEW i \in 1 .. L + m, NEW j \in 1 .. L + m, i < j, got'[r][i].by = got'[r][j].by
        PROVE  got'[r][i].n < got'[r][j].n
    <3>1. CASE i \in 1 .. L /\ j \in 1 .. L
      BY <1>0, <1>6, <2>1, <3>1 DEF InOrder
    <3>2. ASSUME NEW k \in 1 .. m, j = L + k, i \in 1 .. L PROVE got'[r][i].n < got'[r][j].n
      <4>1. Before(b, o, b, o + k)
        BY <1>3 DEF Before
      <4>2. /\ got'[r][i] = got[r][i] /\ got'[r][j] = new[k]
            /\ o + k \in DOMAIN buffer[b]
            /\ new[k].n = buffer[b][o + k].n /\ new[k].by = buffer[b][o + k].by
        BY <1>6, <1>7, <3>2
      <4>3. got[r][i].by = buffer[b][o + k].by
        BY <2>1, <4>2
      <4>4. got[r][i].n < buffer[b][o + k].n
        BY <1>3, <1>13, <3>2, <4>1, <4>2, <4>3
      <4> QED
        BY <4>2, <4>4
    <3>3. ASSUME NEW h \in 1 .. m, NEW k \in 1 .. m, i = L + h, j = L + k
          PROVE  got'[r][i].n < got'[r][j].n
      <4>1. Before(b, o + h, b, o + k)
        BY <1>3, <2>1, <3>3 DEF Before
      <4>2. /\ got'[r][i] = new[h] /\ got'[r][j] = new[k]
            /\ o + k \in DOMAIN buffer[b]
            /\ new[k].n = buffer[b][o + k].n /\ new[k].by = buffer[b][o + k].by
        BY <1>6, <1>7, <3>3
      <4>3. new[h].by = buffer[b][o + k].by
        BY <2>1, <4>2
      <4>4. new[h].n < buffer[b][o + k].n
        BY <1>3, <1>14, <3>3, <4>1, <4>2, <4>3
      <4> QED
        BY <4>2, <4>4
    <3>4. ASSUME NEW h \in 1 .. m, i = L + h PROVE j \notin 1 .. L
      BY <2>1, <3>4
    <3> QED
      BY <1>8, <3>1, <3>2, <3>3, <3>4
  <2>2. ASSUME NEW q \in Readers, q # r, NEW i \in DOMAIN got'[q], NEW j \in DOMAIN got'[q],
               i < j, got'[q][i].by = got'[q][j].by
        PROVE  got'[q][i].n < got'[q][j].n
    <3>1. got'[q] = got[q]
      BY <1>4, <2>2
    <3> QED
      BY <1>0, <2>2, <3>1 DEF InOrder
  <2>3. DOMAIN got'[r] = 1 .. L + m
    BY <1>6
  <2> QED
    BY <2>1, <2>2, <2>3 DEF InOrder
<1> QED
  BY <1>9, <1>10, <1>11, <1>12, <1>15, <1>16

(* cipher_write stores at the end of the writer's bucket, and no byte of   *)
(* this writer stands after that.                                          *)
LEMMA CopyFromStream ==
  ASSUME TypeInv, StreamInv, NEW w \in Writers, CopyFromUser(w)
  PROVE  InStream' /\ Numbered' /\ Emptied' /\ Ahead' /\ Unpassed' /\ InOrder'
<1>0. InStream /\ Numbered /\ Emptied /\ Ahead /\ Unpassed /\ InOrder
  BY DEF StreamInv
<1>p. PICK m \in Nat, new \in Seq(Byte) : Stores(w, m, new)
  BY CopyFromFacts
<1>1. /\ m \in Nat /\ new \in Seq(Byte)
      /\ next[w] \in Listed /\ w \in contexes
      /\ Len(new) = m
      /\ \A i \in 1 .. m : new[i].n = serial + i /\ new[i].epoch = resets /\ new[i].by = w
      /\ buffer' = [buffer EXCEPT ![next[w]] = @ \o new]
      /\ serial' = serial + m
      /\ UNCHANGED <<buckets, contexes, next, off, resets, got>>
  BY <1>p DEF Stores
<1>2. PICK b : b = next[w]
  OBVIOUS
<1>3. b \in Buckets /\ b \in Listed /\ b \in Nat /\ serial \in Nat
  BY <1>1, <1>2, ListedFacts, NumberFacts, Sizes
<1>4. /\ \A x \in Buckets : x # b => buffer'[x] = buffer[x]
      /\ buffer'[b] = buffer[b] \o new
  BY <1>1, <1>2, <1>3 DEF TypeInv, DataType
<1>5. PICK L \in Nat : L = Len(buffer[b])
  BY <1>3, BufferFacts
<1>6. /\ DOMAIN buffer[b] = 1 .. L
      /\ DOMAIN buffer'[b] = 1 .. L + m
      /\ \A i \in 1 .. L : buffer'[b][i] = buffer[b][i]
      /\ \A i \in 1 .. m : buffer'[b][L + i] = new[i]
  <2>1. buffer[b] \in Seq(Byte) /\ new \in Seq(Byte) /\ Len(new) = m
    BY <1>1, <1>3, BufferFacts
  <2>2. DOMAIN buffer[b] = 1 .. L
    BY <1>5, <2>1, LenProperties
  <2>3. /\ buffer[b] \o new \in Seq(Byte) /\ Len(buffer[b] \o new) = L + m
        /\ \A i \in 1 .. L + m : (buffer[b] \o new)[i] =
             IF i <= L THEN buffer[b][i] ELSE new[i - L]
    BY <1>5, <2>1, ConcatProperties
  <2>4. DOMAIN (buffer[b] \o new) = 1 .. L + m
    BY <2>3, LenProperties
  <2>5. \A i \in 1 .. m : (buffer[b] \o new)[L + i] = new[i]
    <3>1. \A i \in 1 .. m : L + i \in 1 .. L + m /\ ~(L + i <= L) /\ (L + i) - L = i
      OBVIOUS
    <3> QED
      BY <2>3, <3>1
  <2>6. \A i \in 1 .. L : (buffer[b] \o new)[i] = buffer[b][i]
    BY <2>3
  <2> QED
    BY <1>4, <2>2, <2>4, <2>5, <2>6
(* A byte of a bucket is one that was there or one of the new ones.        *)
<1>7. ASSUME NEW x \in Buckets, NEW j \in DOMAIN buffer'[x]
      PROVE  \/ j \in DOMAIN buffer[x] /\ buffer'[x][j] = buffer[x][j]
             \/ x = b /\ \E k \in 1 .. m : j = L + k /\ buffer'[x][j] = new[k]
  <2>1. CASE x # b
    BY <1>4, <1>7, <2>1
  <2>2. CASE x = b
    <3>1. j \in 1 .. L \/ (j - L \in 1 .. m /\ j = L + (j - L))
      BY <1>6, <1>7, <2>2
    <3> QED
      BY <1>6, <2>2, <3>1
  <2> QED
    BY <2>1, <2>2
<1>8. InStream'
  <2>1. ASSUME NEW x \in Buckets, NEW y \in Buckets, NEW i \in DOMAIN buffer'[x],
               NEW j \in DOMAIN buffer'[y], Before(x, i, y, j),
               buffer'[x][i].by = buffer'[y][j].by
        PROVE  buffer'[x][i].n < buffer'[y][j].n
    <3>0. x \in Nat /\ y \in Nat
      BY Sizes
    <3>1. ASSUME i \in DOMAIN buffer[x], buffer'[x][i] = buffer[x][i],
                 j \in DOMAIN buffer[y], buffer'[y][j] = buffer[y][j]
          PROVE  buffer'[x][i].n < buffer'[y][j].n
      BY <1>0, <2>1, <3>1 DEF InStream
    <3>2. ASSUME i \in DOMAIN buffer[x], buffer'[x][i] = buffer[x][i],
                 NEW k \in 1 .. m, buffer'[y][j] = new[k]
          PROVE  buffer'[x][i].n < buffer'[y][j].n
      <4>1. buffer[x][i].n \in Nat /\ buffer[x][i].n <= serial
        BY <1>0, <3>2, ByteFacts DEF Numbered
      <4>2. buffer'[y][j].n = serial + k
        BY <1>1, <3>2
      <4> QED
        BY <1>3, <3>2, <4>1, <4>2
    <3>3. ASSUME x = b, NEW k \in 1 .. m, i = L + k, buffer'[x][i] = new[k],
                 j \in DOMAIN buffer[y], buffer'[y][j] = buffer[y][j]
          PROVE  FALSE
      <4>1. buffer[y][j].by = w
        BY <1>1, <2>1, <3>3
      <4>2. y <= b
        BY <1>0, <1>1, <1>2, <3>3, <4>1 DEF Ahead
      <4>3. y = b /\ L + k < j
        BY <1>3, <2>1, <3>0, <3>3, <4>2 DEF Before
      <4>4. j \in 1 .. L
        BY <1>6, <3>3, <4>3
      <4> QED
        BY <4>3, <4>4
    <3>4. ASSUME x = b, NEW h \in 1 .. m, i = L + h, buffer'[x][i] = new[h],
                 y = b, NEW k \in 1 .. m, j = L + k, buffer'[y][j] = new[k]
          PROVE  buffer'[x][i].n < buffer'[y][j].n
      <4>1. h < k
        BY <1>3, <2>1, <3>4 DEF Before
      <4>2. buffer'[x][i].n = serial + h /\ buffer'[y][j].n = serial + k
        BY <1>1, <3>4
      <4> QED
        BY <1>3, <4>1, <4>2
    <3> QED
      BY <1>7, <3>1, <3>2, <3>3, <3>4
  <2> QED
    BY <2>1 DEF InStream, Before
<1>9. Numbered'
  <2>1. ASSUME NEW x \in Buckets, NEW j \in DOMAIN buffer'[x]
        PROVE  buffer'[x][j].n <= serial' /\ buffer'[x][j].epoch = resets
    <3>1. CASE j \in DOMAIN buffer[x] /\ buffer'[x][j] = buffer[x][j]
      <4>1. /\ buffer[x][j].n \in Nat /\ buffer[x][j].n <= serial
            /\ buffer[x][j].epoch = resets
        BY <1>0, <3>1, ByteFacts DEF Numbered
      <4> QED
        BY <1>1, <1>3, <3>1, <4>1
    <3>2. ASSUME NEW k \in 1 .. m, buffer'[x][j] = new[k]
          PROVE  buffer'[x][j].n <= serial' /\ buffer'[x][j].epoch = resets
      <4>1. new[k].n = serial + k /\ new[k].epoch = resets
        BY <1>1
      <4>2. /\ serial' = serial + m /\ serial \in Nat /\ m \in Nat
        BY <1>1, <1>3
      <4> QED
        BY ONLY k \in 1 .. m, <3>2, <4>1, <4>2
    <3> QED
      BY <1>7, <3>1, <3>2
  <2>2. ASSUME NEW r \in Readers, NEW i \in DOMAIN got[r]
        PROVE  got[r][i].n <= serial' /\ got[r][i].epoch = resets
    <3>1. got[r][i].n \in Nat /\ got[r][i].n <= serial /\ got[r][i].epoch = resets
      BY <1>0, GotFacts DEF Numbered
    <3> QED
      BY <1>1, <1>3, <3>1
  <2> QED
    BY <1>1, <2>1, <2>2 DEF Numbered
<1>10. Emptied'
  <2>1. Listed' = Listed
    BY <1>1 DEF Listed
  <2> QED
    BY <1>0, <1>1, <1>3, <1>4, <2>1 DEF Emptied
<1>11. Ahead'
  <2>1. ASSUME NEW v \in contexes \cap Writers, NEW x \in Buckets, NEW j \in DOMAIN buffer'[x],
               buffer'[x][j].by = v
        PROVE  x <= next[v]
    <3>1. CASE j \in DOMAIN buffer[x] /\ buffer'[x][j] = buffer[x][j]
      BY <1>0, <2>1, <3>1 DEF Ahead
    <3>2. ASSUME x = b, NEW k \in 1 .. m, buffer'[x][j] = new[k] PROVE x <= next[v]
      <4>1. v = w
        BY <1>1, <2>1, <3>2
      <4> QED
        BY <1>2, <1>3, <3>2, <4>1
    <3> QED
      BY <1>7, <3>1, <3>2
  <2> QED
    BY <1>1, <2>1 DEF Ahead
<1>12. Unpassed'
  <2>1. ASSUME NEW r \in contexes \cap Readers, next[r] # NULL,
               NEW i \in DOMAIN got[r], NEW x \in Buckets, NEW j \in DOMAIN buffer'[x],
               Before(next[r], off[r], x, j), got[r][i].by = buffer'[x][j].by
        PROVE  got[r][i].n < buffer'[x][j].n
    <3>1. CASE j \in DOMAIN buffer[x] /\ buffer'[x][j] = buffer[x][j]
      BY <1>0, <2>1, <3>1 DEF Unpassed
    <3>2. ASSUME NEW k \in 1 .. m, buffer'[x][j] = new[k] PROVE got[r][i].n < buffer'[x][j].n
      <4>1. got[r][i].n \in Nat /\ got[r][i].n <= serial
        BY <1>0, <2>1, GotFacts DEF Numbered
      <4>2. buffer'[x][j].n = serial + k
        BY <1>1, <3>2
      <4> QED
        BY <1>3, <3>2, <4>1, <4>2
    <3> QED
      BY <1>7, <3>1, <3>2
  <2>2. UNCHANGED <<contexes, next, off, got>>
    BY <1>1
  <2> QED
    BY <2>1, <2>2 DEF Unpassed, Before
<1>13. InOrder'
  BY <1>0, <1>1 DEF InOrder
<1> QED
  BY <1>8, <1>9, <1>10, <1>11, <1>12, <1>13

LEMMA StreamStep == TypeInv /\ TypeInv' /\ StreamInv /\ [Next]_vars => StreamInv'
<1> SUFFICES ASSUME TypeInv, TypeInv', StreamInv, [Next]_vars PROVE StreamInv'
  OBVIOUS
<1>0. InStream /\ Numbered /\ Emptied /\ Ahead /\ Unpassed /\ InOrder
  BY DEF StreamInv
<1>w. \A k \in contexes : k \in Readers => k \notin Writers
  BY Sizes
<1>1. ASSUME UNCHANGED <<buckets, buffer, contexes, next, off, got, serial, resets>>
      PROVE  StreamInv'
  <2>1. Shrinks
    BY <1>1 DEF Shrinks
  <2>2. Ahead' /\ Unpassed'
    BY <1>1, <2>1, StandStep
  <2>3. Emptied'
    BY <1>0, <1>1 DEF Emptied, Listed
  <2> QED
    BY <2>1, <2>2, <2>3, ShrinkStep DEF StreamInv
<1>2. CASE Elsewhere
  <2>1. UNCHANGED <<buckets, buffer, contexes, next, off, got, serial, resets>>
    BY <1>2, Zenon DEF Elsewhere, device, position, history
  <2> QED
    BY <1>1, <2>1
<1>3. ASSUME NEW c \in Contexts, Open(c) PROVE StreamInv'
  <2>1. /\ c \notin contexes /\ contexes' = contexes \cup {c}
        /\ UNCHANGED <<buckets, buffer, got, serial, resets>>
        /\ \E b, o : next' = [next EXCEPT ![c] = b] /\ off' = [off EXCEPT ![c] = o]
        /\ c \in Writers /\ buckets # <<>> =>
             next' = [next EXCEPT ![c] = buckets[Len(buckets)]]
    BY <1>3, Sizes DEF Open, OpenAt, history
  <2>2. /\ \A k \in contexes : k # c /\ next'[k] = next[k] /\ off'[k] = off[k]
        /\ c \in Writers /\ buckets # <<>> => next'[c] = buckets[Len(buckets)]
    BY <2>1, NextFacts DEF TypeInv, TypeOK
  <2>3. Shrinks
    BY <2>1 DEF Shrinks
  <2>4. Emptied'
    BY <1>0, <2>1 DEF Emptied, Listed
  <2>5. Ahead'
    <3>1. ASSUME c \in Writers, NEW b \in Buckets, NEW i \in DOMAIN buffer[b]
          PROVE  b <= next'[c]
      <4>1. b \in Listed
        BY <1>0, <3>1, EmptyDomain DEF Emptied
      <4>2. b <= buckets[Len(buckets)] /\ buckets # <<>>
        BY <4>1, LastFacts
      <4> QED
        BY <2>2, <3>1, <4>2
    <3> QED
      BY <1>0, <2>1, <2>2, <3>1 DEF Ahead
  <2>6. Unpassed'
    <3>1. c \in Readers => got[c] = <<>>
      BY <1>0, <2>1 DEF Emptied
    <3> QED
      BY <1>0, <2>1, <2>2, <3>1, EmptyDomain DEF Unpassed, Before
  <2> QED
    BY <2>3, <2>4, <2>5, <2>6, ShrinkStep DEF StreamInv
<1>4. ASSUME NEW c \in Contexts, Release(c) PROVE StreamInv'
  <2>1. /\ c \in contexes /\ contexes' = contexes \ {c}
        /\ Free({b \in Listed : refcount[b] = 1})
        /\ next' = [next EXCEPT ![c] = NULL] /\ off' = [off EXCEPT ![c] = 0]
        /\ got' = [r \in Readers |-> IF r = c THEN <<>> ELSE got[r]]
        /\ UNCHANGED <<serial, resets>>
    BY <1>4 DEF Release, OpenAt, Ready
  <2>2. \E gone \in SUBSET Listed :
          /\ Listed' = Listed \ gone
          /\ \A b \in Buckets : buffer'[b] = IF b \in gone THEN <<>> ELSE buffer[b]
    <3> DEFINE gone == {b \in Listed : refcount[b] = 1}
    <3>1. gone \in SUBSET Listed /\ Free(gone)
      BY <2>1
    <3> HIDE DEF gone
    <3> QED
      BY <3>1, FreeFacts DEF TypeInv, TypeOK
  <2>3. Shrinks
    BY <2>1, <2>2 DEF Shrinks
  <2>4. \A k \in contexes' : k \in contexes /\ k # c /\ next'[k] = next[k] /\ off'[k] = off[k]
    BY <2>1, NextFacts DEF TypeInv, TypeOK
  <2>5. Ahead'
    BY <1>0, <2>3, <2>4, ShrinkFacts DEF Ahead
  <2>6. Unpassed'
    BY <1>0, <2>3, <2>4, ShrinkFacts DEF Unpassed, Before
  <2>7. Emptied'
    BY <1>0, <2>1, <2>2 DEF Emptied
  <2> QED
    BY <2>3, <2>5, <2>6, <2>7, ShrinkStep DEF StreamInv
<1>5. ASSUME NEW c \in Contexts, NEW key \in Keys \cup {DEFAULTCIPHER}, ResetTo(c, key)
      PROVE  StreamInv'
  <2>1. /\ Free(Listed) /\ next' = [k \in Contexts |-> NULL] /\ UNCHANGED contexes
        /\ got' = [r \in Readers |-> <<>>]
    BY <1>5 DEF ResetTo, FreeBuckets
  <2>2. \A b \in Buckets : buffer'[b] = <<>>
    BY <1>0, <2>1, FreeFacts DEF TypeInv, TypeOK, Emptied
  <2>3. \A r \in Readers : got'[r] = <<>>
    BY <2>1
  <2>4. /\ \A b \in Buckets : DOMAIN buffer'[b] = {}
        /\ \A r \in Readers : DOMAIN got'[r] = {}
    BY <2>2, <2>3, EmptyDomain
  <2>5. InStream' /\ Numbered' /\ InOrder' /\ Ahead' /\ Unpassed'
    BY <2>4 DEF InStream, Numbered, InOrder, Ahead, Unpassed
  <2>6. Emptied'
    BY <2>2, <2>3 DEF Emptied
  <2> QED
    BY <2>5, <2>6 DEF StreamInv
<1>6. ASSUME NEW r \in Readers, PassBucket(r) PROVE StreamInv'
  <2>1. PICK b : b = next[r]
    OBVIOUS
  <2>2. /\ b \in Listed /\ b \in Buckets /\ b \in Nat /\ r \in contexes
        /\ UNCHANGED <<contexes, got, resets, serial>>
        /\ off' = [off EXCEPT ![r] = 0]
        /\ Listed' \subseteq Listed
        /\ \A x \in Buckets : buffer'[x] = IF x \in Listed \ Listed' THEN <<>> ELSE buffer[x]
    BY <1>6, <2>1, PassFacts, ListedFacts, Sizes
  <2>3. PICK a : next' = [next EXCEPT ![r] = a] /\ (a = NULL \/ a = After(b))
    BY <1>6, <2>1, PassFacts
  <2>4. a # NULL => a \in Nat /\ a > b
    <3>1. After(b) \in Listed \cup {NULL} /\ (After(b) # NULL => After(b) > b)
      BY <2>2, AfterFacts DEF TypeInv, TypeOK
    <3>2. After(b) # NULL => After(b) \in Nat
      BY <3>1, ListedFacts, Sizes
    <3> QED
      BY <2>3, <3>1, <3>2
  <2>5. Shrinks
    BY <2>2 DEF Shrinks
  <2>6. /\ next'[r] = a /\ off'[r] = 0
        /\ \A k \in contexes : k # r => next'[k] = next[k] /\ off'[k] = off[k]
    BY <2>2, <2>3, Sizes, NextFacts DEF TypeInv, TypeOK
  <2>7. Ahead'
    BY <1>0, <2>2, <2>5, <2>6, Sizes, ShrinkFacts DEF Ahead
  <2>8. Unpassed'
    <3>1. ASSUME a # NULL, NEW x \in Buckets, NEW j \in DOMAIN buffer[x], Before(a, 0, x, j)
          PROVE  Before(b, off[r], x, j)
      BY <2>2, <2>4, <3>1, Sizes DEF Before
    <3>2. b # NULL
      BY <2>2, ListedFacts
    <3>3. ASSUME a # NULL, NEW k \in DOMAIN got[r], NEW x \in Buckets, NEW j \in DOMAIN buffer[x],
                 Before(a, 0, x, j), got[r][k].by = buffer[x][j].by
          PROVE  got[r][k].n < buffer[x][j].n
      BY <1>0, <2>1, <2>2, <3>1, <3>2, <3>3 DEF Unpassed
    <3>4. ASSUME NEW q \in contexes \cap Readers, next'[q] # NULL,
                 NEW k \in DOMAIN got[q], NEW x \in Buckets, NEW j \in DOMAIN buffer[x],
                 Before(next'[q], off'[q], x, j), got[q][k].by = buffer[x][j].by
          PROVE  got[q][k].n < buffer[x][j].n
      <4>1. CASE q = r
        BY <2>6, <3>3, <3>4, <4>1
      <4>2. CASE q # r
        BY <1>0, <2>6, <3>4, <4>2 DEF Unpassed
      <4> QED
        BY <4>1, <4>2
    <3>5. contexes' = contexes /\ got' = got
      BY <2>2
    <3>6. \A x \in Buckets : \A j \in DOMAIN buffer'[x] :
            j \in DOMAIN buffer[x] /\ buffer'[x][j] = buffer[x][j]
      BY <2>5, ShrinkFacts
    <3> QED
      BY <3>4, <3>5, <3>6 DEF Unpassed, Before
  <2>9. Emptied'
    BY <1>0, <2>2 DEF Emptied
  <2> QED
    BY <2>5, <2>7, <2>8, <2>9, ShrinkStep DEF StreamInv
<1>8. ASSUME NEW r \in Readers, CopyToUserFails(r) PROVE StreamInv'
  <2>1. UNCHANGED <<buckets, buffer, contexes, next, off, got, serial, resets>>
    BY <1>8, Zenon DEF CopyToUserFails, device
  <2> QED
    BY <1>1, <2>1
<1>9. ASSUME NEW w \in Writers, AddBucket(w) PROVE StreamInv'
  <2>1. /\ Listed \subseteq Listed'
        /\ UNCHANGED <<contexes, got, resets, serial, buffer>>
        /\ next'[w] = allocated + 1
        /\ \A k \in Contexts : k # w => next'[k] = next[k] /\ off'[k] = off[k]
    BY <1>9, AddFacts
  <2>2. Shrinks
    BY <2>1 DEF Shrinks
  <2>3. \A k \in contexes : k # w => next'[k] = next[k] /\ off'[k] = off[k]
    BY <2>1, TypeParts DEF NumberType
  <2>4. Ahead'
    <3>1. ASSUME NEW b \in Buckets, NEW i \in DOMAIN buffer[b] PROVE b <= allocated + 1
      <4>1. b \in Listed
        BY <1>0, EmptyDomain DEF Emptied
      <4> QED
        BY <4>1, ListedFacts, NumberFacts, Sizes
    <3> QED
      BY <1>0, <2>1, <2>3, <3>1 DEF Ahead
  <2>5. Unpassed'
    BY <1>0, <2>1, <2>3, Sizes DEF Unpassed, Before
  <2>6. Emptied'
    BY <1>0, <2>1 DEF Emptied
  <2> QED
    BY <2>2, <2>4, <2>5, <2>6, ShrinkStep DEF StreamInv
<1>10. ASSUME NEW w \in Writers, AddBucketFails(w) PROVE StreamInv'
  <2>1. UNCHANGED <<buckets, buffer, contexes, next, off, got, serial, resets>>
    BY <1>10, Zenon DEF AddBucketFails, position
  <2> QED
    BY <1>1, <2>1
<1>7. ASSUME NEW r \in Readers, CopyToUser(r) PROVE StreamInv'
  BY <1>0, <1>7, CopyToStream DEF StreamInv
<1>11. ASSUME NEW w \in Writers, CopyFromUser(w) PROVE StreamInv'
  BY <1>0, <1>11, CopyFromStream DEF StreamInv
<1> QED
  BY <1>2, <1>3, <1>4, <1>5, <1>6, <1>7, <1>8, <1>9, <1>10, <1>11, Cases

-----------------------------------------------------------------------------
(* The whole stream.  While one writer writes and nothing is closed or     *)
(* fails, no bucket that was filled is freed, so a reader gets the bytes   *)
(* 1, 2, 3 and so on.                                                      *)
Alone ==
  /\ fault = "none" /\ mishaps = {}
  /\ \A v, w \in Writers : totalwritten[v] > 0 /\ totalwritten[w] > 0 => v = w

(* Who has written is open and at a bucket.                                *)
Authors ==
  /\ \A w \in Writers : totalwritten[w] > 0 => w \in contexes /\ next[w] # NULL
  /\ serial > 0 => \E w \in Writers : totalwritten[w] > 0
  /\ \A b \in Buckets : \A i \in DOMAIN buffer[b] : totalwritten[buffer[b][i].by] > 0

(* Every byte is in a bucket.                                              *)
Complete ==
  \A n \in 1 .. serial : \E b \in Buckets : \E i \in DOMAIN buffer[b] : buffer[b][i].n = n

(* A byte in a bucket follows the one before it, and the key's character   *)
(* it met is that of its number.                                           *)
Sound(b, i) ==
  /\ buffer[b][i].n > 0
  /\ buffer[b][i].n = buffer[b][1].n + i - 1
  /\ buffer[b][i].key = KeyAt(buffer[b][i].n - 1)

AllSound == \A b \in Buckets : \A i \in DOMAIN buffer[b] : Sound(b, i)

KeysInStep ==
  /\ serial = 0 => keylast = 0
  /\ cipher # <<>> =>
       /\ \A w \in Writers : totalwritten[w] > 0 \/ serial = 0 =>
            keyoff[w] = serial % Len(cipher)
       /\ \A r \in Readers : keyoff[r] = Len(got[r]) % Len(cipher)

Exact == \A r \in Readers : \A i \in DOMAIN got[r] : got[r][i].n = i /\ got[r][i].right

(* What lies before a reader is what it has not got.                       *)
NothingMissed ==
  \A r \in contexes \cap Readers : next[r] # NULL =>
    \A b \in Buckets : \A i \in DOMAIN buffer[b] :
      buffer[b][i].n > Len(got[r]) <=> Before(next[r], off[r], b, i)

(* Outside its own call a reader is at the head of the list or behind a    *)
(* byte it read.                                                           *)
Settled(r) ==
  /\ off[r] <= Len(buffer[next[r]])
  /\ \/ call.by = r /\ call.left > 0
     \/ off[r] > 0
     \/ \A b \in Listed : next[r] <= b

AllSettled == \A r \in contexes \cap Readers : next[r] # NULL => Settled(r)

Whole ==
  /\ Authors /\ Complete /\ AllSound
  /\ KeysInStep /\ Exact /\ NothingMissed /\ AllSettled

LEMMA ModUnique ==
  ASSUME NEW L \in Nat, L > 0, NEW q \in Int, NEW s \in Nat, s < L
  PROVE  (q * L + s) % L = s
OBVIOUS

LEMMA Decompose ==
  ASSUME NEW L \in Nat, L > 0, NEW a \in Nat
  PROVE  /\ a = (a \div L) * L + (a % L) /\ a \div L \in Int
         /\ a % L \in Nat /\ a % L < L
OBVIOUS

(* An offset kept modulo the length of the key is as good as the offset.   *)
LEMMA ModAdd ==
  ASSUME NEW L \in Nat, L > 0, NEW a \in Nat, NEW b \in Nat
  PROVE  ((a % L) + b) % L = (a + b) % L
<1> DEFINE q == a \div L
           s == a % L
           p == (s + b) \div L
           t == (s + b) % L
<1>1. a = q * L + s /\ s \in Nat /\ q \in Int
  BY Decompose
<1> HIDE DEF q, s
<1>2. s + b = p * L + t /\ t \in Nat /\ t < L /\ p \in Int
  BY <1>1, Decompose
<1> HIDE DEF p, t
<1>3. a + b = (q + p) * L + t /\ q + p \in Int
  BY <1>1, <1>2
<1>4. (a + b) % L = t
  BY <1>2, <1>3, ModUnique
<1> QED
  BY <1>4 DEF s, t

LEMMA KeyFacts ==
  ASSUME TypeInv, cipher # <<>>, NEW a \in Nat, NEW n \in Nat
  PROVE  /\ KeyAfter(a % Len(cipher), n) = (a + n) % Len(cipher)
         /\ KeyAt((a % Len(cipher)) + n) = KeyAt(a + n)
<1>1. Len(cipher) \in Nat /\ Len(cipher) > 0
  <2>1. cipher \in Seq(STRING)
    BY DEF TypeInv, DataType
  <2> QED
    BY <2>1, LenProperties, EmptySeq
<1>2. ((a % Len(cipher)) + n) % Len(cipher) = (a + n) % Len(cipher)
  BY <1>1, ModAdd
<1> QED
  BY <1>2 DEF KeyAfter, KeyAt

(* Nothing that Whole speaks of changes, but the call of another.          *)
LEMMA WholeStands ==
  ASSUME Whole,
         UNCHANGED <<buckets, buffer, serial, keylast, cipher, contexes, next, off,
                     keyoff, totalwritten, got>>,
         \A r \in Readers : call.by = r /\ call.left > 0 /\ next[r] # NULL => UNCHANGED call
  PROVE  Whole'
<1>1. Authors' /\ Complete' /\ AllSound' /\ Exact' /\ NothingMissed'
  BY DEF Whole, Authors, Complete, AllSound, Sound, Exact, NothingMissed, KeyAt, Before
<1>2. KeysInStep'
  BY DEF Whole, KeysInStep
<1>3. AllSettled'
  BY DEF Whole, AllSettled, Settled, Listed
<1> QED
  BY <1>1, <1>2, <1>3 DEF Whole

LEMMA WholeInit == Init => Whole
<1> SUFFICES ASSUME Init PROVE Whole
  OBVIOUS
<1>1. /\ \A b \in Buckets : DOMAIN buffer[b] = {}
      /\ \A r \in Readers : DOMAIN got[r] = {} /\ Len(got[r]) = 0
  BY EmptyDomain, EmptySeq DEF Init
<1>2. /\ serial = 0 /\ keylast = 0 /\ contexes = {}
      /\ \A c \in Contexts : keyoff[c] = 0 /\ totalwritten[c] = 0
  BY DEF Init
<1>3. cipher # <<>> => 0 % Len(cipher) = 0
  <2>1. cipher \in Seq(STRING)
    BY CipherAssumption DEF Init
  <2>2. cipher # <<>> => Len(cipher) \in Nat /\ Len(cipher) > 0
    BY <2>1, LenProperties, EmptySeq
  <2> QED
    BY <2>2
<1>4. KeysInStep
  BY <1>1, <1>2, <1>3, Sizes DEF KeysInStep
<1>5. Authors /\ Complete /\ AllSound /\ Exact /\ NothingMissed /\ AllSettled
  BY <1>1, <1>2, Sizes DEF Authors, Complete, AllSound, Exact, NothingMissed, AllSettled
<1> QED
  BY <1>4, <1>5 DEF Whole

LEMMA WholeReset ==
  ASSUME TypeInv, TypeInv', Emptied, NEW c \in Contexts,
         NEW key \in Keys \cup {DEFAULTCIPHER}, ResetTo(c, key)
  PROVE  Whole'
<1>1. /\ Free(Listed) /\ next' = [k \in Contexts |-> NULL] /\ UNCHANGED contexes
      /\ keyoff' = [k \in Contexts |-> 0] /\ totalwritten' = [k \in Contexts |-> 0]
      /\ got' = [r \in Readers |-> <<>>]
      /\ serial' = 0 /\ keylast' = 0
  BY DEF ResetTo, FreeBuckets
<1>2. \A b \in Buckets : buffer'[b] = <<>>
  BY <1>1, FreeFacts DEF TypeInv, TypeOK, Emptied
<1>3. /\ \A b \in Buckets : DOMAIN buffer'[b] = {}
      /\ \A r \in Readers : DOMAIN got'[r] = {} /\ Len(got'[r]) = 0
  BY <1>1, <1>2, EmptyDomain, EmptySeq
<1>4. cipher' # <<>> => 0 % Len(cipher') = 0
  <2>1. cipher' \in Seq(STRING)
    BY DEF TypeInv, DataType
  <2>2. cipher' # <<>> => Len(cipher') \in Nat /\ Len(cipher') > 0
    BY <2>1, LenProperties, EmptySeq
  <2> QED
    BY <2>2
<1>5. KeysInStep'
  BY <1>1, <1>3, <1>4, Sizes DEF KeysInStep
<1>6. \A k \in Contexts : next'[k] = NULL /\ totalwritten'[k] = 0
  BY <1>1
<1>7. Authors' /\ Complete' /\ AllSound' /\ Exact' /\ NothingMissed' /\ AllSettled'
  BY <1>1, <1>3, <1>6, Sizes DEF Authors, Complete, AllSound, Exact, NothingMissed, AllSettled
<1> QED
  BY <1>5, <1>7 DEF Whole

(* cipher_open: a reader begins with the first byte there is, a writer     *)
(* with the offset the last one had.                                       *)
LEMMA HeadFacts ==
  ASSUME TypeInv, NEW b \in Listed
  PROVE  buckets # <<>> /\ Head(buckets) <= b
<1>1. PICK i \in DOMAIN buckets : buckets[i] = b
  BY DEF Listed
<1>2. DOMAIN buckets = 1 .. Len(buckets) /\ Len(buckets) \in Nat /\ buckets # <<>>
  BY <1>1, ListedFacts, EmptyDomain
<1>3. buckets \in Seq(Buckets) /\ Head(buckets) = buckets[1] /\ 1 \in DOMAIN buckets
  <2>1. buckets \in Seq(Buckets)
    BY DEF TypeInv, TypeOK
  <2> QED
    BY <1>1, <1>2, <2>1, HeadTailProperties
<1>4. b \in Nat /\ (1 < i => buckets[1] < b) /\ buckets[1] \in Nat
  BY <1>1, <1>2, <1>3, ListedFacts, Sizes DEF TypeInv, Ordered
<1> QED
  BY <1>1, <1>2, <1>3, <1>4

LEMMA WholeOpen ==
  ASSUME TypeInv, StreamInv, Whole, NEW c \in Contexts, Open(c)
  PROVE  Whole'
<1>0. /\ Authors /\ Complete /\ AllSound /\ KeysInStep /\ Exact
      /\ NothingMissed /\ AllSettled /\ Emptied
  BY DEF Whole, StreamInv
<1>1. /\ c \notin contexes /\ contexes' = contexes \cup {c}
      /\ call = NoCall /\ UNCHANGED call
      /\ UNCHANGED <<buckets, buffer, serial, keylast, cipher, totalwritten, got>>
  BY DEF Open, Quiet, history
<1>2. PICK b, o, k :
        /\ next' = [next EXCEPT ![c] = b] /\ off' = [off EXCEPT ![c] = o]
        /\ keyoff' = [keyoff EXCEPT ![c] = k]
        /\ \/ b = NULL /\ k = 0
           \/ buckets # <<>> /\ c \in Readers /\ b = Head(buckets) /\ o = 0 /\ k = 0
           \/ c \in Writers /\ k = keylast /\ b \in Nat
  <2>1. \/ OpenAt(c, NULL, 0, 0)
        \/ buckets # <<>> /\ c \in Readers /\ OpenAt(c, Head(buckets), 0, keyfirst)
        \/ /\ c \in Writers /\ buckets # <<>>
           /\ OpenAt(c, buckets[Len(buckets)], Len(buffer[buckets[Len(buckets)]]), keylast)
    BY DEF Open
  <2>2. buckets # <<>> => buckets[Len(buckets)] \in Nat
    BY ListedFacts, Sizes
  <2> QED
    BY <2>1, <2>2 DEF OpenAt, keyfirst
<1>3. /\ next'[c] = b /\ off'[c] = o /\ keyoff'[c] = k
      /\ \A d \in Contexts : d # c => /\ next'[d] = next[d] /\ off'[d] = off[d]
                                      /\ keyoff'[d] = keyoff[d]
  BY <1>2, TypeParts DEF ListType, NumberType
<1>4. Authors'
  <2>1. \A w \in Writers : totalwritten[w] > 0 => w # c
    BY <1>0, <1>1 DEF Authors
  <2> QED
    BY <1>0, <1>1, <1>3, <2>1, Sizes DEF Authors
<1>5. Complete' /\ AllSound' /\ Exact'
  BY <1>0, <1>1 DEF Complete, AllSound, Sound, Exact, KeyAt
<1>6. c \in Readers => got[c] = <<>> /\ Len(got[c]) = 0
  BY <1>0, <1>1, EmptySeq DEF Emptied
<1>7. KeysInStep'
  <2>0. cipher # <<>> => 0 % Len(cipher) = 0
    <3>1. cipher # <<>> => Len(cipher) \in Nat /\ Len(cipher) > 0
      BY LenProperties, EmptySeq DEF TypeInv, DataType
    <3> QED
      BY <3>1
  <2>1. c \in Readers => k = 0
    BY <1>2, Sizes
  <2>2. ASSUME c \in Writers, totalwritten[c] > 0 \/ serial = 0 PROVE k = 0 /\ serial = 0
    <3>1. ~(totalwritten[c] > 0)
      BY <1>0, <1>1, <2>2 DEF Authors
    <3> QED
      BY <1>0, <1>2, <2>2, <3>1, Sizes DEF KeysInStep
  <2>3. UNCHANGED <<serial, keylast, cipher, totalwritten, got>>
    BY <1>1
  <2>4. ASSUME cipher # <<>>, NEW w \in Writers, totalwritten[w] > 0 \/ serial = 0
        PROVE  keyoff'[w] = serial % Len(cipher)
    BY <1>0, <1>3, <2>0, <2>2, <2>4, Sizes DEF KeysInStep
  <2>5. ASSUME cipher # <<>>, NEW r \in Readers PROVE keyoff'[r] = Len(got[r]) % Len(cipher)
    BY <1>0, <1>3, <1>6, <2>0, <2>1, <2>5, Sizes DEF KeysInStep
  <2>6. serial = 0 => keylast = 0
    BY <1>0 DEF KeysInStep
  <2> QED
    BY <2>3, <2>4, <2>5, <2>6 DEF KeysInStep
<1>8. NothingMissed'
  <2>1. ASSUME c \in Readers, b # NULL, NEW x \in Buckets, NEW i \in DOMAIN buffer[x]
        PROVE  Before(b, o, x, i) /\ buffer[x][i].n > 0
    <3>0. buffer[x][i].n > 0
      BY <1>0 DEF AllSound, Sound
    <3>1. x \in Listed
      BY <1>0, EmptyDomain DEF Emptied
    <3>2. b = Head(buckets) /\ o = 0 /\ b \in Nat
      BY <1>2, <2>1, ListedFacts, Sizes
    <3>3. b <= x /\ i \in Nat /\ i > 0 /\ x \in Nat
      BY <3>1, <3>2, HeadFacts, ByteFacts
    <3> QED
      BY <3>0, <3>2, <3>3 DEF Before
  <2>2. ASSUME NEW q \in contexes' \cap Readers, next'[q] # NULL,
               NEW x \in Buckets, NEW i \in DOMAIN buffer[x]
        PROVE  buffer[x][i].n > Len(got[q]) <=> Before(next'[q], off'[q], x, i)
    <3>1. CASE q = c
      BY <1>3, <1>6, <2>1, <2>2, <3>1
    <3>2. CASE q # c
      <4>1. q \in contexes \cap Readers /\ next'[q] = next[q] /\ off'[q] = off[q]
        BY <1>1, <1>3, <2>2, <3>2, Sizes
      <4> QED
        BY <1>0, <2>2, <4>1 DEF NothingMissed
    <3> QED
      BY <3>1, <3>2
  <2> QED
    BY <1>1, <2>2 DEF NothingMissed, Before
<1>9. AllSettled'
  <2>1. ASSUME c \in Readers, b # NULL
        PROVE  o <= Len(buffer[b]) /\ \A x \in Listed : b <= x
    <3>1. b = Head(buckets) /\ o = 0 /\ b \in Buckets
      BY <1>2, <2>1, ListedFacts, Sizes
    <3>2. Len(buffer[b]) \in Nat
      BY <3>1, BufferFacts
    <3> QED
      BY <3>1, <3>2, HeadFacts
  <2>2. \A d \in contexes : d # c /\ d \in Contexts
    BY <1>1 DEF TypeInv, TypeOK
  <2> QED
    BY <1>0, <1>1, <1>3, <2>1, <2>2, Sizes DEF AllSettled, Settled, Listed
<1> QED
  BY <1>4, <1>5, <1>7, <1>8, <1>9 DEF Whole

(* A reader that passes a bucket has all there is in it.  Freeing one ends *)
(* the run, or leaves the list empty, and then nobody wrote yet.           *)
LEMMA WholePass ==
  ASSUME TypeInv, Held', StreamInv, Whole, mishaps' = {}, fault' = "none",
         NEW r \in Readers, PassBucket(r)
  PROVE  Whole'
<1>0. /\ Authors /\ Complete /\ AllSound /\ KeysInStep /\ Exact
      /\ NothingMissed /\ AllSettled /\ Emptied
  BY DEF Whole, StreamInv
<1>1. PICK b : b = next[r]
  OBVIOUS
<1>2. /\ b \in Listed /\ b \in Buckets /\ b \in Nat /\ r \in contexes
      /\ UNCHANGED <<contexes, got, serial, keylast, cipher, keyoff, totalwritten, call>>
      /\ call.by = r /\ call.left > 0
      /\ off' = [off EXCEPT ![r] = 0]
      /\ Listed' = Listed \ (IF refcount[b] = 1 THEN {b} ELSE {})
      /\ \A x \in Buckets : buffer'[x] = IF x \in Listed \ Listed' THEN <<>> ELSE buffer[x]
      /\ next' = [next EXCEPT ![r] = IF refcount[b] = 1 THEN NULL ELSE After(b)]
  <2>1. /\ UNCHANGED <<serial, keylast, cipher, keyoff, totalwritten, call>>
        /\ call.by = r /\ call.left > 0
    BY DEF PassBucket, Reading, history
  <2> QED
    BY <1>1, <2>1, PassFacts, ListedFacts, Sizes
<1>3. /\ off'[r] = 0 /\ next'[r] = IF refcount[b] = 1 THEN NULL ELSE After(b)
      /\ \A c \in Contexts : c # r => next'[c] = next[c] /\ off'[c] = off[c]
      /\ \A c \in contexes : c \in Contexts
  BY <1>2, Sizes, NextFacts DEF TypeInv, TypeOK
<1>4. Exact' /\ KeysInStep'
  <2>1. UNCHANGED <<got, serial, keylast, cipher, keyoff, totalwritten>>
    BY <1>2
  <2>2. Exact'
    BY <1>0, <2>1 DEF Exact
  <2>3. KeysInStep'
    BY <1>0, <2>1 DEF KeysInStep
  <2> QED
    BY <2>2, <2>3
<1>5. Authors'
  <2>1. \A x \in Buckets : \A i \in DOMAIN buffer'[x] : i \in DOMAIN buffer[x] /\ buffer'[x] = buffer[x]
    BY <1>2, EmptyDomain
  <2>2. \A w \in Writers : w # r /\ next'[w] = next[w]
    BY <1>3, Sizes
  <2>3. UNCHANGED <<contexes, serial, totalwritten>>
    BY <1>2
  <2>4. \A w \in Writers : totalwritten'[w] > 0 => w \in contexes' /\ next'[w] # NULL
    BY <1>0, <2>2, <2>3 DEF Authors
  <2>5. serial' > 0 => \E w \in Writers : totalwritten'[w] > 0
    BY <1>0, <2>3 DEF Authors
  <2>6. \A x \in Buckets : \A i \in DOMAIN buffer'[x] : totalwritten'[buffer'[x][i].by] > 0
    BY <1>0, <2>1, <2>3 DEF Authors
  <2> QED
    BY <2>4, <2>5, <2>6 DEF Authors
<1>6. CASE refcount[b] = 1
  <2>1. Listed' = {}
    <3>1. buckets' = <<>>
      BY <1>1, <1>6 DEF PassBucket
    <3> QED
      BY <3>1, EmptyDomain DEF Listed
  <2>2. \A c \in contexes : next'[c] = NULL
    BY <1>2, <2>1 DEF Held, Mild
  <2>3. serial = 0
    <3>1. ~(serial > 0)
      BY <1>2, <1>5, <2>2 DEF Authors
    <3> QED
      BY <3>1, NumberFacts
  <2>4. \A x \in Buckets : DOMAIN buffer'[x] = {}
    <3>1. ASSUME NEW x \in Buckets, NEW i \in DOMAIN buffer[x] PROVE FALSE
      <4>1. buffer[x][i].n > 0 /\ buffer[x][i].n <= serial /\ buffer[x][i].n \in Nat
        BY <1>0, ByteFacts DEF AllSound, Sound, StreamInv, Numbered
      <4> QED
        BY <2>3, <4>1
    <3> QED
      BY <1>2, <3>1, EmptyDomain
  <2> QED
    BY <1>2, <1>4, <1>5, <2>2, <2>3, <2>4
       DEF Whole, Complete, AllSound, NothingMissed, AllSettled
<1>7. CASE refcount[b] # 1
  <2>1. Listed' = Listed /\ \A x \in Buckets : buffer'[x] = buffer[x]
    BY <1>2, <1>7
  <2>2. Complete' /\ AllSound'
    BY <1>0, <1>2, <2>1 DEF Complete, AllSound, Sound, KeyAt
  <2>3. next'[r] = After(b) /\ \A x \in Listed : x > b => After(b) # NULL /\ After(b) <= x
    BY <1>2, <1>3, <1>7, AfterFacts DEF TypeInv, TypeOK
  <2>4. After(b) \in Nat /\ (After(b) # NULL => After(b) \in Buckets)
    <3>1. After(b) \in Listed \cup {NULL}
      BY <1>2, AfterFacts DEF TypeInv, TypeOK
    <3> QED
      BY <3>1, ListedFacts, Sizes
  <2>5. NothingMissed'
    <3>0. ASSUME After(b) # NULL, NEW x \in Buckets, NEW i \in DOMAIN buffer[x],
                 Before(After(b), 0, x, i)
          PROVE  buffer[x][i].n > Len(got[r])
      <4>1. After(b) > b
        BY <1>2, <3>0, AfterFacts DEF TypeInv, TypeOK
      <4>2. Before(b, off[r], x, i)
        BY <1>2, <2>4, <3>0, <4>1, Sizes DEF Before
      <4> QED
        BY <1>0, <1>1, <1>2, <4>2, ListedFacts DEF NothingMissed
    <3>1. ASSUME After(b) # NULL, NEW x \in Buckets, NEW i \in DOMAIN buffer[x],
                 buffer[x][i].n > Len(got[r])
          PROVE  Before(After(b), 0, x, i)
      <4>1. Before(b, off[r], x, i)
        BY <1>0, <1>1, <1>2, <3>1, ListedFacts DEF NothingMissed
      <4>2. Len(buffer[b]) <= off[r]
        <5>1. Available(r) <= 0 /\ Len(buffer[b]) \in Nat /\ off[r] \in Nat
          BY <1>2, BufferFacts, NumberFacts, Sizes DEF PassBucket
        <5> QED
          BY <1>1, <5>1 DEF Available
      <4>3. i \in 1 .. Len(buffer[x]) /\ i \in Nat /\ x \in Nat /\ Len(buffer[b]) \in Nat
        BY <1>2, ByteFacts, BufferFacts
      <4>4. x > b
        BY <1>2, <4>1, <4>2, <4>3, NumberFacts, Sizes DEF Before
      <4>5. x \in Listed
        BY <1>0, EmptyDomain DEF Emptied
      <4>6. After(b) <= x
        BY <2>3, <4>4, <4>5
      <4> QED
        BY <2>4, <4>3, <4>6 DEF Before
    <3>2. \A q \in contexes \cap Readers : q = r \/ (next'[q] = next[q] /\ off'[q] = off[q])
      BY <1>3
    <3>3. ASSUME NEW q \in contexes \cap Readers, next'[q] # NULL,
                 NEW x \in Buckets, NEW i \in DOMAIN buffer[x]
          PROVE  buffer[x][i].n > Len(got[q]) <=> Before(next'[q], off'[q], x, i)
      <4>1. CASE q = r
        BY <1>3, <2>3, <3>0, <3>1, <3>3, <4>1
      <4>2. CASE q # r
        BY <1>0, <3>2, <3>3, <4>2 DEF NothingMissed
      <4> QED
        BY <4>1, <4>2
    <3> QED
      BY <1>2, <2>1, <3>3 DEF NothingMissed, Before
  <2>6. AllSettled'
    <3>1. ASSUME After(b) # NULL PROVE 0 <= Len(buffer[After(b)])
      BY <2>4, <3>1, BufferFacts
    <3>2. ASSUME NEW q \in contexes \cap Readers, next'[q] # NULL PROVE Settled(q)'
      <4>1. CASE q = r
        <5>1. next'[q] \in Buckets /\ next'[q] = After(b) /\ off'[q] = 0
          BY <1>3, <2>3, <2>4, <3>2, <4>1
        <5> QED
          BY <1>2, <2>1, <3>1, <3>2, <4>1, <5>1 DEF Settled
      <4>2. CASE q # r
        <5>1. next'[q] = next[q] /\ off'[q] = off[q] /\ Settled(q)
          BY <1>0, <1>3, <3>2, <4>2 DEF AllSettled
        <5>2. next[q] \in Buckets
          BY <3>2, <5>1, NextFacts, Sizes
        <5> QED
          BY <1>2, <2>1, <5>1, <5>2 DEF Settled
      <4> QED
        BY <4>1, <4>2
    <3> QED
      BY <1>2, <3>2 DEF AllSettled
  <2> QED
    BY <1>4, <1>5, <2>2, <2>5, <2>6 DEF Whole
<1> QED
  BY <1>6, <1>7

(* The new bucket comes last and is empty.                                 *)
LEMMA WholeAdd ==
  ASSUME TypeInv, StreamInv, Whole, NEW w \in Writers, AddBucket(w)
  PROVE  Whole'
<1>0. /\ Authors /\ Complete /\ AllSound /\ KeysInStep /\ Exact
      /\ NothingMissed /\ AllSettled
  BY DEF Whole
<1>1. /\ Listed' = Listed \cup {allocated + 1} /\ allocated + 1 # NULL
      /\ w \in contexes /\ next'[w] = allocated + 1
      /\ UNCHANGED <<contexes, got, serial, buffer, keylast, cipher, keyoff, totalwritten, call>>
      /\ \A k \in Contexts : k # w => next'[k] = next[k] /\ off'[k] = off[k]
  <2>1. UNCHANGED <<keylast, cipher, keyoff, totalwritten, call>>
    BY DEF AddBucket
  <2> QED
    BY <2>1, AddFacts, Sizes
<1>2. \A r \in Readers : next'[r] = next[r] /\ off'[r] = off[r] /\ next[r] <= allocated + 1
  BY <1>1, Sizes, NextFacts, NumberFacts
<1>3. Authors' /\ Complete' /\ AllSound' /\ KeysInStep' /\ Exact' /\ NothingMissed'
  <2>1. Authors'
    <3>1. \A v \in Writers : totalwritten[v] > 0 => next'[v] # NULL
      BY <1>0, <1>1, Sizes DEF Authors
    <3> QED
      BY <1>0, <1>1, <3>1 DEF Authors
  <2>2. Complete' /\ AllSound' /\ Exact'
    BY <1>0, <1>1 DEF Complete, AllSound, Sound, Exact, KeyAt
  <2>3. KeysInStep'
    BY <1>0, <1>1 DEF KeysInStep
  <2>4. NothingMissed'
    BY <1>0, <1>1, <1>2 DEF NothingMissed, Before
  <2> QED
    BY <2>1, <2>2, <2>3, <2>4
<1>4. AllSettled'
  BY <1>0, <1>1, <1>2 DEF AllSettled, Settled
<1> QED
  BY <1>3, <1>4 DEF Whole

(* What a reader is handed are the next bytes: one that it has not got and *)
(* that is smaller would lie before it, and yet behind in the stream.      *)
LEMMA WholeGet ==
  ASSUME TypeInv, StreamInv, Alone, Whole, NEW r \in Readers, CopyToUser(r)
  PROVE  Whole'
<1>0. /\ Authors /\ Complete /\ AllSound /\ KeysInStep /\ Exact
      /\ NothingMissed /\ AllSettled /\ InStream /\ Numbered
  BY DEF Whole, StreamInv
<1>p. PICK m \in Nat, new \in Seq(ReadByte) : HandsOut(r, m, new)
  BY CopyToFacts
<1>1. PICK b, o, L, k0 : b = next[r] /\ o = off[r] /\ L = Len(got[r]) /\ k0 = keyoff[r]
  OBVIOUS
<1>2. /\ m \in Nat /\ new \in Seq(ReadByte) /\ m > 0 /\ Len(new) = m
      /\ b \in Listed /\ r \in contexes /\ cipher # <<>>
      /\ o + m <= Len(buffer[b])
      /\ \A i \in 1 .. m : /\ o + i \in DOMAIN buffer[b]
                           /\ new[i].n = buffer[b][o + i].n
                           /\ new[i].right = (buffer[b][o + i].key = KeyAt(k0 + i - 1))
      /\ got' = [got EXCEPT ![r] = @ \o new]
      /\ off' = [off EXCEPT ![r] = o + m]
      /\ keyoff' = [keyoff EXCEPT ![r] = KeyAfter(k0, m)]
      /\ UNCHANGED <<buckets, buffer, keylast, cipher, contexes, next, totalwritten, serial>>
  BY <1>p, <1>1 DEF HandsOut, device
<1>3. /\ b \in Buckets /\ b \in Nat /\ b # NULL /\ o \in Nat /\ L \in Nat /\ serial \in Nat
      /\ Len(buffer[b]) \in Nat
  <2>1. b \in Buckets /\ b \in Nat /\ b # NULL
    BY <1>2, ListedFacts, Sizes
  <2>2. o \in Nat /\ L \in Nat /\ serial \in Nat
    BY <1>1, NumberFacts, GotFacts, Sizes
  <2>3. Len(buffer[b]) \in Nat
    BY <2>1, BufferFacts
  <2> QED
    BY <2>1, <2>2, <2>3
<1>4. /\ \A q \in Readers : q # r => got'[q] = got[q]
      /\ got'[r] = got[r] \o new
      /\ off'[r] = o + m /\ keyoff'[r] = KeyAfter(k0, m)
      /\ \A c \in Contexts : c # r => off'[c] = off[c] /\ keyoff'[c] = keyoff[c]
      /\ \A c \in contexes : c \in Contexts
  BY <1>2, Sizes DEF TypeInv, TypeOK, DataType
<1>5. /\ DOMAIN got[r] = 1 .. L /\ DOMAIN got'[r] = 1 .. L + m /\ Len(got'[r]) = L + m
      /\ \A i \in 1 .. L : got'[r][i] = got[r][i]
      /\ \A i \in 1 .. m : got'[r][L + i] = new[i]
  <2>1. got[r] \in Seq(ReadByte) /\ DOMAIN got[r] = 1 .. L /\ L = Len(got[r])
    BY <1>1, GotFacts
  <2>2. /\ got[r] \o new \in Seq(ReadByte) /\ Len(got[r] \o new) = L + m
        /\ \A i \in 1 .. L + m : (got[r] \o new)[i] =
             IF i <= L THEN got[r][i] ELSE new[i - L]
    <3>1. new \in Seq(ReadByte) /\ Len(new) = m
      BY <1>2
    <3> QED
      BY ONLY <2>1, <3>1, ConcatProperties
  <2>3. DOMAIN (got[r] \o new) = 1 .. L + m
    BY <2>2, LenProperties
  <2>4. \A i \in 1 .. m : (got[r] \o new)[L + i] = new[i]
    <3>1. \A i \in 1 .. m : L + i \in 1 .. L + m /\ ~(L + i <= L) /\ (L + i) - L = i
      BY <1>2, <1>3
    <3> QED
      BY <2>2, <3>1
  <2>5. \A i \in 1 .. L : (got[r] \o new)[i] = got[r][i]
    BY <1>2, <1>3, <2>2
  <2> QED
    BY <1>4, <2>1, <2>2, <2>3, <2>4, <2>5
<1>6. \A i \in 1 .. L + m : i \in 1 .. L \/ \E j \in 1 .. m : i = L + j
  <2>1. \A i \in 1 .. L + m : i \in 1 .. L \/ (i - L \in 1 .. m /\ i = L + (i - L))
    BY <1>2, <1>3
  <2> QED
    BY <2>1
(* One writer wrote everything.                                            *)
<1>7. ASSUME NEW x \in Buckets, NEW y \in Buckets, NEW i \in DOMAIN buffer[x],
             NEW j \in DOMAIN buffer[y], Before(x, i, y, j)
      PROVE  buffer[x][i].n < buffer[y][j].n
  <2>1. buffer[x][i].by \in Writers /\ buffer[y][j].by \in Writers
    BY ByteFacts
  <2>2. buffer[x][i].by = buffer[y][j].by
    BY <1>0, <2>1 DEF Authors, Alone
  <2> QED
    BY <1>0, <1>7, <2>2 DEF InStream
(* The first byte handed out is the next.                                  *)
<1>8. buffer[b][o + 1].n = L + 1
  <2>1. /\ 1 \in 1 .. m /\ o + 1 \in DOMAIN buffer[b]
        /\ buffer[b][o + 1].n \in Nat /\ buffer[b][o + 1].n > 0
        /\ buffer[b][o + 1].n <= serial
    BY <1>0, <1>2, <1>3, ByteFacts DEF AllSound, Sound, Numbered
  <2>2. buffer[b][o + 1].n > L
    <3>1. Before(b, o, b, o + 1)
      BY <1>3 DEF Before
    <3> QED
      BY <1>0, <1>1, <1>2, <1>3, <2>1, <3>1 DEF NothingMissed
  <2>3. ASSUME buffer[b][o + 1].n > L + 1 PROVE FALSE
    <3>1. L + 1 \in 1 .. serial
      BY <1>3, <2>1, <2>3
    <3>2. PICK x \in Buckets : \E i \in DOMAIN buffer[x] : buffer[x][i].n = L + 1
      BY <1>0, <3>1 DEF Complete
    <3>3. PICK i \in DOMAIN buffer[x] : buffer[x][i].n = L + 1
      BY <3>2
    <3>4. Before(b, o, x, i)
      <4>1. buffer[x][i].n > L
        BY <1>3, <3>3
      <4> QED
        BY <1>0, <1>1, <1>2, <1>3, <4>1 DEF NothingMissed
    <3>5. x \in Nat /\ i \in Nat
      BY ByteFacts
    <3>6. Before(b, o + 1, x, i) \/ (b = x /\ i = o + 1)
      BY <1>3, <3>4, <3>5 DEF Before
    <3>7. ~(b = x /\ i = o + 1)
      BY <1>3, <2>3, <3>3
    <3>8. buffer[b][o + 1].n < buffer[x][i].n
      BY <1>3, <1>7, <2>1, <3>6, <3>7
    <3> QED
      BY <1>3, <2>1, <2>3, <3>3, <3>8
  <2> QED
    BY <1>3, <2>1, <2>2, <2>3
(* And so are the others, which follow it in the bucket.                   *)
<1>9. \A i \in 1 .. m : buffer[b][o + i].n = L + i /\ buffer[b][o + i].n \in Nat
  <2> TAKE i \in 1 .. m
  <2>1. o + i \in DOMAIN buffer[b] /\ o + 1 \in DOMAIN buffer[b] /\ i \in Nat
    BY <1>2
  <2>2. /\ buffer[b][o + i].n = buffer[b][1].n + (o + i) - 1
        /\ buffer[b][o + 1].n = buffer[b][1].n + (o + 1) - 1
    BY <1>0, <1>3, <2>1 DEF AllSound, Sound
  <2>3. 1 \in DOMAIN buffer[b]
    <3>1. DOMAIN buffer[b] = 1 .. Len(buffer[b])
      BY <1>3, BufferFacts, LenProperties
    <3> QED
      BY <1>2, <1>3, <2>1, <3>1
  <2>4. buffer[b][1].n \in Nat
    BY <1>3, <2>3, ByteFacts
  <2>5. PICK a, x, y : /\ a \in Nat /\ a = buffer[b][1].n
                       /\ x = buffer[b][o + i].n /\ y = buffer[b][o + 1].n
    BY <2>4
  <2>6. /\ x = a + (o + i) - 1 /\ y = a + (o + 1) - 1 /\ y = L + 1
        /\ a \in Nat /\ i \in Nat /\ o \in Nat /\ L \in Nat
    BY <1>3, <1>8, <2>1, <2>2, <2>5
  <2>7. x = L + i
    BY ONLY <2>6
  <2> QED
    BY <1>3, <2>1, <2>5, <2>7
<1>10. Exact'
  <2>1. ASSUME NEW i \in 1 .. m PROVE new[i].n = L + i /\ new[i].right
    <3>1. /\ buffer[b][o + i].key = KeyAt(L + (i - 1))
          /\ i - 1 \in Nat
      <4>1. buffer[b][o + i].key = KeyAt(buffer[b][o + i].n - 1)
        BY <1>0, <1>2, <1>3 DEF AllSound, Sound
      <4>2. buffer[b][o + i].n - 1 = L + (i - 1)
        <5>1. buffer[b][o + i].n = L + i /\ L \in Nat /\ i \in Nat
          BY <1>2, <1>3, <1>9
        <5> QED
          BY ONLY <5>1
      <4> QED
        BY <4>1, <4>2
    <3>2. k0 = L % Len(cipher)
      BY <1>0, <1>1, <1>2 DEF KeysInStep
    <3>3. KeyAt(k0 + (i - 1)) = KeyAt(L + (i - 1))
      BY <1>2, <1>3, <3>1, <3>2, KeyFacts
    <3>4. k0 \in Nat /\ k0 + i - 1 = k0 + (i - 1)
      <4>1. k0 \in Nat
        BY <1>1, NumberFacts, Sizes
      <4> QED
        BY <4>1
    <3> QED
      BY <1>2, <1>9, <3>1, <3>3, <3>4
  <2>2. ASSUME NEW i \in 1 .. L PROVE got'[r][i].n = i /\ got'[r][i].right
    <3>1. got[r][i].n = i /\ got[r][i].right
      BY <1>0, <1>5, Zenon DEF Exact
    <3>2. got'[r][i] = got[r][i]
      BY <1>5
    <3> QED
      BY <3>1, <3>2, Zenon
  <2>3. ASSUME NEW i \in DOMAIN got'[r] PROVE got'[r][i].n = i /\ got'[r][i].right
    <3>1. CASE i \in 1 .. L
      BY <2>2, <3>1
    <3>2. ASSUME NEW j \in 1 .. m, i = L + j PROVE got'[r][i].n = i /\ got'[r][i].right
      <4>1. got'[r][i] = new[j]
        BY <1>5, <3>2
      <4> QED
        BY <2>1, <3>2, <4>1, Zenon
    <3> QED
      BY <1>5, <1>6, <3>1, <3>2
  <2>4. ASSUME NEW q \in Readers, NEW i \in DOMAIN got'[q]
        PROVE  got'[q][i].n = i /\ got'[q][i].right
    <3>1. CASE q = r
      BY <2>3, <3>1, Zenon
    <3>2. CASE q # r
      <4>1. i \in DOMAIN got[q] /\ got'[q][i] = got[q][i]
        BY <1>4, <2>4, <3>2
      <4>2. got[q][i].n = i /\ got[q][i].right
        BY <1>0, <4>1, Zenon DEF Exact
      <4> QED
        BY <4>1, <4>2, Zenon
    <3> QED
      BY <3>1, <3>2
  <2> QED
    BY <2>4, Zenon DEF Exact
<1>11. KeysInStep'
  <2>1. keyoff'[r] = Len(got'[r]) % Len(cipher)
    <3>1. k0 = L % Len(cipher)
      BY <1>0, <1>1, <1>2 DEF KeysInStep
    <3>2. KeyAfter(L % Len(cipher), m) = (L + m) % Len(cipher)
      BY <1>2, <1>3, KeyFacts
    <3> QED
      BY <1>4, <1>5, <3>1, <3>2
  <2>2. \A w \in Writers : keyoff'[w] = keyoff[w]
    BY <1>4, Sizes
  <2> QED
    BY <1>0, <1>2, <1>4, <2>1, <2>2, Sizes DEF KeysInStep
<1>12. Authors' /\ Complete' /\ AllSound'
  BY <1>0, <1>2 DEF Authors, Complete, AllSound, Sound, KeyAt
<1>13. NothingMissed'
  <2>1. ASSUME NEW x \in Buckets, NEW i \in DOMAIN buffer[x], buffer[x][i].n > L + m
        PROVE  Before(b, o + m, x, i)
    <3>1. buffer[x][i].n \in Nat /\ x \in Nat /\ i \in Nat
      BY ByteFacts
    <3>2. Before(b, o, x, i)
      <4>1. buffer[x][i].n > L
        BY <1>2, <1>3, <2>1, <3>1
      <4> QED
        BY <1>0, <1>1, <1>2, <1>3, <4>1 DEF NothingMissed
    <3>3. ASSUME x = b, i <= o + m PROVE FALSE
      <4>1. i - o \in 1 .. m /\ o + (i - o) = i
        BY <1>2, <1>3, <3>1, <3>2, <3>3 DEF Before
      <4>2. buffer[b][i].n = L + (i - o)
        BY <1>9, <4>1
      <4> QED
        BY <1>2, <1>3, <2>1, <3>3, <4>1, <4>2
    <3> QED
      BY <1>2, <1>3, <3>1, <3>2, <3>3 DEF Before
  <2>2. ASSUME NEW x \in Buckets, NEW i \in DOMAIN buffer[x], Before(b, o + m, x, i)
        PROVE  buffer[x][i].n > L + m
    <3>1. buffer[x][i].n \in Nat
      BY ByteFacts
    <3>2. m \in 1 .. m /\ o + m \in DOMAIN buffer[b]
      BY <1>2
    <3>3. buffer[b][o + m].n = L + m /\ buffer[b][o + m].n < buffer[x][i].n
      BY <1>3, <1>7, <1>9, <2>2, <3>2
    <3> QED
      BY <1>2, <1>3, <3>1, <3>3
  <2>3. ASSUME NEW q \in contexes \cap Readers, next[q] # NULL,
               NEW x \in Buckets, NEW i \in DOMAIN buffer[x]
        PROVE  buffer[x][i].n > Len(got'[q]) <=> Before(next[q], off'[q], x, i)
    <3>1. CASE q = r
      BY <1>1, <1>4, <1>5, <2>1, <2>2, <3>1
    <3>2. CASE q # r
      BY <1>0, <1>4, <2>3, <3>2 DEF NothingMissed
    <3> QED
      BY <3>1, <3>2
  <2> QED
    BY <1>2, <2>3 DEF NothingMissed, Before
<1>14. AllSettled'
  <2>1. ASSUME NEW q \in contexes \cap Readers, next[q] # NULL PROVE Settled(q)'
    <3>1. CASE q = r
      <4>1. off'[q] = o + m /\ o + m > 0 /\ next'[q] = b /\ buffer' = buffer
        BY <1>1, <1>2, <1>3, <1>4, <3>1
      <4> QED
        BY <1>2, <4>1 DEF Settled
    <3>2. CASE q # r
      <4>1. off'[q] = off[q] /\ Settled(q) /\ call.by # q
        BY <1>0, <1>4, <1>p, <2>1, <3>2 DEF AllSettled, HandsOut
      <4> QED
        BY <1>2, <4>1 DEF Settled, Listed
    <3> QED
      BY <3>1, <3>2
  <2> QED
    BY <1>2, <2>1 DEF AllSettled
<1> QED
  BY <1>10, <1>11, <1>12, <1>13, <1>14 DEF Whole

(* A writer stores the next bytes behind the last byte there is, and no    *)
(* reader has come past the place.                                         *)
LEMMA WholePut ==
  ASSUME TypeInv, StreamInv, Alone, Alone', Whole, NEW w \in Writers, CopyFromUser(w)
  PROVE  Whole'
<1>0. /\ Authors /\ Complete /\ AllSound /\ KeysInStep /\ Exact
      /\ NothingMissed /\ AllSettled /\ InStream /\ Numbered /\ Ahead /\ Emptied
  BY DEF Whole, StreamInv
<1>p. PICK m \in Nat, new \in Seq(Byte) : Stores(w, m, new)
  BY CopyFromFacts
<1>1. PICK b, k0 : b = next[w] /\ k0 = keyoff[w]
  OBVIOUS
<1>2. /\ m \in Nat /\ new \in Seq(Byte) /\ m > 0 /\ Len(new) = m
      /\ b \in Listed /\ w \in contexes /\ cipher # <<>>
      /\ \A i \in 1 .. m : new[i].n = serial + i /\ new[i].by = w
      /\ \A i \in 1 .. m : new[i].key = KeyAt(k0 + i - 1)
      /\ buffer' = [buffer EXCEPT ![b] = @ \o new]
      /\ keyoff' = [keyoff EXCEPT ![w] = KeyAfter(k0, m)]
      /\ totalwritten' = [totalwritten EXCEPT ![w] = @ + m]
      /\ serial' = serial + m
      /\ UNCHANGED <<buckets, cipher, contexes, next, off, got>>
  BY <1>p, <1>1 DEF Stores
<1>3. /\ b \in Buckets /\ b \in Nat /\ b # NULL /\ serial \in Nat /\ k0 \in Nat
      /\ totalwritten[w] \in Nat
  BY <1>1, <1>2, ListedFacts, NumberFacts, Sizes
<1>4. /\ \A x \in Buckets : x # b => buffer'[x] = buffer[x]
      /\ buffer'[b] = buffer[b] \o new
      /\ keyoff'[w] = KeyAfter(k0, m)
      /\ totalwritten'[w] = totalwritten[w] + m /\ totalwritten'[w] > 0
      /\ \A c \in Contexts : c # w => keyoff'[c] = keyoff[c] /\ totalwritten'[c] = totalwritten[c]
      /\ \A c \in contexes : c \in Contexts
  <2>1. /\ \A x \in Buckets : x # b => buffer'[x] = buffer[x]
        /\ buffer'[b] = buffer[b] \o new
    BY <1>2, <1>3 DEF TypeInv, DataType
  <2>2. /\ keyoff'[w] = KeyAfter(k0, m) /\ totalwritten'[w] = totalwritten[w] + m
        /\ \A c \in Contexts : c # w => keyoff'[c] = keyoff[c] /\ totalwritten'[c] = totalwritten[c]
        /\ \A c \in contexes : c \in Contexts
    BY <1>2, Sizes DEF TypeInv, TypeOK
  <2>3. totalwritten[w] + m > 0
    BY <1>2, <1>3
  <2> QED
    BY <2>1, <2>2, <2>3
<1>5. PICK L \in Nat : L = Len(buffer[b])
  BY <1>3, BufferFacts
<1>6. /\ DOMAIN buffer[b] = 1 .. L
      /\ DOMAIN buffer'[b] = 1 .. L + m /\ Len(buffer'[b]) = L + m
      /\ \A i \in 1 .. L : buffer'[b][i] = buffer[b][i]
      /\ \A i \in 1 .. m : buffer'[b][L + i] = new[i]
  <2>1. buffer[b] \in Seq(Byte) /\ new \in Seq(Byte) /\ Len(new) = m /\ L = Len(buffer[b])
    BY <1>2, <1>3, <1>5, BufferFacts
  <2>2. DOMAIN buffer[b] = 1 .. L
    BY <2>1, LenProperties
  <2>3. /\ buffer[b] \o new \in Seq(Byte) /\ Len(buffer[b] \o new) = L + m
        /\ \A i \in 1 .. L + m : (buffer[b] \o new)[i] =
             IF i <= L THEN buffer[b][i] ELSE new[i - L]
    BY ONLY <2>1, ConcatProperties
  <2>4. DOMAIN (buffer[b] \o new) = 1 .. L + m
    BY <2>3, LenProperties
  <2>5. \A i \in 1 .. m : (buffer[b] \o new)[L + i] = new[i]
    <3>1. \A i \in 1 .. m : L + i \in 1 .. L + m /\ ~(L + i <= L) /\ (L + i) - L = i
      BY <1>2
    <3> QED
      BY <2>3, <3>1
  <2>6. \A i \in 1 .. L : (buffer[b] \o new)[i] = buffer[b][i]
    BY <1>2, <2>3
  <2> QED
    BY <1>4, <2>2, <2>3, <2>4, <2>5, <2>6
(* A byte of a bucket is one that was there or one of the new ones.        *)
<1>7. ASSUME NEW x \in Buckets, NEW j \in DOMAIN buffer'[x]
      PROVE  \/ j \in DOMAIN buffer[x] /\ buffer'[x][j] = buffer[x][j]
             \/ x = b /\ \E k \in 1 .. m : j = L + k /\ buffer'[x][j] = new[k]
  <2>1. CASE x # b
    BY <1>4, <1>7, <2>1
  <2>2. CASE x = b
    <3>1. j \in 1 .. L \/ (j - L \in 1 .. m /\ j = L + (j - L))
      BY <1>2, <1>6, <1>7, <2>2
    <3> QED
      BY <1>6, <2>2, <3>1
  <2> QED
    BY <2>1, <2>2
<1>8. \A x \in Buckets : \A j \in DOMAIN buffer[x] :
        j \in DOMAIN buffer'[x] /\ buffer'[x][j] = buffer[x][j]
  <2>1. \A j \in 1 .. L : j \in 1 .. L + m
    BY <1>2
  <2> QED
    BY <1>4, <1>6, <2>1
(* Nobody else has written.                                                *)
<1>9. \A v \in Writers : totalwritten[v] > 0 => v = w
  <2>1. \A v \in Writers : v # w => totalwritten'[v] = totalwritten[v]
    BY <1>4, Sizes
  <2> QED
    BY <1>4, <2>1 DEF Alone
<1>10. \A x \in Buckets : \A j \in DOMAIN buffer[x] : buffer[x][j].by = w /\ totalwritten[w] > 0
  <2>1. \A x \in Buckets : \A j \in DOMAIN buffer[x] : buffer[x][j].by \in Writers
    BY ByteFacts
  <2> QED
    BY <1>0, <1>9, <2>1 DEF Authors
<1>11. Authors'
  <2>1. \A v \in Writers : totalwritten'[v] > 0 => v \in contexes /\ next[v] # NULL
    <3>1. \A v \in Writers : v # w => ~(totalwritten'[v] > 0)
      BY <1>4 DEF Alone
    <3> QED
      BY <1>1, <1>2, <1>3, <3>1
  <2>2. ASSUME NEW x \in Buckets, NEW j \in DOMAIN buffer'[x]
        PROVE  totalwritten'[buffer'[x][j].by] > 0
    <3>1. buffer'[x][j].by = w
      BY <1>2, <1>7, <1>10
    <3> QED
      BY <1>4, <3>1
  <2> QED
    BY <1>2, <1>4, <2>1, <2>2 DEF Authors
<1>12. Complete'
  <2>1. ASSUME NEW n \in 1 .. serial + m
        PROVE  \E x \in Buckets : \E i \in DOMAIN buffer'[x] : buffer'[x][i].n = n
    <3>1. CASE n \in 1 .. serial
      BY <1>0, <1>8, <3>1 DEF Complete
    <3>2. CASE n \notin 1 .. serial
      <4>1. n - serial \in 1 .. m /\ serial + (n - serial) = n
        BY <1>2, <1>3, <2>1, <3>2
      <4>2. /\ L + (n - serial) \in DOMAIN buffer'[b]
            /\ buffer'[b][L + (n - serial)].n = n
        <5>1. L + (n - serial) \in 1 .. L + m
          BY <1>2, <1>3, <4>1
        <5> QED
          BY <1>2, <1>6, <4>1, <5>1
      <4> QED
        BY <1>3, <4>2
    <3> QED
      BY <3>1, <3>2
  <2> QED
    BY <1>2, <2>1 DEF Complete
(* The last byte there is stands last in the writer's bucket.              *)
<1>13. L > 0 => buffer[b][1].n + L - 1 = serial /\ buffer[b][1].n \in Nat
  <2> SUFFICES ASSUME L > 0
               PROVE  buffer[b][1].n + L - 1 = serial /\ buffer[b][1].n \in Nat
    OBVIOUS
  <2>1. 1 \in DOMAIN buffer[b] /\ L \in DOMAIN buffer[b]
    BY <1>6
  <2>2. /\ buffer[b][1].n \in Nat /\ buffer[b][1].n > 0 /\ buffer[b][1].n <= serial
        /\ buffer[b][L].n \in Nat /\ buffer[b][L].n <= serial
        /\ buffer[b][L].n = buffer[b][1].n + L - 1
    BY <1>0, <1>3, <2>1, ByteFacts DEF AllSound, Sound, Numbered
  <2>3. serial \in 1 .. serial
    BY <1>3, <2>2
  <2>4. PICK x \in Buckets : \E i \in DOMAIN buffer[x] : buffer[x][i].n = serial
    BY <1>0, <2>3 DEF Complete
  <2>5. PICK i \in DOMAIN buffer[x] : buffer[x][i].n = serial
    BY <2>4
  <2>6. x \in Nat /\ i \in Nat /\ i \in 1 .. Len(buffer[x])
    BY ByteFacts
  <2>7. x <= b
    BY <1>0, <1>1, <1>2, <1>10 DEF Ahead
  <2>8. x = b /\ i \in 1 .. L
    <3>1. ~Before(x, i, b, 1)
      <4>1. Before(x, i, b, 1) => buffer[x][i].n < buffer[b][1].n
        BY <1>0, <1>3, <1>10, <2>1 DEF InStream
      <4> QED
        BY <1>3, <2>2, <2>5, <4>1
    <3>2. x = b
      BY <1>3, <2>6, <2>7, <3>1 DEF Before
    <3> QED
      BY <1>5, <2>6, <3>2
  <2>9. i = L
    <3>1. ~Before(b, i, b, L)
      <4>1. Before(b, i, b, L) => buffer[b][i].n < buffer[b][L].n
        BY <1>0, <1>3, <1>10, <2>1, <2>8 DEF InStream
      <4> QED
        BY <1>3, <2>2, <2>5, <2>8, <4>1
    <3> QED
      BY <2>8, <3>1 DEF Before
  <2> QED
    BY <2>2, <2>5, <2>8, <2>9
<1>14. totalwritten[w] > 0 \/ serial = 0
  <2>1. serial > 0 => totalwritten[w] > 0
    BY <1>0, <1>9 DEF Authors
  <2> QED
    BY <1>3, <2>1
<1>15. k0 = serial % Len(cipher)
  BY <1>0, <1>1, <1>2, <1>14 DEF KeysInStep
<1>16. AllSound'
  <2>1. ASSUME NEW i \in 1 .. m
        PROVE  /\ new[i].n > 0 /\ new[i].n = buffer'[b][1].n + (L + i) - 1
               /\ new[i].key = KeyAt(new[i].n - 1)
    <3>1. new[i].n = serial + i /\ i \in Nat /\ i > 0 /\ i - 1 \in Nat
      BY <1>2
    <3>2. buffer'[b][1].n + (L + i) - 1 = serial + i
      <4>1. CASE L = 0
        <5>1. 1 \in 1 .. m /\ buffer'[b][L + 1] = new[1] /\ L + 1 = 1
          BY <1>2, <1>6, <4>1
        <5>2. buffer'[b][1].n = serial + 1
          BY <1>2, <5>1
        <5> QED
          BY <1>3, <3>1, <4>1, <5>2
      <4>2. CASE L > 0
        <5>1. buffer'[b][1] = buffer[b][1]
          BY <1>6, <4>2
        <5>2. PICK a \in Nat : a = buffer[b][1].n /\ a + L - 1 = serial
          BY <1>13, <4>2
        <5>3. a + (L + i) - 1 = serial + i
          BY <1>3, <3>1, <5>2
        <5> QED
          BY <5>1, <5>2, <5>3
      <4> QED
        BY <4>1, <4>2
    <3>3. KeyAt(k0 + i - 1) = KeyAt(serial + (i - 1))
      <4>1. KeyAt((serial % Len(cipher)) + (i - 1)) = KeyAt(serial + (i - 1))
        BY <1>2, <1>3, <3>1, KeyFacts
      <4>2. k0 + i - 1 = k0 + (i - 1)
        BY <1>3, <3>1
      <4> QED
        BY <1>15, <4>1, <4>2
    <3>4. new[i].n - 1 = serial + (i - 1)
      BY <1>3, <3>1
    <3>5. new[i].n > 0
      BY <1>3, <3>1
    <3> QED
      BY <1>2, <3>1, <3>2, <3>3, <3>4, <3>5
  <2>2. ASSUME NEW x \in Buckets, NEW j \in DOMAIN buffer'[x] PROVE Sound(x, j)'
    <3>1. CASE j \in DOMAIN buffer[x] /\ buffer'[x][j] = buffer[x][j]
      <4>1. Sound(x, j)
        BY <1>0, <3>1 DEF AllSound
      <4>2. buffer'[x][1] = buffer[x][1]
        <5>1. buffer[x] \in Seq(Byte)
          BY BufferFacts
        <5>2. 1 \in DOMAIN buffer[x]
          BY <3>1, <5>1, LenProperties
        <5> QED
          BY <1>8, <5>2
      <4> QED
        BY <1>2, <3>1, <4>1, <4>2 DEF Sound, KeyAt
    <3>2. ASSUME NEW k \in 1 .. m, x = b, j = L + k, buffer'[x][j] = new[k] PROVE Sound(x, j)'
      BY <1>2, <2>1, <3>2 DEF Sound, KeyAt
    <3> QED
      BY <1>7, <3>1, <3>2
  <2> QED
    BY <2>2 DEF AllSound
<1>17. KeysInStep'
  <2>1. keyoff'[w] = (serial + m) % Len(cipher)
    <3>1. KeyAfter(serial % Len(cipher), m) = (serial + m) % Len(cipher)
      BY <1>2, <1>3, KeyFacts
    <3> QED
      BY <1>4, <1>15, <3>1
  <2>2. ASSUME NEW v \in Writers, totalwritten'[v] > 0 \/ serial' = 0 PROVE v = w
    <3>1. serial' # 0
      BY <1>2, <1>3
    <3> QED
      BY <1>4, <2>2, <3>1 DEF Alone
  <2>3. \A r \in Readers : keyoff'[r] = keyoff[r]
    BY <1>4, Sizes
  <2>4. serial' # 0
    BY <1>2, <1>3
  <2> QED
    BY <1>0, <1>2, <2>1, <2>2, <2>3, <2>4 DEF KeysInStep
<1>18. Exact'
  BY <1>0, <1>2 DEF Exact
<1>19. NothingMissed'
  <2>1. ASSUME NEW r \in contexes \cap Readers, next[r] # NULL, NEW k \in 1 .. m
        PROVE  /\ serial + k > Len(got[r])
               /\ Before(next[r], off[r], b, L + k)
    <3>0. next[r] \in Nat /\ off[r] \in Nat /\ Len(got[r]) \in Nat /\ k \in Nat /\ k > 0
      BY <1>4, NextFacts, NumberFacts, GotFacts
    <3>1. serial + k > Len(got[r])
      <4>1. CASE Len(got[r]) = 0
        BY <1>3, <3>0, <4>1
      <4>2. CASE Len(got[r]) > 0
        <5>1. Len(got[r]) \in DOMAIN got[r]
          BY <3>0, <4>2, GotFacts
        <5>2. got[r][Len(got[r])].n = Len(got[r]) /\ got[r][Len(got[r])].n <= serial
          BY <1>0, <5>1 DEF Exact, Numbered
        <5> QED
          BY <1>3, <3>0, <5>2
      <4> QED
        BY <3>0, <4>1, <4>2
    <3>2. Settled(r) /\ call.by # r
      <4>1. w # r
        BY <2>1, Sizes
      <4> QED
        BY <1>0, <1>p, <2>1, <4>1 DEF AllSettled, Stores
    <3>3. CASE off[r] > 0
      <4>1. next[r] \in Buckets /\ off[r] \in DOMAIN buffer[next[r]]
        <5>1. next[r] \in Buckets
          BY <1>4, <2>1, NextFacts
        <5>2. buffer[next[r]] \in Seq(Byte)
          BY <5>1, BufferFacts
        <5>3. DOMAIN buffer[next[r]] = 1 .. Len(buffer[next[r]]) /\ Len(buffer[next[r]]) \in Nat
          BY <5>2, LenProperties
        <5> QED
          BY <3>0, <3>2, <3>3, <5>1, <5>3 DEF Settled
      <4>2. next[r] <= b
        BY <1>0, <1>1, <1>2, <1>10, <4>1 DEF Ahead
      <4>3. next[r] = b => off[r] <= L
        BY <1>5, <3>2 DEF Settled
      <4> QED
        BY <1>3, <3>0, <3>1, <4>2, <4>3 DEF Before
    <3>4. CASE ~(off[r] > 0)
      <4>1. next[r] <= b /\ off[r] = 0
        BY <1>2, <3>0, <3>2, <3>4 DEF Settled
      <4> QED
        BY <1>3, <3>0, <3>1, <4>1 DEF Before
    <3> QED
      BY <3>3, <3>4
  <2>2. ASSUME NEW r \in contexes \cap Readers, next[r] # NULL,
               NEW x \in Buckets, NEW i \in DOMAIN buffer'[x]
        PROVE  buffer'[x][i].n > Len(got[r]) <=> Before(next[r], off[r], x, i)
    <3>1. CASE i \in DOMAIN buffer[x] /\ buffer'[x][i] = buffer[x][i]
      BY <1>0, <2>2, <3>1 DEF NothingMissed
    <3>2. ASSUME NEW k \in 1 .. m, x = b, i = L + k, buffer'[x][i] = new[k]
          PROVE  buffer'[x][i].n > Len(got[r]) <=> Before(next[r], off[r], x, i)
      <4>1. buffer'[x][i].n = serial + k
        BY <1>2, <3>2
      <4> QED
        BY <2>1, <2>2, <3>2, <4>1
    <3> QED
      BY <1>7, <3>1, <3>2
  <2> QED
    BY <1>2, <2>2 DEF NothingMissed, Before
<1>20. AllSettled'
  <2>1. ASSUME NEW r \in contexes \cap Readers, next[r] # NULL PROVE Settled(r)'
    <3>1. Settled(r) /\ call.by # r
      <4>1. w # r
        BY <2>1, Sizes
      <4> QED
        BY <1>0, <1>p, <2>1, <4>1 DEF AllSettled, Stores
    <3>2. off[r] <= Len(buffer'[next[r]])
      <4>1. CASE next[r] = b
        BY <1>2, <1>4, <1>5, <1>6, <3>1, <4>1, NumberFacts DEF Settled
      <4>2. CASE next[r] # b
        <5>1. next[r] \in Buckets
          BY <1>4, <2>1, NextFacts
        <5> QED
          BY <1>4, <3>1, <4>2, <5>1 DEF Settled
      <4> QED
        BY <4>1, <4>2
    <3> QED
      BY <1>2, <3>1, <3>2 DEF Settled, Listed
  <2> QED
    BY <1>2, <2>1 DEF AllSettled
<1> QED
  BY <1>11, <1>12, <1>16, <1>17, <1>18, <1>19, <1>20 DEF Whole

(* A step after which there is still one writer and no mishap.             *)
LEMMA WholeStep ==
  ASSUME TypeInv, TypeInv', Held', StreamInv, Alone => Whole, [Next]_vars, Alone'
  PROVE  Whole'
<1>0. fault' = "none" /\ mishaps' = {} /\ Emptied
  BY DEF Alone, StreamInv
<1>1. ASSUME fault = "none", UNCHANGED <<mishaps, totalwritten>> PROVE Alone /\ Whole
  BY <1>1 DEF Alone
<1>2. CASE Elsewhere
  <2>1. fault = "none" /\ UNCHANGED <<mishaps, totalwritten>>
    BY <1>0, <1>2 DEF Elsewhere, position, history
  <2>2. UNCHANGED <<buckets, buffer, serial, keylast, cipher, contexes, next, off,
                    keyoff, totalwritten, got>>
    BY <1>2, Zenon DEF Elsewhere, device, position, history
  <2>3. \A r \in Readers : call.by = r /\ call.left > 0 /\ next[r] # NULL => UNCHANGED call
    BY <1>2 DEF Elsewhere
  <2> QED
    BY <1>1, <2>1, <2>2, <2>3, WholeStands
<1>3. ASSUME NEW c \in Contexts, Open(c) PROVE Whole'
  <2>1. fault = "none" /\ UNCHANGED <<mishaps, totalwritten>>
    BY <1>3 DEF Open, Quiet, history
  <2> QED
    BY <1>1, <1>3, <2>1, WholeOpen
<1>4. ASSUME NEW c \in Contexts PROVE ~Release(c)
  BY <1>0 DEF Release
<1>5. ASSUME NEW c \in Contexts, NEW key \in Keys \cup {DEFAULTCIPHER}, ResetTo(c, key)
      PROVE  Whole'
  BY <1>0, <1>5, WholeReset
<1>6. ASSUME NEW r \in Readers, PassBucket(r) PROVE Whole'
  <2>1. fault = "none" /\ UNCHANGED <<mishaps, totalwritten>>
    BY <1>6 DEF PassBucket, Reading, history
  <2> QED
    BY <1>0, <1>1, <1>6, <2>1, WholePass
<1>7. ASSUME NEW r \in Readers, CopyToUser(r) PROVE Whole'
  <2>1. fault = "none" /\ UNCHANGED <<mishaps, totalwritten>>
    BY <1>7 DEF CopyToUser, Reading
  <2> QED
    BY <1>1, <1>7, <2>1, WholeGet
<1>8. ASSUME NEW r \in Readers PROVE ~CopyToUserFails(r)
  BY <1>0 DEF CopyToUserFails
<1>9. ASSUME NEW w \in Writers, AddBucket(w) PROVE Whole'
  <2>1. fault = "none" /\ UNCHANGED <<mishaps, totalwritten>>
    BY <1>9 DEF AddBucket, Writing, history
  <2> QED
    BY <1>1, <1>9, <2>1, WholeAdd
<1>10. ASSUME NEW w \in Writers PROVE ~AddBucketFails(w)
  BY <1>0 DEF AddBucketFails
<1>11. ASSUME NEW w \in Writers, CopyFromUser(w) PROVE Whole'
  <2>1. PICK m \in Nat, new \in Seq(Byte) : Stores(w, m, new)
    BY <1>11, CopyFromFacts
  <2>2. /\ fault = "none" /\ UNCHANGED mishaps /\ m > 0
        /\ totalwritten' = [totalwritten EXCEPT ![w] = @ + m]
    BY <2>1 DEF Stores
  <2>3. \A v \in Writers : totalwritten[v] \in Nat /\ (totalwritten[v] > 0 => totalwritten'[v] > 0)
    BY <2>2, NumberFacts, Sizes, TypeParts DEF NumberType
  <2>4. Alone
    BY <1>0, <2>2, <2>3 DEF Alone
  <2> QED
    BY <1>11, <2>4, WholePut
<1> QED
  BY <1>2, <1>3, <1>4, <1>5, <1>6, <1>7, <1>8, <1>9, <1>10, <1>11, Cases

LEMMA AtMostOne ==
  ASSUME TypeInv, Cardinality({w \in Writers : totalwritten[w] > 0}) <= 1
  PROVE  \A v, w \in Writers : totalwritten[v] > 0 /\ totalwritten[w] > 0 => v = w
<1> DEFINE W == {w \in Writers : totalwritten[w] > 0}
<1>1. IsFiniteSet(W) /\ Cardinality(W) \in Nat /\ Cardinality(W) <= 1
  <2>1. W \subseteq Readers \cup Writers
    OBVIOUS
  <2> QED
    BY <2>1, CipherAssumption, FS_Subset, FS_CardinalityType
<1>2. ASSUME NEW v \in W, NEW w \in W, v # w PROVE FALSE
  <2>1. {v, w} \subseteq W
    OBVIOUS
  <2>2. Cardinality({v, w}) <= Cardinality(W)
    BY <1>1, <2>1, FS_Subset
  <2>3. Cardinality({v, w}) = 2
    BY <1>2, TwoFacts
  <2> HIDE DEF W
  <2> QED
    BY <1>1, <2>2, <2>3
<1> QED
  BY <1>2

(* While one writer writes, and as long as nobody closes and nothing       *)
(* fails, a reader gets a run of what was written, nothing left out or     *)
(* twice, and every byte decrypted with the character of the key it was    *)
(* encrypted with, however reads and writes cut the stream into pieces.    *)
OneWriterStream ==
  mishaps = {} /\ Cardinality({w \in Writers : totalwritten[w] > 0}) <= 1 =>
    \A r \in Readers : \A i \in DOMAIN got[r] :
      /\ got[r][i].right
      /\ got[r][i].n = got[r][1].n + i - 1

LEMMA WholeGivesStream ==
  ASSUME TypeInv, fault = "none", Alone => Whole PROVE OneWriterStream
<1> SUFFICES ASSUME mishaps = {}, Cardinality({w \in Writers : totalwritten[w] > 0}) <= 1,
                    NEW r \in Readers, NEW i \in DOMAIN got[r]
             PROVE  got[r][i].right /\ got[r][i].n = got[r][1].n + i - 1
  BY DEF OneWriterStream
<1>1. Exact
  BY AtMostOne DEF Alone, Whole
<1>2. got[r][i].right /\ got[r][i].n = i
  BY <1>1, Zenon DEF Exact
<1>3. i \in Nat /\ 1 \in DOMAIN got[r]
  BY GotFacts
<1>4. got[r][1].n = 1
  BY <1>1, <1>3 DEF Exact
<1>5. got[r][i].n = got[r][1].n + i - 1
  BY <1>2, <1>3, <1>4
<1> QED
  BY <1>2, <1>5, Zenon

(* After a fault the device stands still.                                  *)
LEMMA FaultStep ==
  ASSUME [Next]_vars, fault' # "none" PROVE UNCHANGED <<got, mishaps, totalwritten>>
<1>1. CASE Elsewhere
  BY <1>1 DEF Elsewhere, position, history
<1>2. ASSUME NEW r \in Readers, PassBucket(r) PROVE UNCHANGED <<got, mishaps, totalwritten>>
  BY <1>2 DEF PassBucket, history
<1>3. ASSUME NEW c \in Contexts,
             Open(c) \/ Release(c) \/ \E key \in Keys \cup {DEFAULTCIPHER} : ResetTo(c, key)
      PROVE  FALSE
  BY <1>3 DEF Open, Release, ResetTo, Quiet
<1>4. ASSUME NEW r \in Readers, CopyToUser(r) \/ CopyToUserFails(r) PROVE FALSE
  BY <1>4 DEF CopyToUser, CopyToUserFails, Reading
<1>5. ASSUME NEW w \in Writers, AddBucket(w) \/ AddBucketFails(w) \/ CopyFromUser(w) PROVE FALSE
  BY <1>5 DEF AddBucket, AddBucketFails, CopyFromUser, Writing
<1> QED
  BY <1>1, <1>2, <1>3, <1>4, <1>5, Cases

WholeInv == (Alone => Whole) /\ (fault # "none" => OneWriterStream)

LEMMA WholeInvStep == TypeInv /\ TypeInv' /\ Held' /\ StreamInv /\ WholeInv /\ [Next]_vars => WholeInv'
<1> SUFFICES ASSUME TypeInv, TypeInv', Held', StreamInv, WholeInv, [Next]_vars PROVE WholeInv'
  OBVIOUS
<1>1. Alone' => Whole'
  BY WholeStep DEF WholeInv
<1>2. ASSUME fault' # "none" PROVE OneWriterStream'
  <2>1. OneWriterStream
    BY WholeGivesStream DEF WholeInv
  <2>2. UNCHANGED <<got, mishaps, totalwritten>>
    BY <1>2, FaultStep
  <2> QED
    BY <2>1, <2>2 DEF OneWriterStream
<1> QED
  BY <1>1, <1>2 DEF WholeInv

-----------------------------------------------------------------------------
DeviceInv == TypeInv /\ Held /\ StreamInv /\ WholeInv

LEMMA HeldInit == Init => Held
BY DEF Init, Held, Listed

LEMMA StreamInit == Init => StreamInv
<1> SUFFICES ASSUME Init PROVE StreamInv
  OBVIOUS
<1>1. /\ \A b \in Buckets : buffer[b] = <<>> /\ DOMAIN buffer[b] = {}
      /\ \A r \in Readers : got[r] = <<>> /\ DOMAIN got[r] = {}
  BY EmptyDomain DEF Init
<1> QED
  BY <1>1 DEF StreamInv, InStream, Numbered, Emptied, Ahead, Unpassed, InOrder

LEMMA Inductive == Spec => []DeviceInv
<1>1. Init => DeviceInv
  <2>1. Init => WholeInv
    BY WholeInit DEF WholeInv, Init
  <2> QED
    BY <2>1, TypeInit, HeldInit, StreamInit DEF DeviceInv
<1>2. DeviceInv /\ [Next]_vars => DeviceInv'
  <2> SUFFICES ASSUME DeviceInv, [Next]_vars PROVE DeviceInv'
    OBVIOUS
  <2>1. TypeInv /\ Held /\ StreamInv /\ WholeInv
    BY DEF DeviceInv
  <2>2. TypeInv'
    BY <2>1, TypeStep
  <2>3. Held' /\ StreamInv'
    BY <2>1, <2>2, HeldStep, StreamStep
  <2>4. WholeInv'
    BY <2>1, <2>2, <2>3, WholeInvStep
  <2> QED
    BY <2>2, <2>3, <2>4 DEF DeviceInv
<1> QED
  BY <1>1, <1>2, PTL DEF Spec

(***************************************************************************)
(* The device's fields keep their types: in every call, whatever failed    *)
(* before, no buffer is longer than BUCKET_SIZE, no offset is past a       *)
(* bucket's end and no writer's total past MAX_WRITE_LEN.                  *)
(***************************************************************************)
THEOREM CipherTypeCorrect == Spec => []TypeOK
BY Inductive, PTL DEF DeviceInv, TypeInv

(***************************************************************************)
(* Until a descriptor is closed or memory runs out, cipher_read frees no   *)
(* bucket at which an open descriptor still stands, because refcount is    *)
(* never below the number of those that have yet to leave the bucket.      *)
(***************************************************************************)
THEOREM BucketsStayWhileInUse == Spec => []HeldUntilSomeoneCloses
<1>1. DeviceInv => HeldUntilSomeoneCloses
  BY Zenon DEF DeviceInv, Held, Mild, HeldUntilSomeoneCloses, Dangling
<1> QED
  BY <1>1, Inductive, PTL

(***************************************************************************)
(* Whatever the writers, closes, resets and failures, cipher_read never    *)
(* hands out two bytes of one writer in another order than cipher_write    *)
(* stored them, and none twice.                                            *)
(***************************************************************************)
THEOREM BytesInOrder == Spec => []InOrder
BY Inductive, PTL DEF DeviceInv, StreamInv

(***************************************************************************)
(* While one writer writes and nothing is closed or fails, cipher_read     *)
(* hands every reader a run of what cipher_write stored, with no byte left *)
(* out or twice, and each meets the character of the key it was encrypted  *)
(* with: for any key and any sizes, however calls cut the stream.          *)
(***************************************************************************)
THEOREM StreamIsWhole == Spec => []OneWriterStream
<1>1. DeviceInv => OneWriterStream
  BY WholeGivesStream DEF DeviceInv, WholeInv
<1> QED
  BY <1>1, Inductive, PTL

(***************************************************************************)
(* What cipher_free_buckets freed in a reset is gone for every reader: no  *)
(* read returns a byte that was stored before the last reset.              *)
(***************************************************************************)
THEOREM ResetLeavesNothing == Spec => []NothingOutlivesReset
<1>1. DeviceInv => NothingOutlivesReset
  BY DEF DeviceInv, StreamInv, Numbered, NothingOutlivesReset
<1> QED
  BY <1>1, Inductive, PTL

-----------------------------------------------------------------------------
(* One stream, which every reader reads.                                   *)

(* Byte n of the stream is by w, as a bucket or a reader has it.           *)
Known(n, w) ==
  \/ \E b \in Buckets : \E i \in DOMAIN buffer[b] :
       buffer[b][i].n = n /\ buffer[b][i].by = w
  \/ \E r \in Readers : \E i \in DOMAIN got[r] :
       got[r][i].n = n /\ got[r][i].by = w

(* No number is given twice, and none that has not been reached.           *)
OneStream ==
  \A n, w : Known(n, w) => n \in 1 .. serial /\ \A v : Known(n, v) => v = w

LEMMA KnownKept ==
  ASSUME OneStream, serial' = serial, \A n, w : Known(n, w)' => Known(n, w)
  PROVE  OneStream'
BY DEF OneStream

LEMMA KnownShrinks ==
  ASSUME OneStream, Shrinks PROVE OneStream'
<1>1. ASSUME NEW n, NEW w, Known(n, w)' PROVE Known(n, w)
  BY <1>1, ShrinkFacts DEF Known
<1>2. serial' = serial
  BY DEF Shrinks
<1> QED
  BY <1>1, <1>2, KnownKept

(* What a reader is handed a bucket has.                                   *)
LEMMA KnownHanded ==
  ASSUME TypeInv, OneStream, NEW r \in Readers, CopyToUser(r)
  PROVE  OneStream'
<1>1. PICK m \in Nat, new \in Seq(ReadByte) : HandsOut(r, m, new)
  BY CopyToFacts
<1>2. PICK b, o : b = next[r] /\ o = off[r]
  OBVIOUS
<1>3. /\ b \in Buckets /\ m \in Nat /\ new \in Seq(ReadByte) /\ Len(new) = m
      /\ UNCHANGED <<buffer, serial>>
      /\ \A i \in 1 .. m : /\ o + i \in DOMAIN buffer[b]
                           /\ new[i].n = buffer[b][o + i].n
                           /\ new[i].by = buffer[b][o + i].by
      /\ got' = [got EXCEPT ![r] = @ \o new]
  BY <1>1, <1>2, ListedFacts, Sizes DEF HandsOut, device
<1>4. /\ \A q \in Readers : q # r => got'[q] = got[q]
      /\ got'[r] = got[r] \o new
  BY <1>3 DEF TypeInv, DataType
<1>5. PICK L \in Nat : L = Len(got[r])
  BY GotFacts
<1>6. /\ DOMAIN got[r] = 1 .. L
      /\ DOMAIN got'[r] = 1 .. L + m
      /\ \A i \in 1 .. L : got'[r][i] = got[r][i]
      /\ \A i \in 1 .. m : got'[r][L + i] = new[i]
  BY <1>3, <1>4, <1>5, GotFacts, ConcatProperties, LenProperties
<1>7. \A i \in 1 .. L + m : i \in 1 .. L \/ (i - L \in 1 .. m /\ i = L + (i - L))
  OBVIOUS
<1>8. ASSUME NEW n, NEW w, Known(n, w)' PROVE Known(n, w)
  <2>1. CASE \E x \in Buckets : \E i \in DOMAIN buffer'[x] :
               buffer'[x][i].n = n /\ buffer'[x][i].by = w
    BY <1>3, <2>1 DEF Known
  <2>2. ASSUME NEW q \in Readers, NEW i \in DOMAIN got'[q],
               got'[q][i].n = n, got'[q][i].by = w
        PROVE  Known(n, w)
    <3>1. CASE q # r
      BY <1>4, <2>2, <3>1 DEF Known
    <3>2. CASE q = r /\ i \in 1 .. L
      BY <1>6, <2>2, <3>2 DEF Known
    <3>3. CASE q = r /\ i - L \in 1 .. m /\ i = L + (i - L)
      <4>1. PICK k \in 1 .. m : i = L + k
        BY <3>3
      <4>2. /\ got'[r][i] = new[k] /\ o + k \in DOMAIN buffer[b]
            /\ new[k].n = buffer[b][o + k].n /\ new[k].by = buffer[b][o + k].by
        BY <1>3, <1>6, <4>1
      <4>3. buffer[b][o + k].n = n /\ buffer[b][o + k].by = w
        BY <2>2, <3>3, <4>2
      <4> QED
        BY <1>3, <4>2, <4>3 DEF Known
    <3> QED
      BY <1>6, <1>7, <2>2, <3>1, <3>2, <3>3
  <2> QED
    BY <1>8, <2>1, <2>2 DEF Known
<1> QED
  BY <1>3, <1>8, KnownKept

(* What a writer stores has numbers that nobody knew.                      *)
LEMMA KnownStored ==
  ASSUME TypeInv, OneStream, NEW w \in Writers, CopyFromUser(w)
  PROVE  OneStream'
<1>1. PICK m \in Nat, new \in Seq(Byte) : Stores(w, m, new)
  BY CopyFromFacts
<1>2. PICK b : b = next[w]
  OBVIOUS
<1>3. /\ b \in Buckets /\ m \in Nat /\ new \in Seq(Byte) /\ Len(new) = m
      /\ \A i \in 1 .. m : new[i].n = serial + i /\ new[i].by = w
      /\ buffer' = [buffer EXCEPT ![b] = @ \o new]
      /\ serial' = serial + m /\ got' = got
  BY <1>1, <1>2, ListedFacts, Sizes DEF Stores
<1>4. /\ \A x \in Buckets : x # b => buffer'[x] = buffer[x]
      /\ buffer'[b] = buffer[b] \o new
  BY <1>3 DEF TypeInv, DataType
<1>5. PICK L \in Nat : L = Len(buffer[b])
  BY <1>3, BufferFacts
<1>6. /\ DOMAIN buffer[b] = 1 .. L
      /\ DOMAIN buffer'[b] = 1 .. L + m
      /\ \A i \in 1 .. L : buffer'[b][i] = buffer[b][i]
      /\ \A i \in 1 .. m : buffer'[b][L + i] = new[i]
  BY <1>3, <1>4, <1>5, BufferFacts, ConcatProperties, LenProperties
<1>7. \A i \in 1 .. L + m : i \in 1 .. L \/ (i - L \in 1 .. m /\ i = L + (i - L))
  OBVIOUS
<1>8. serial \in Nat
  BY NumberFacts
<1>9. ASSUME NEW n, NEW v, Known(n, v)'
      PROVE  Known(n, v) \/ \E k \in 1 .. m : n = serial + k /\ v = w
  <2>1. CASE \E q \in Readers : \E i \in DOMAIN got'[q] :
               got'[q][i].n = n /\ got'[q][i].by = v
    BY <1>3, <2>1 DEF Known
  <2>2. ASSUME NEW x \in Buckets, NEW i \in DOMAIN buffer'[x],
               buffer'[x][i].n = n, buffer'[x][i].by = v
        PROVE  Known(n, v) \/ \E k \in 1 .. m : n = serial + k /\ v = w
    <3>1. CASE x # b
      BY <1>4, <2>2, <3>1 DEF Known
    <3>2. CASE x = b /\ i \in 1 .. L
      BY <1>6, <2>2, <3>2 DEF Known
    <3>3. CASE x = b /\ i - L \in 1 .. m /\ i = L + (i - L)
      <4>1. PICK k \in 1 .. m : i = L + k
        BY <3>3
      <4>2. buffer'[b][i] = new[k] /\ new[k].n = serial + k /\ new[k].by = w
        BY <1>3, <1>6, <4>1
      <4> QED
        BY <2>2, <3>3, <4>2
    <3> QED
      BY <1>6, <1>7, <2>2, <3>1, <3>2, <3>3
  <2> QED
    BY <1>9, <2>1, <2>2 DEF Known
<1>10. ASSUME NEW n, NEW v, NEW u, Known(n, v), NEW k \in 1 .. m, n = serial + k
       PROVE  FALSE
  <2>1. n \in 1 .. serial
    BY <1>10 DEF OneStream
  <2> QED
    BY <1>8, <1>10, <2>1
<1>11. ASSUME NEW n, NEW v, Known(n, v)' PROVE n \in 1 .. serial'
  <2>1. CASE Known(n, v)
    <3>1. n \in 1 .. serial
      BY <2>1 DEF OneStream
    <3> QED
      BY <1>3, <1>8, <3>1
  <2>2. CASE \E k \in 1 .. m : n = serial + k
    BY <1>3, <1>8, <2>2
  <2> QED
    BY <1>9, <1>11, <2>1, <2>2
<1>12. ASSUME NEW n, NEW u, NEW v, Known(n, u)', Known(n, v)' PROVE v = u
  <2>1. Known(n, u) /\ Known(n, v) => v = u
    BY DEF OneStream
  <2> QED
    BY <1>9, <1>10, <1>12, <2>1
<1> QED
  BY <1>11, <1>12 DEF OneStream

LEMMA OneStreamStep ==
  ASSUME TypeInv, TypeInv', StreamInv, StreamInv', OneStream, [Next]_vars
  PROVE  OneStream'
<1>1. CASE Elsewhere
  <2>1. Shrinks
    BY <1>1 DEF Elsewhere, device, history, Shrinks
  <2> QED
    BY <2>1, KnownShrinks
<1>2. ASSUME NEW c \in Contexts, Open(c) PROVE OneStream'
  <2>1. Shrinks
    BY <1>2 DEF Open, history, Shrinks
  <2> QED
    BY <2>1, KnownShrinks
<1>3. ASSUME NEW c \in Contexts, Release(c) PROVE OneStream'
  <2>1. /\ got' = [r \in Readers |-> IF r = c THEN <<>> ELSE got[r]]
        /\ serial' = serial /\ resets' = resets
        /\ Free({b \in Listed : refcount[b] = 1})
    BY <1>3 DEF Release
  <2>2. \A b \in Buckets : buffer'[b] = buffer[b] \/ buffer'[b] = <<>>
    <3> DEFINE gone == {b \in Listed : refcount[b] = 1}
    <3>1. gone \in SUBSET Listed /\ Free(gone)
      BY <2>1
    <3> HIDE DEF gone
    <3> QED
      BY <3>1, FreeFacts DEF TypeInv, TypeOK
  <2>3. Shrinks
    BY <2>1, <2>2 DEF Shrinks
  <2> QED
    BY <2>3, KnownShrinks
<1>4. ASSUME NEW c \in Contexts, NEW key \in Keys \cup {DEFAULTCIPHER}, ResetTo(c, key)
      PROVE  OneStream'
  <2>1. got' = [r \in Readers |-> <<>>] /\ Free(Listed)
    BY <1>4 DEF ResetTo, FreeBuckets
  <2>2. \A b \in Buckets : buffer'[b] = <<>>
    BY <2>1, FreeFacts DEF TypeInv, TypeOK, StreamInv, Emptied
  <2>3. /\ \A b \in Buckets : DOMAIN buffer'[b] = {}
        /\ \A r \in Readers : DOMAIN got'[r] = {}
    BY <2>1, <2>2, EmptyDomain
  <2> QED
    BY <2>3 DEF OneStream, Known
<1>5. ASSUME NEW r \in Readers, PassBucket(r) PROVE OneStream'
  <2>1. Shrinks
    BY <1>5, PassFacts DEF Shrinks
  <2> QED
    BY <2>1, KnownShrinks
<1>6. ASSUME NEW r \in Readers, CopyToUserFails(r) PROVE OneStream'
  <2>1. Shrinks
    BY <1>6 DEF CopyToUserFails, device, Shrinks
  <2> QED
    BY <2>1, KnownShrinks
<1>7. ASSUME NEW w \in Writers, AddBucket(w) PROVE OneStream'
  <2>1. Shrinks
    BY <1>7 DEF AddBucket, history, Shrinks
  <2> QED
    BY <2>1, KnownShrinks
<1>8. ASSUME NEW w \in Writers, AddBucketFails(w) PROVE OneStream'
  <2>1. Shrinks
    BY <1>8 DEF AddBucketFails, Shrinks
  <2> QED
    BY <2>1, KnownShrinks
<1> QED
  BY <1>1, <1>2, <1>3, <1>4, <1>5, <1>6, <1>7, <1>8, KnownHanded, KnownStored, Cases

LEMMA OneStreamInvariant == Spec => []OneStream
<1>1. Init => OneStream
  <2> SUFFICES ASSUME Init PROVE OneStream
    OBVIOUS
  <2>1. /\ \A b \in Buckets : DOMAIN buffer[b] = {}
        /\ \A r \in Readers : DOMAIN got[r] = {}
    BY EmptyDomain DEF Init
  <2> QED
    BY <2>1 DEF OneStream, Known
<1>2. DeviceInv /\ DeviceInv' /\ OneStream /\ [Next]_vars => OneStream'
  BY OneStreamStep DEF DeviceInv
<1> QED
  BY <1>1, <1>2, Inductive, PTL DEF Spec

-----------------------------------------------------------------------------
(* Each step of the driver is a step of the stream, or none.               *)

LEMMA WritesStore ==
  ASSUME TypeInv, NEW w \in Writers, CopyFromUser(w)
  PROVE  Stream!Store(w)
<1>1. PICK m \in Nat, new \in Seq(Byte) : Stores(w, m, new)
  BY CopyFromFacts
<1>2. /\ m > 0 /\ serial' = serial + m /\ UNCHANGED <<resets, got, mishaps>>
      /\ totalwritten' = [totalwritten EXCEPT ![w] = @ + m]
  BY <1>1 DEF Stores
<1>3. serial \in Nat /\ \A v \in Writers : totalwritten[v] \in Nat
  BY NumberFacts, Sizes
<1>4. totalwritten'[w] > 0 /\ \A v \in Writers : v # w => totalwritten'[v] = totalwritten[v]
  BY <1>2, <1>3, Sizes, TypeParts DEF NumberType
<1>5. HaveWritten' = HaveWritten \cup {w}
  BY <1>4 DEF HaveWritten
<1>6. serial' > serial
  BY <1>2, <1>3
<1> QED
  BY <1>2, <1>5, <1>6 DEF Stream!Store

(* A reader is handed the next bytes of the stream.                        *)
LEMMA ReadsHand ==
  ASSUME DeviceInv, DeviceInv', OneStream', NEW r \in Readers, CopyToUser(r)
  PROVE  Stream!Hand(r)
<1>0. TypeInv /\ TypeInv' /\ StreamInv' /\ WholeInv'
  BY DEF DeviceInv
<1>1. PICK m \in Nat, new \in Seq(ReadByte) : HandsOut(r, m, new)
  BY <1>0, CopyToFacts
<1>2. /\ m > 0 /\ Len(new) = m /\ fault' = "none"
      /\ got' = [got EXCEPT ![r] = @ \o new]
      /\ UNCHANGED <<serial, resets, mishaps, totalwritten>>
  BY <1>1 DEF HandsOut
<1>3. /\ got'[r] = got[r] \o new /\ got' = [got EXCEPT ![r] = got'[r]]
      /\ \A q \in Readers : q # r => got'[q] = got[q]
  BY <1>0, <1>2 DEF TypeInv, DataType
<1>4. Stream!Continues(got[r], got'[r])
  <2>1. got[r] \in Seq(ReadByte) /\ DOMAIN got[r] = 1 .. Len(got[r]) /\ Len(got[r]) \in Nat
    BY <1>0, GotFacts
  <2>2. /\ Len(got'[r]) = Len(got[r]) + m
        /\ \A i \in 1 .. Len(got[r]) : got'[r][i] = got[r][i]
    BY <1>2, <1>3, <2>1, ConcatProperties
  <2> QED
    BY <1>2, <2>1, <2>2 DEF Stream!Continues
<1>5. \A q \in Readers : \A i \in DOMAIN got'[q] : \A n, w :
        got'[q][i].n = n /\ got'[q][i].by = w => Known(n, w)'
  BY DEF Known
<1>6. Stream!Stored(got'[r])
  <2>1. ASSUME NEW i \in DOMAIN got'[r]
        PROVE  got'[r][i].n \in 1 .. serial /\ got'[r][i].epoch = resets
    <3>1. got'[r][i].n \in 1 .. serial'
      <4>1. PICK n, w : got'[r][i].n = n /\ got'[r][i].by = w
        OBVIOUS
      <4>2. Known(n, w)'
        BY <1>5, <4>1
      <4> QED
        BY <4>1, <4>2 DEF OneStream
    <3>2. got'[r][i].epoch = resets'
      BY <1>0 DEF StreamInv, Numbered
    <3> QED
      BY <1>2, <3>1, <3>2
  <2> QED
    BY <2>1 DEF Stream!Stored
<1>7. Stream!OfOneStream(got'[r])
  <2>1. ASSUME NEW q \in Readers, NEW i \in DOMAIN got'[r], NEW j \in DOMAIN got[q],
               got'[r][i].n = got[q][j].n
        PROVE  got'[r][i].by = got[q][j].by
    <3>1. j \in DOMAIN got'[q] /\ got'[q][j] = got[q][j]
      <4>1. CASE q # r
        BY <1>3, <4>1
      <4>2. CASE q = r
        <5>1. DOMAIN got'[r] = 1 .. Len(got'[r]) /\ DOMAIN got[r] = 1 .. Len(got[r])
              /\ Len(got[r]) \in Nat /\ Len(got'[r]) \in Nat
          BY <1>0, GotFacts
        <5>2. Len(got'[r]) > Len(got[r]) /\ \A k \in DOMAIN got[r] : got'[r][k] = got[r][k]
          BY <1>4 DEF Stream!Continues
        <5> QED
          BY <4>2, <5>1, <5>2
      <4> QED
        BY <4>1, <4>2
    <3>2. PICK n, v, w : /\ got'[r][i].n = n /\ got'[r][i].by = v
                         /\ got'[q][j].n = n /\ got'[q][j].by = w
      BY <2>1, <3>1
    <3>3. Known(n, v)' /\ Known(n, w)'
      BY <1>5, <3>1, <3>2
    <3>4. v = w
      BY <3>3 DEF OneStream
    <3> QED
      BY <3>1, <3>2, <3>4
  <2> QED
    BY <2>1 DEF Stream!OfOneStream
<1>8. Stream!Rising(got'[r])
  BY <1>0 DEF StreamInv, InOrder, Stream!Rising
<1>9. ASSUME Stream!Whole PROVE Stream!FromTheFirst(got'[r])
  <2>1. mishaps = {} /\ \A v, w \in HaveWritten : v = w
    BY <1>9 DEF Stream!Whole
  <2>2. Alone'
    BY <1>2, <2>1 DEF Alone, HaveWritten
  <2>3. Exact'
    BY <1>0, <2>2 DEF WholeInv, Whole
  <2> QED
    BY <2>3 DEF Exact, Stream!FromTheFirst
<1> QED
  BY <1>2, <1>3, <1>4, <1>6, <1>7, <1>8, <1>9 DEF Stream!Hand, HaveWritten

LEMMA DeviceStep ==
  ASSUME DeviceInv, DeviceInv', OneStream', [Next]_vars
  PROVE  \/ Stream!Next
         \/ UNCHANGED <<serial, resets, HaveWritten, mishaps # {}, got>>
<1>1. ASSUME UNCHANGED <<serial, resets, totalwritten, mishaps, got>>
      PROVE  UNCHANGED <<serial, resets, HaveWritten, mishaps # {}, got>>
  BY <1>1 DEF HaveWritten
<1>2. CASE Elsewhere
  BY <1>1, <1>2 DEF Elsewhere, position, history
<1>3. ASSUME NEW c \in Contexts, Open(c)
      PROVE  UNCHANGED <<serial, resets, totalwritten, mishaps, got>>
  BY <1>3 DEF Open, history
<1>4. ASSUME NEW c \in Contexts, Release(c) PROVE Stream!Close(c)
  <2>1. /\ totalwritten' = [totalwritten EXCEPT ![c] = 0] /\ mishaps' # {}
        /\ got' = [r \in Readers |-> IF r = c THEN <<>> ELSE got[r]]
        /\ UNCHANGED <<serial, resets>>
    BY <1>4 DEF Release
  <2>2. \A w \in Writers : totalwritten'[w] = IF w = c THEN 0 ELSE totalwritten[w]
    BY <2>1, Sizes, TypeParts DEF NumberType, DeviceInv
  <2>3. HaveWritten' = HaveWritten \ {c}
    BY <2>2 DEF HaveWritten
  <2> QED
    BY <2>1, <2>3 DEF Stream!Close
<1>5. ASSUME NEW c \in Contexts, NEW key \in Keys \cup {DEFAULTCIPHER}, ResetTo(c, key)
      PROVE  Stream!Reset
  <2>1. /\ serial' = 0 /\ resets' = resets + 1 /\ mishaps' = {}
        /\ got' = [r \in Readers |-> <<>>]
        /\ totalwritten' = [k \in Contexts |-> 0]
    BY <1>5 DEF ResetTo
  <2>2. HaveWritten' = {}
    BY <2>1, Sizes DEF HaveWritten
  <2> QED
    BY <2>1, <2>2 DEF Stream!Reset
<1>6. ASSUME NEW r \in Readers, PassBucket(r)
      PROVE  UNCHANGED <<serial, resets, totalwritten, mishaps, got>>
  BY <1>6 DEF PassBucket, history
<1>7. ASSUME NEW r \in Readers, CopyToUserFails(r) PROVE Stream!Lose
  BY <1>7 DEF CopyToUserFails, Stream!Lose, HaveWritten
<1>8. ASSUME NEW w \in Writers, AddBucket(w)
      PROVE  UNCHANGED <<serial, resets, totalwritten, mishaps, got>>
  BY <1>8 DEF AddBucket, history
<1>9. ASSUME NEW w \in Writers, AddBucketFails(w) PROVE Stream!Lose
  BY <1>9 DEF AddBucketFails, Stream!Lose, HaveWritten, position
<1>10. ASSUME NEW r \in Readers, CopyToUser(r) PROVE Stream!Hand(r)
  BY <1>10, ReadsHand
<1>11. ASSUME NEW w \in Writers, CopyFromUser(w) PROVE Stream!Store(w)
  BY <1>11, WritesStore DEF DeviceInv
<1> QED
  BY <1>1, <1>2, <1>3, <1>4, <1>5, <1>6, <1>7, <1>8, <1>9, <1>10, <1>11, Cases
  DEF Stream!Next, Contexts

(***************************************************************************)
(* For any readers, writers, keys and sizes the device is the stream of    *)
(* ByteStream: cipher_read only ever adds to what its reader has, of bytes *)
(* that cipher_write stored since the last reset and that no two readers   *)
(* take for different ones; and while one file writes and nothing is lost, *)
(* it adds the next bytes of the stream, deciphered.                       *)
(***************************************************************************)
THEOREM DeviceIsStream == Spec => ImplementsStream
<1>1. Init => Stream!Init
  BY Sizes DEF Init, Stream!Init, HaveWritten
<1>2. DeviceInv /\ DeviceInv' /\ OneStream' /\ [Next]_vars
        => [Stream!Next]_<<serial, resets, HaveWritten, mishaps # {}, got>>
  BY DeviceStep
<1> QED
  BY <1>1, <1>2, Inductive, OneStreamInvariant, PTL DEF Spec, ImplementsStream, Stream!Spec

-----------------------------------------------------------------------------
(* The count of CIPHER_IOCQREM, for devices that one file writes: of two   *)
(* writers one may fill a bucket that readers have passed.                 *)
OneWriter == \A v, w \in Writers : v = w

(* No two places hold the same byte.                                       *)
LEMMA BytesDiffer ==
  ASSUME TypeInv, StreamInv, OneWriter,
         NEW x \in Buckets, NEW i \in DOMAIN buffer[x],
         NEW y \in Buckets, NEW j \in DOMAIN buffer[y],
         buffer[x][i].n = buffer[y][j].n
  PROVE  x = y /\ i = j
<1>1. /\ i \in Nat /\ j \in Nat /\ x \in Nat /\ y \in Nat
      /\ buffer[x][i].n \in Nat /\ buffer[x][i].by = buffer[y][j].by
  BY ByteFacts DEF OneWriter
<1>2. ~Before(x, i, y, j) /\ ~Before(y, j, x, i)
  BY <1>1 DEF StreamInv, InStream
<1> QED
  BY <1>1, <1>2 DEF Before

(* The bytes of a bucket behind an offset.                                 *)
Fresh(x, from) == {buffer[x][i] : i \in {j \in DOMAIN buffer[x] : j > from}}

(* They are as many as the length says.                                    *)
LEMMA FreshCount ==
  ASSUME TypeInv, StreamInv, OneWriter, NEW x \in Buckets,
         NEW o \in Nat, o <= Len(buffer[x])
  PROVE  IsFiniteSet(Fresh(x, o)) /\ Cardinality(Fresh(x, o)) = Len(buffer[x]) - o
<1>1. Len(buffer[x]) \in Nat /\ DOMAIN buffer[x] = 1 .. Len(buffer[x])
  BY BufferFacts, LenProperties
<1> DEFINE D == (o + 1) .. Len(buffer[x])
           f == [i \in D |-> buffer[x][i]]
<1>2. D = {j \in DOMAIN buffer[x] : j > o}
  BY <1>1
<1>3. IsFiniteSet(D) /\ Cardinality(D) = Len(buffer[x]) - o
  <2>1. o + 1 \in Int /\ Len(buffer[x]) \in Int
    BY <1>1
  <2>2. /\ IsFiniteSet(D)
        /\ Cardinality(D) = IF o + 1 > Len(buffer[x]) THEN 0 ELSE Len(buffer[x]) - (o + 1) + 1
    BY ONLY <2>1, FS_Interval
  <2> HIDE DEF D
  <2> QED
    BY <1>1, <2>2
<1>4. f \in Surjection(D, Fresh(x, o))
  BY <1>2 DEF Fresh, Surjection
<1>5. f \in Injection(D, Fresh(x, o))
  <2>1. \A i, j \in D : f[i] = f[j] => i = j
    BY <1>2, BytesDiffer
  <2> QED
    BY <1>4, <2>1 DEF Injection, IsInjective, Surjection
<1> HIDE DEF D, f
<1> QED
  BY <1>3, <1>4, <1>5, FS_Surjection

(* Their numbers make the bytes of the device finitely many.               *)
LEMMA StoredFinite ==
  ASSUME TypeInv, StreamInv, OneWriter PROVE IsFiniteSet(Stored)
<1>1. \A byte \in Stored : \E x \in Buckets : \E i \in DOMAIN buffer[x] : byte = buffer[x][i]
  BY ListedFacts DEF Stored
<1>2. \A byte \in Stored : byte.n \in 0 .. serial
  <2>1. \A x \in Buckets : \A i \in DOMAIN buffer[x] : buffer[x][i].n \in 0 .. serial
    BY ByteFacts, NumberFacts DEF StreamInv, Numbered
  <2> QED
    BY <1>1, <2>1
<1> DEFINE f == [byte \in Stored |-> byte.n]
<1>3. f \in Injection(Stored, 0 .. serial)
  <2>1. ASSUME NEW a \in Stored, NEW c \in Stored, a.n = c.n PROVE a = c
    <3>1. PICK x \in Buckets, y \in Buckets :
            \E i \in DOMAIN buffer[x], j \in DOMAIN buffer[y] :
              a = buffer[x][i] /\ c = buffer[y][j]
      BY <1>1
    <3> QED
      BY <2>1, <3>1, BytesDiffer
  <2>2. f \in [Stored -> 0 .. serial]
    BY <1>2
  <2> QED
    BY <2>1, <2>2 DEF Injection, IsInjective
<1> HIDE DEF f
<1>4. IsFiniteSet(0 .. serial)
  BY NumberFacts, FS_Interval
<1> QED
  BY <1>3, <1>4, FS_Injection

(* The bytes of the buckets at some places of the list.                    *)
BytesAt(s) == UNION {Fresh(buckets[p], 0) : p \in s}

(* One place taken out takes its bucket's bytes and no other.              *)
LEMMA BytesSplit ==
  ASSUME TypeInv, StreamInv, OneWriter, NEW s \in SUBSET DOMAIN buckets, NEW p \in s
  PROVE  /\ BytesAt(s) = Fresh(buckets[p], 0) \cup BytesAt(s \ {p})
         /\ Fresh(buckets[p], 0) \cap BytesAt(s \ {p}) = {}
         /\ IsFiniteSet(BytesAt(s)) /\ IsFiniteSet(BytesAt(s \ {p}))
<1>1. BytesAt(s) = Fresh(buckets[p], 0) \cup BytesAt(s \ {p})
  BY DEF BytesAt
<1>2. \A q \in s : buckets[q] \in Listed /\ buckets[q] \in Buckets /\ q \in Nat
  BY ListedFacts
<1>3. BytesAt(s) \subseteq Stored
  BY <1>2 DEF BytesAt, Fresh, Stored
<1>4. ASSUME NEW q \in s \ {p}, NEW byte \in Fresh(buckets[p], 0), byte \in Fresh(buckets[q], 0)
      PROVE  FALSE
  <2>1. PICK i \in DOMAIN buffer[buckets[p]] : byte = buffer[buckets[p]][i]
    BY DEF Fresh
  <2>2. PICK j \in DOMAIN buffer[buckets[q]] : byte = buffer[buckets[q]][j]
    BY <1>4 DEF Fresh
  <2>3. buckets[p] = buckets[q]
    BY <1>2, <2>1, <2>2, BytesDiffer
  <2>4. p \in DOMAIN buckets /\ q \in DOMAIN buckets /\ p # q /\ p \in Nat /\ q \in Nat
    BY <1>2
  <2>5. buckets[p] < buckets[q] \/ buckets[q] < buckets[p]
    BY <2>4 DEF TypeInv, Ordered
  <2>6. buckets[p] \in Nat /\ buckets[q] \in Nat
    BY <1>2, Sizes
  <2> QED
    BY ONLY <2>3, <2>5, <2>6
<1>5. Fresh(buckets[p], 0) \cap BytesAt(s \ {p}) = {}
  BY <1>4 DEF BytesAt
<1>6. IsFiniteSet(BytesAt(s)) /\ IsFiniteSet(BytesAt(s \ {p}))
  BY <1>1, <1>3, StoredFinite, FS_Subset
<1> QED
  BY <1>1, <1>5, <1>6

LEMMA BytesCount ==
  ASSUME TypeInv, StreamInv, OneWriter, NEW s \in SUBSET DOMAIN buckets, NEW p \in s
  PROVE  /\ Cardinality(BytesAt(s \ {p})) \in Nat
         /\ Cardinality(BytesAt(s)) = Len(buffer[buckets[p]]) + Cardinality(BytesAt(s \ {p}))
<1>1. buckets[p] \in Buckets /\ Len(buffer[buckets[p]]) \in Nat
  BY ListedFacts, BufferFacts
<1>2. /\ IsFiniteSet(Fresh(buckets[p], 0))
      /\ Cardinality(Fresh(buckets[p], 0)) = Len(buffer[buckets[p]])
  BY <1>1, FreshCount
<1>3. /\ BytesAt(s) = Fresh(buckets[p], 0) \cup BytesAt(s \ {p})
      /\ Fresh(buckets[p], 0) \cap BytesAt(s \ {p}) = {}
      /\ IsFiniteSet(BytesAt(s \ {p}))
  BY BytesSplit
<1>4. Cardinality(BytesAt(s \ {p})) \in Nat
  BY <1>3, FS_CardinalityType
<1>5. Cardinality(BytesAt(s)) =
        Cardinality(Fresh(buckets[p], 0)) + Cardinality(BytesAt(s \ {p})) - Cardinality({})
  <2>1. PICK a, c : a = Fresh(buckets[p], 0) /\ c = BytesAt(s \ {p})
    OBVIOUS
  <2>2. IsFiniteSet(a) /\ IsFiniteSet(c)
    BY <1>2, <1>3, <2>1
  <2>3. Cardinality(a \cup c) = Cardinality(a) + Cardinality(c) - Cardinality(a \cap c)
    BY ONLY <2>2, FS_Union
  <2> QED
    BY <1>3, <2>1, <2>3
<1>6. Cardinality({}) = 0
  BY FS_EmptySet
<1> QED
  BY <1>1, <1>2, <1>4, <1>5, <1>6

(* Remaining adds up lengths by a fold; g is the function by which the     *)
(* library defines it on the subsets of S.                                 *)
First(s) == CHOOSE p \in s : TRUE
SumTo(S, g) ==
  g = [s \in SUBSET S |->
         IF s = {} THEN 0 ELSE Len(buffer[buckets[First(s)]]) + g[s \ {First(s)}]]

LEMMA SumUnfold ==
  ASSUME NEW S
  PROVE  MapThenSumSet(LAMBDA i : Len(buffer[buckets[i]]), S) = (CHOOSE g : SumTo(S, g))[S]
  BY Zenon DEF MapThenSumSet, MapThenFoldSet, SumTo, First

(* A set of numbers that is not empty has a least one.                     *)
LEMMA LeastNumber ==
  ASSUME NEW S \in SUBSET Nat, S # {}
  PROVE  \E x \in S : \A y \in S : x <= y
<1>1. PICK e \in S : \A f \in S : ~(<<f, e>> \in OpToRel(<, Nat))
  BY WFMin, NatLessThanWellFounded, Zenon
<1>2. \A f \in S : ~(f < e)
  BY <1>1 DEF OpToRel
<1> QED
  BY <1>2

(* The sum of the lengths is the number of bytes: counting them is a       *)
(* function that g may be, and no set is the smallest on which g differs   *)
(* from it.                                                                *)
LEMMA SumIsCount ==
  ASSUME TypeInv, StreamInv, OneWriter, NEW S \in SUBSET DOMAIN buckets
  PROVE  MapThenSumSet(LAMBDA i : Len(buffer[buckets[i]]), S) = Cardinality(BytesAt(S))
<1> DEFINE h == [s \in SUBSET S |-> Cardinality(BytesAt(s))]
           f == CHOOSE g : SumTo(S, g)
<1>1. ASSUME NEW s \in SUBSET S, s # {}
      PROVE  /\ First(s) \in s
             /\ Cardinality(BytesAt(s)) = Len(buffer[buckets[First(s)]])
                                          + Cardinality(BytesAt(s \ {First(s)}))
  <2>1. First(s) \in s
    BY <1>1 DEF First
  <2> QED
    BY <2>1, BytesCount
<1>2. Cardinality(BytesAt({})) = 0
  BY FS_EmptySet DEF BytesAt
<1>3. SumTo(S, h)
  <2>1. ASSUME NEW s \in SUBSET S
        PROVE  h[s] = IF s = {} THEN 0
                      ELSE Len(buffer[buckets[First(s)]]) + h[s \ {First(s)}]
    <3>1. CASE s = {}
      BY <1>2, <3>1
    <3>2. CASE s # {}
      <4>1. /\ h[s] = Cardinality(BytesAt(s))
            /\ h[s \ {First(s)}] = Cardinality(BytesAt(s \ {First(s)}))
        OBVIOUS
      <4> HIDE DEF h
      <4> QED
        BY <1>1, <3>2, <4>1
    <3> QED
      BY <3>1, <3>2
  <2>2. h = [s \in SUBSET S |-> h[s]]
    OBVIOUS
  <2> HIDE DEF h
  <2>3. h = [s \in SUBSET S |-> IF s = {} THEN 0
                      ELSE Len(buffer[buckets[First(s)]]) + h[s \ {First(s)}]]
    BY <2>1, <2>2
  <2> QED
    BY <2>3, Zenon DEF SumTo
<1>4. SumTo(S, f)
  <2> HIDE DEF h, f
  <2>1. \E g : SumTo(S, g)
    BY <1>3
  <2> QED
    BY <2>1, Zenon DEF f
<1> HIDE DEF h, f
<1>5. \A s \in SUBSET S : f[s] = IF s = {} THEN 0
                      ELSE Len(buffer[buckets[First(s)]]) + f[s \ {First(s)}]
  BY <1>4, Zenon DEF SumTo
<1>6. \A s \in SUBSET S : IsFiniteSet(s) /\ Cardinality(s) \in Nat
  <2>1. IsFiniteSet(DOMAIN buckets)
    BY ListedFacts, FS_Interval
  <2> QED
    BY <2>1, FS_Subset, FS_CardinalityType
<1> DEFINE Bad == {Cardinality(s) : s \in {t \in SUBSET S : f[t] # Cardinality(BytesAt(t))}}
<1>7. Bad = {}
  <2> SUFFICES ASSUME Bad # {} PROVE FALSE
    OBVIOUS
  <2>1. Bad \in SUBSET Nat
    BY <1>6
  <2>2. PICK n \in Bad : \A k \in Bad : n <= k
    <3> HIDE DEF Bad
    <3> QED
      BY <2>1, LeastNumber
  <2>3. PICK s \in SUBSET S : f[s] # Cardinality(BytesAt(s)) /\ n = Cardinality(s)
    OBVIOUS
  <2>4. s # {}
    <3>1. f[{}] = 0
      BY <1>5
    <3> QED
      BY <1>2, <2>3, <3>1
  <2>5. First(s) \in s
    BY <1>1, <2>4
  <2>6. n \in Nat /\ Cardinality(s \ {First(s)}) = n - 1
    BY <1>6, <2>3, <2>5, FS_RemoveElement
  <2>7. n - 1 \notin Bad
    BY <2>2, <2>6
  <2>8. f[s \ {First(s)}] = Cardinality(BytesAt(s \ {First(s)}))
    BY <2>6, <2>7
  <2>9. f[s] = Len(buffer[buckets[First(s)]]) + f[s \ {First(s)}]
    BY <1>5, <2>4
  <2> QED
    BY <1>1, <2>3, <2>4, <2>8, <2>9
<1>8. f[S] = Cardinality(BytesAt(S))
  BY <1>7
<1> QED
  BY <1>8, SumUnfold, Zenon DEF f

(* The writer's bucket is the last, unless it has been freed.              *)
WriterAtEnd ==
  \A w \in contexes \cap Writers : next[w] \in Listed => \A b \in Listed : b <= next[w]

(* What stands behind a reader it has read.                                *)
HasRead(r, byte) == \E k \in DOMAIN got[r] : got[r][k].n = byte.n

BehindIsRead ==
  \A r \in contexes \cap Readers : next[r] \in Listed =>
    /\ off[r] <= Len(buffer[next[r]])
    /\ \A b \in Buckets : \A i \in DOMAIN buffer[b] :
         Before(next[r], off[r], b, i) \/ HasRead(r, buffer[b][i])

(* What CIPHER_IOCQREM saw without dev->mut is still the position of its   *)
(* context, which has no other call meanwhile, unless a reset has taken    *)
(* the context back to the beginning.                                      *)
Asking ==
  /\ qrem \in [Readers -> [bucket : Nat, off : Int]]
  /\ \A r \in Readers : qrem[r] # NotAsking =>
       /\ r \in contexes /\ call.by # r
       /\ next[r] # NULL => qrem[r].bucket = next[r] /\ qrem[r].off = off[r]

(* The steps that change qrem.                                             *)
LEMMA QremMoves ==
  ASSUME [Next]_vars
  PROVE  \/ UNCHANGED qrem
         \/ \E r \in Readers :
              /\ Ready(r) /\ call.by # r
              /\ qrem' = [qrem EXCEPT ![r] = [bucket |-> next[r], off |-> off[r]]]
              /\ UNCHANGED <<next, off, contexes, call>>
         \/ \E r \in Readers :
              AnswerQrem(r) /\ qrem' = [qrem EXCEPT ![r] = NotAsking]
<1>1. CASE UNCHANGED vars
  BY <1>1 DEF vars
<1>2. CASE CallStep
  <2>1. CASE \E r \in Readers : ReadStep(r)
    BY <2>1 DEF ReadStep, PassBucket, CopyToUser, CopyToUserFails, EndRead
  <2>2. CASE \E w \in Writers : WriteStep(w)
    BY <2>2 DEF WriteStep, AddBucket, AddBucketFails, CopyFromUser, CopyFromUserFails, EndWrite
  <2>3. CASE TouchFreed \/ \E c \in Contexts : DivideByZero(c)
    BY <2>3 DEF TouchFreed, DivideByZero, Fault
  <2> QED
    BY <1>2, <2>1, <2>2, <2>3 DEF CallStep
<1>3. CASE \/ \E r \in Readers, n \in Counts : BeginRead(r, n)
           \/ \E w \in Writers, n \in Counts : BeginWrite(w, n)
  BY <1>3 DEF BeginRead, BeginWrite
<1>4. CASE \E r \in Readers : BeginQrem(r)
  BY <1>4 DEF BeginQrem, position
<1>5. CASE \E r \in Readers : AnswerQrem(r)
  BY <1>5 DEF AnswerQrem
<1>6. CASE \E r \in Readers : CountFreed(r)
  BY <1>6 DEF CountFreed, Fault
<1>7. CASE \E c \in Contexts : Open(c) \/ Release(c) \/ Clear(c) \/ SetKey(c)
  BY <1>7 DEF Open, Release, Clear, SetKey, ResetTo
<1> QED
  BY <1>1, <1>2, <1>3, <1>4, <1>5, <1>6, <1>7 DEF Next

(* Nothing but a reset moves a context that asks.                          *)
LEMMA StillAsking ==
  ASSUME TypeInv, Asking, [Next]_vars, NEW r \in Readers, qrem[r] # NotAsking
  PROVE  /\ r \in contexes' /\ call'.by # r
         /\ next'[r] # NULL => next'[r] = next[r] /\ off'[r] = off[r]
<1> DEFINE Goal == /\ r \in contexes' /\ call'.by # r
                   /\ next'[r] # NULL => next'[r] = next[r] /\ off'[r] = off[r]
<1>0. /\ r \in contexes /\ call.by # r /\ ~Ready(r) /\ r \notin Writers /\ r \in Contexts
      /\ NoCall.by # r
  BY Sizes DEF Asking, Ready, NoCall
<1>t. next \in [Contexts -> Buckets \cup {NULL}] /\ off \in [Contexts -> 0 .. BUCKET_SIZE]
  BY DEF TypeInv, TypeOK
<1>1. CASE Elsewhere
  <2>1. UNCHANGED <<contexes, next, off>>
    BY <1>1 DEF Elsewhere, position
  <2>2. call'.by # r
    <3>1. CASE UNCHANGED call
      BY <1>0, <3>1
    <3>2. CASE Begun
      BY <1>0, <3>2 DEF Begun
    <3> QED
      BY <1>1, <3>1, <3>2 DEF Elsewhere
  <2> QED
    BY <1>0, <2>1, <2>2
<1>2. ASSUME NEW c \in Contexts, Open(c) PROVE Goal
  BY <1>0, <1>t, <1>2 DEF Open, OpenAt
<1>3. ASSUME NEW c \in Contexts, Release(c) PROVE Goal
  BY <1>0, <1>t, <1>3 DEF Release, OpenAt
<1>4. ASSUME NEW c \in Contexts, NEW key \in Keys \cup {DEFAULTCIPHER}, ResetTo(c, key) PROVE Goal
  BY <1>0, <1>4 DEF ResetTo
<1>5. ASSUME NEW q \in Readers, PassBucket(q) PROVE Goal
  BY <1>0, <1>t, <1>5 DEF PassBucket, Reading
<1>6. ASSUME NEW q \in Readers, CopyToUser(q) PROVE Goal
  <2>1. PICK m \in Nat, new \in Seq(ReadByte) : HandsOut(q, m, new)
    BY <1>6, CopyToFacts
  <2>2. /\ call.by = q /\ UNCHANGED <<contexes, next>> /\ call'.by = q
        /\ off' = [off EXCEPT ![q] = @ + m]
    BY <2>1 DEF HandsOut
  <2> QED
    BY <1>0, <1>t, <2>2
<1>7. ASSUME NEW q \in Readers, CopyToUserFails(q) PROVE Goal
  BY <1>0, <1>7 DEF CopyToUserFails, Reading
<1>8. ASSUME NEW w \in Writers, AddBucket(w) PROVE Goal
  <2>1. w # r
    BY <1>0
  <2>2. UNCHANGED <<contexes, call>> /\ next'[r] = next[r] /\ off'[r] = off[r]
    BY <1>0, <1>t, <1>8, <2>1, AddFacts DEF AddBucket
  <2> QED
    BY <1>0, <2>2
<1>9. ASSUME NEW w \in Writers, AddBucketFails(w) PROVE Goal
  BY <1>0, <1>9 DEF AddBucketFails, position
<1>10. ASSUME NEW w \in Writers, CopyFromUser(w) PROVE Goal
  <2>1. PICK m \in Nat, new \in Seq(Byte) : Stores(w, m, new)
    BY <1>10, CopyFromFacts
  <2>2. call'.by = w /\ UNCHANGED <<contexes, next, off>>
    BY <2>1 DEF Stores
  <2> QED
    BY <1>0, <2>2
<1> QED
  BY <1>1, <1>2, <1>3, <1>4, <1>5, <1>6, <1>7, <1>8, <1>9, <1>10, Cases

LEMMA AskingStep ==
  ASSUME TypeInv, Asking, [Next]_vars PROVE Asking'
<1>0. qrem \in [Readers -> [bucket : Nat, off : Int]]
  BY DEF Asking
<1>1. CASE UNCHANGED qrem
  BY <1>0, <1>1, StillAsking DEF Asking
<1>2. ASSUME NEW r \in Readers, Ready(r), call.by # r,
             qrem' = [qrem EXCEPT ![r] = [bucket |-> next[r], off |-> off[r]]],
             UNCHANGED <<next, off, contexes, call>>
      PROVE  Asking'
  <2>1. next[r] \in Nat /\ off[r] \in Int /\ r \in contexes
    BY <1>2, NextFacts, NumberFacts, Sizes DEF Ready
  <2>2. /\ qrem' \in [Readers -> [bucket : Nat, off : Int]]
        /\ qrem'[r] = [bucket |-> next[r], off |-> off[r]]
        /\ \A q \in Readers : q # r => qrem'[q] = qrem[q]
    BY <1>0, <1>2, <2>1
  <2>3. qrem'[r].bucket = next'[r] /\ qrem'[r].off = off'[r] /\ r \in contexes' /\ call'.by # r
    BY <1>2, <2>1, <2>2
  <2>4. ASSUME NEW q \in Readers, q # r, qrem'[q] # NotAsking
        PROVE  /\ q \in contexes' /\ call'.by # q
               /\ next'[q] # NULL => qrem'[q].bucket = next'[q] /\ qrem'[q].off = off'[q]
    BY <1>2, <2>2, <2>4 DEF Asking
  <2> QED
    BY <2>2, <2>3, <2>4 DEF Asking
<1>3. ASSUME NEW r \in Readers, qrem' = [qrem EXCEPT ![r] = NotAsking]
      PROVE  Asking'
  <2>1. NotAsking \in [bucket : Nat, off : Int]
    BY Sizes DEF NotAsking
  <2>2. /\ qrem' \in [Readers -> [bucket : Nat, off : Int]]
        /\ qrem'[r] = NotAsking
        /\ \A q \in Readers : q # r => qrem'[q] = qrem[q]
    BY <1>0, <1>3, <2>1
  <2>4. ASSUME NEW q \in Readers, q # r, qrem'[q] # NotAsking
        PROVE  /\ q \in contexes' /\ call'.by # q
               /\ next'[q] # NULL => qrem'[q].bucket = next'[q] /\ qrem'[q].off = off'[q]
    <3>1. qrem'[q] = qrem[q] /\ qrem[q] # NotAsking
      BY <2>2, <2>4
    <3>2. next[q] # NULL => qrem[q].bucket = next[q] /\ qrem[q].off = off[q]
      BY <3>1 DEF Asking
    <3>3. /\ q \in contexes' /\ call'.by # q
          /\ next'[q] # NULL => next'[q] = next[q] /\ off'[q] = off[q]
      BY <3>1, StillAsking
    <3> QED
      BY <3>1, <3>2, <3>3
  <2> QED
    BY <2>2, <2>4 DEF Asking
<1> QED
  BY <1>1, <1>2, <1>3, QremMoves

(* A reader that stands still, while buckets are kept or freed.            *)
LEMMA StayBehind ==
  ASSUME TypeInv, BehindIsRead, Listed' \subseteq Listed,
         \A b \in Listed' : buffer'[b] = buffer[b],
         \A b \in Buckets : buffer'[b] = buffer[b] \/ buffer'[b] = <<>>,
         NEW r \in contexes \cap Readers, next'[r] = next[r], off'[r] = off[r],
         got'[r] = got[r], next'[r] \in Listed'
  PROVE  /\ off'[r] <= Len(buffer'[next'[r]])
         /\ \A b \in Buckets : \A i \in DOMAIN buffer'[b] :
              Before(next'[r], off'[r], b, i)
              \/ \E k \in DOMAIN got'[r] : got'[r][k].n = buffer'[b][i].n
<1>1. next[r] \in Listed /\ buffer'[next'[r]] = buffer[next[r]]
  OBVIOUS
<1>2. \A b \in Buckets : \A i \in DOMAIN buffer'[b] : i \in DOMAIN buffer[b] /\ buffer'[b] = buffer[b]
  BY EmptyDomain
<1> QED
  BY <1>1, <1>2 DEF BehindIsRead, HasRead

(* A writer opens at the last bucket and goes on to the one it adds.       *)
LEMMA AtEndStep ==
  ASSUME TypeInv, OneWriter, WriterAtEnd, [Next]_vars PROVE WriterAtEnd'
<1>1. ASSUME Listed' \subseteq Listed, contexes' \subseteq contexes,
             \A w \in contexes' \cap Writers : next'[w] = next[w] \/ next'[w] = NULL
      PROVE  WriterAtEnd'
  BY <1>1, ListedFacts DEF WriterAtEnd
<1>2. CASE Elsewhere
  <2>1. UNCHANGED <<buckets, contexes, next>>
    BY <1>2, Zenon DEF Elsewhere, device, position
  <2> QED
    BY <1>1, <2>1 DEF Listed
<1>3. ASSUME NEW c \in Contexts, Open(c) PROVE WriterAtEnd'
  <2>1. /\ contexes' = contexes \cup {c} /\ buckets' = buckets
        /\ \E b, o, k : OpenAt(c, b, o, k)
                        /\ (b = NULL \/ c \in Readers \/ (buckets # <<>> /\ b = buckets[Len(buckets)]))
    BY <1>3 DEF Open
  <2>2. /\ \A k \in contexes : k # c => next'[k] = next[k]
        /\ next'[c] = NULL \/ c \in Readers \/ (buckets # <<>> /\ next'[c] = buckets[Len(buckets)])
    BY <2>1, NextFacts DEF OpenAt, TypeInv, TypeOK
  <2>3. Listed' = Listed
    BY <2>1 DEF Listed
  <2>4. ASSUME NEW w \in contexes' \cap Writers, next'[w] \in Listed, NEW b \in Listed
        PROVE  b <= next'[w]
    <3>1. CASE w = c
      <4>1. next'[c] # NULL /\ c \notin Readers
        BY <2>4, <3>1, ListedFacts, Sizes
      <4> QED
        BY <2>2, <3>1, <4>1, LastFacts
    <3>2. CASE w # c
      BY <2>1, <2>2, <2>4, <3>2 DEF WriterAtEnd
    <3> QED
      BY <3>1, <3>2
  <2> QED
    BY <2>3, <2>4 DEF WriterAtEnd
<1>4. ASSUME NEW c \in Contexts, Release(c) PROVE WriterAtEnd'
  <2>1. /\ contexes' = contexes \ {c} /\ Free({b \in Listed : refcount[b] = 1})
        /\ next' = [next EXCEPT ![c] = NULL]
    BY <1>4 DEF Release, OpenAt
  <2>2. Listed' \subseteq Listed
    <3> DEFINE gone == {b \in Listed : refcount[b] = 1}
    <3>1. gone \in SUBSET Listed /\ Free(gone)
      BY <2>1
    <3> HIDE DEF gone
    <3> QED
      BY <3>1, FreeFacts DEF TypeInv, TypeOK
  <2> QED
    BY <1>1, <2>1, <2>2, NextFacts DEF TypeInv, TypeOK
<1>5. ASSUME NEW c \in Contexts, NEW key \in Keys \cup {DEFAULTCIPHER}, ResetTo(c, key)
      PROVE  WriterAtEnd'
  <2>1. Free(Listed) /\ UNCHANGED contexes
    BY <1>5 DEF ResetTo, FreeBuckets
  <2>2. Listed' = {}
    <3>1. buckets \in Seq(Buckets) /\ DataType /\ Ordered
      BY DEF TypeInv, TypeOK
    <3>2. Listed' = Listed \ Listed
      BY <2>1, <3>1, FreeFacts
    <3> QED
      BY <3>2
  <2> QED
    BY <2>2 DEF WriterAtEnd
<1>6. ASSUME NEW r \in Readers, PassBucket(r) PROVE WriterAtEnd'
  <2>1. UNCHANGED contexes /\ Listed' \subseteq Listed
    BY <1>6, PassFacts
  <2>2. \A w \in contexes \cap Writers : w # r /\ next'[w] = next[w]
    <3>1. PICK v : next' = [next EXCEPT ![r] = v]
      BY <1>6, PassFacts
    <3>2. \A w \in Writers : w # r /\ w \in Contexts
      BY Sizes
    <3> QED
      BY <3>1, <3>2, NextFacts
  <2> QED
    BY <1>1, <2>1, <2>2
<1>7. ASSUME NEW r \in Readers, CopyToUser(r) \/ CopyToUserFails(r) PROVE WriterAtEnd'
  <2>1. UNCHANGED <<buckets, contexes, next>>
    BY <1>7, Zenon DEF CopyToUser, CopyToUserFails, device
  <2> QED
    BY <1>1, <2>1 DEF Listed
<1>8. ASSUME NEW w \in Writers, AddBucket(w) PROVE WriterAtEnd'
  <2>1. /\ Listed' = Listed \cup {allocated + 1} /\ next'[w] = allocated + 1
        /\ \A b \in Listed : b <= allocated /\ b \in Nat
        /\ allocated \in Nat
    BY <1>8, AddFacts, ListedFacts, NumberFacts, Sizes
  <2>2. \A b \in Listed' : b <= next'[w]
    BY <2>1
  <2>3. \A v \in Writers : v = w
    BY DEF OneWriter
  <2> QED
    BY <2>2, <2>3 DEF WriterAtEnd
<1>9. ASSUME NEW w \in Writers, AddBucketFails(w) PROVE WriterAtEnd'
  <2>1. UNCHANGED <<buckets, contexes, next>>
    BY <1>9, Zenon DEF AddBucketFails, position
  <2> QED
    BY <1>1, <2>1 DEF Listed
<1>10. ASSUME NEW w \in Writers, CopyFromUser(w) PROVE WriterAtEnd'
  <2>1. PICK m \in Nat, new \in Seq(Byte) : Stores(w, m, new)
    BY <1>10, CopyFromFacts
  <2>2. UNCHANGED <<buckets, contexes, next>>
    BY <2>1 DEF Stores
  <2> QED
    BY <1>1, <2>2 DEF Listed
<1> QED
  BY <1>2, <1>3, <1>4, <1>5, <1>6, <1>7, <1>8, <1>9, <1>10, Cases

(* A step that changes neither the list nor a position.                    *)
LEMMA BehindKept ==
  ASSUME TypeInv, BehindIsRead, UNCHANGED <<buckets, buffer, contexes, next, off, got>>
  PROVE  BehindIsRead'
<1>1. Listed' = Listed
  BY DEF Listed
<1> QED
  BY <1>1 DEF BehindIsRead, HasRead, Before

(* A step that keeps or frees buckets, and moves no reader but c.          *)
LEMMA BehindShrinks ==
  ASSUME TypeInv, TypeInv', Emptied', BehindIsRead, Listed' \subseteq Listed,
         \A b \in Buckets : buffer'[b] = buffer[b] \/ buffer'[b] = <<>>,
         \A b \in Listed' : buffer'[b] = buffer[b],
         NEW c, contexes' \subseteq contexes,
         \A r \in contexes' \cap Readers : r # c =>
           next'[r] = next[r] /\ off'[r] = off[r] /\ got'[r] = got[r],
         c \in contexes' \cap Readers /\ next'[c] \in Listed' =>
           /\ off'[c] <= Len(buffer'[next'[c]])
           /\ \A b \in Buckets : \A i \in DOMAIN buffer'[b] :
                Before(next'[c], off'[c], b, i)
                \/ \E k \in DOMAIN got'[c] : got'[c][k].n = buffer'[b][i].n
  PROVE  BehindIsRead'
<1>1. ASSUME NEW r \in contexes' \cap Readers, next'[r] \in Listed', r # c
      PROVE  /\ off'[r] <= Len(buffer'[next'[r]])
             /\ \A b \in Buckets : \A i \in DOMAIN buffer'[b] :
                  Before(next'[r], off'[r], b, i)
                  \/ \E k \in DOMAIN got'[r] : got'[r][k].n = buffer'[b][i].n
  <2>1. r \in contexes \cap Readers /\ next'[r] = next[r] /\ off'[r] = off[r] /\ got'[r] = got[r]
    BY <1>1
  <2> QED
    BY <1>1, <2>1, StayBehind
<1> QED
  BY <1>1 DEF BehindIsRead, HasRead, Before

(* A reader that passes a bucket has read it to its end, and the list has  *)
(* none between that and the next.                                         *)
LEMMA BehindPass ==
  ASSUME TypeInv, TypeInv', Emptied, Emptied', BehindIsRead, NEW r \in Readers, PassBucket(r)
  PROVE  BehindIsRead'
<1>1. PICK b, a : /\ b = next[r] /\ a = next'[r]
  OBVIOUS
<1>2. /\ b \in Listed /\ b \in Buckets /\ b \in Nat /\ r \in contexes
      /\ UNCHANGED <<contexes, got>>
      /\ Listed' \subseteq Listed
      /\ \A x \in Buckets : buffer'[x] = IF x \in Listed \ Listed' THEN <<>> ELSE buffer[x]
      /\ next' = [next EXCEPT ![r] = a] /\ (a = NULL \/ a = After(b))
      /\ off' = [off EXCEPT ![r] = 0]
  <2>1. next' = [next EXCEPT ![r] = IF refcount[b] = 1 THEN NULL ELSE After(b)]
    BY <1>1, PassFacts
  <2>2. a = IF refcount[b] = 1 THEN NULL ELSE After(b)
    BY <1>1, <2>1, NextFacts, Sizes DEF TypeInv, TypeOK
  <2>3. b \in Listed /\ r \in contexes /\ b \in Buckets /\ b \in Nat
    BY <1>1, PassFacts, ListedFacts, Sizes
  <2>4. /\ UNCHANGED <<contexes, got>> /\ off' = [off EXCEPT ![r] = 0]
        /\ \A x \in Buckets : buffer'[x] = IF x \in Listed \ Listed' THEN <<>> ELSE buffer[x]
    BY PassFacts
  <2>5. Listed' \subseteq Listed
    BY PassFacts
  <2>6. next' = [next EXCEPT ![r] = a] /\ (a = NULL \/ a = After(b))
    BY <2>1, <2>2
  <2> QED
    BY <2>3, <2>4, <2>5, <2>6
<1>3. /\ off'[r] = 0
      /\ \A k \in contexes : k # r => next'[k] = next[k] /\ off'[k] = off[k]
  BY <1>2, Sizes DEF TypeInv, TypeOK
<1>4. Len(buffer[b]) \in Nat /\ off[r] \in Nat /\ Len(buffer[b]) <= off[r]
  <2>1. Len(buffer[b]) - off[r] <= 0
    BY <1>1 DEF PassBucket, Available
  <2>2. Len(buffer[b]) \in Nat /\ off[r] \in Nat
    BY <1>2, BufferFacts, NumberFacts, Sizes
  <2> QED
    BY <2>1, <2>2
<1>5. ASSUME a # NULL, NEW x \in Buckets, NEW i \in DOMAIN buffer[x]
      PROVE  Before(a, 0, x, i) \/ HasRead(r, buffer[x][i])
  <2>1. /\ i \in 1 .. Len(buffer[x]) /\ i \in Nat /\ x \in Nat /\ x \in Listed
    BY ByteFacts, EmptyDomain DEF Emptied
  <2>2. /\ a \in Nat /\ (x > b => a <= x)
    <3>1. buckets \in Seq(Buckets) /\ Ordered
      BY DEF TypeInv, TypeOK
    <3>2. /\ After(b) \in Listed \cup {NULL}
          /\ \A y \in Listed : y > b => After(b) # NULL /\ After(b) <= y
      BY <1>2, <3>1, AfterFacts
    <3>3. a = After(b) /\ a \in Nat
      <4>1. a = After(b) /\ a \in Listed
        BY <1>2, <1>5, <3>2
      <4>2. \A y \in Listed : y \in Nat
        BY ListedFacts, Sizes
      <4> QED
        BY <4>1, <4>2
    <3> QED
      BY <2>1, <3>2, <3>3
  <2>3. CASE x > b
    BY <2>1, <2>2, <2>3 DEF Before
  <2>4. CASE x <= b
    <3>1. ~Before(b, off[r], x, i)
      BY <1>2, <1>4, <2>1, <2>4 DEF Before
    <3> QED
      BY <1>1, <1>2, <3>1 DEF BehindIsRead
  <2> QED
    BY <1>2, <2>1, <2>3, <2>4
<1>6. ASSUME a \in Listed'
      PROVE  /\ off'[r] <= Len(buffer'[a])
             /\ \A x \in Buckets : \A i \in DOMAIN buffer'[x] :
                  Before(a, off'[r], x, i)
                  \/ \E k \in DOMAIN got'[r] : got'[r][k].n = buffer'[x][i].n
  <2>1. a \in Buckets /\ a # NULL
    BY <1>2, <1>6, ListedFacts, Sizes
  <2>2. Len(buffer'[a]) \in Nat
    <3>1. buffer'[a] \in Seq(Byte)
      BY <2>1 DEF TypeInv, DataType
    <3> QED
      BY <3>1, LenProperties
  <2>3. \A x \in Buckets : \A i \in DOMAIN buffer'[x] : i \in DOMAIN buffer[x] /\ buffer'[x] = buffer[x]
    BY <1>2, EmptyDomain
  <2>4. off'[r] <= Len(buffer'[a])
    BY <1>3, <2>2
  <2>5. ASSUME NEW x \in Buckets, NEW i \in DOMAIN buffer'[x]
        PROVE  Before(a, 0, x, i) \/ \E k \in DOMAIN got[r] : got[r][k].n = buffer'[x][i].n
    <3>1. i \in DOMAIN buffer[x] /\ buffer'[x] = buffer[x]
      BY <2>3
    <3> QED
      BY <1>5, <2>1, <3>1 DEF HasRead
  <2>6. off'[r] = 0 /\ got' = got
    BY <1>2, <1>3
  <2> QED
    BY ONLY <2>4, <2>5, <2>6
<1>7. /\ \A x \in Buckets : buffer'[x] = buffer[x] \/ buffer'[x] = <<>>
      /\ \A x \in Listed' : buffer'[x] = buffer[x]
  BY <1>2, ListedFacts
<1> QED
  BY <1>1, <1>2, <1>3, <1>6, <1>7, BehindShrinks

(* What is handed out is what the reader comes past.                       *)
LEMMA BehindCopyTo ==
  ASSUME TypeInv, BehindIsRead, NEW r \in Readers, CopyToUser(r)
  PROVE  BehindIsRead'
<1>p. PICK m \in Nat, new \in Seq(ReadByte) : HandsOut(r, m, new)
  BY CopyToFacts
<1>1. PICK b, o : b = next[r] /\ o = off[r]
  OBVIOUS
<1>2. /\ b \in Listed /\ r \in contexes /\ Len(new) = m /\ o + m <= Len(buffer[b])
      /\ \A i \in 1 .. m : new[i].n = buffer[b][o + i].n
      /\ got' = [got EXCEPT ![r] = @ \o new]
      /\ off' = [off EXCEPT ![r] = @ + m]
      /\ UNCHANGED <<buckets, buffer, contexes, next>>
  BY <1>p, <1>1 DEF HandsOut, device
<1>3. b \in Buckets /\ b \in Nat /\ o \in Nat
  BY <1>1, <1>2, ListedFacts, NumberFacts, Sizes
<1>4. /\ \A q \in Readers : q # r => got'[q] = got[q] /\ off'[q] = off[q]
      /\ got'[r] = got[r] \o new /\ off'[r] = o + m
  BY <1>1, <1>2, Sizes DEF TypeInv, TypeOK, DataType
<1>5. PICK L \in Nat : L = Len(got[r])
  BY GotFacts
<1>6. /\ DOMAIN got[r] = 1 .. L /\ DOMAIN got'[r] = 1 .. L + m
      /\ \A i \in 1 .. L : got'[r][i] = got[r][i]
      /\ \A i \in 1 .. m : got'[r][L + i] = new[i]
  BY <1>2, <1>4, <1>5, GotFacts, ConcatProperties, LenProperties
<1>7. ASSUME NEW x \in Buckets, NEW i \in DOMAIN buffer[x], ~Before(b, o + m, x, i)
      PROVE  \E k \in 1 .. L + m : got'[r][k].n = buffer[x][i].n
  <2>0. i \in Nat /\ x \in Nat
    BY ByteFacts
  <2>1. CASE Before(b, o, x, i)
    <3>1. x = b /\ o < i /\ i <= o + m
      BY <1>3, <1>7, <2>0, <2>1 DEF Before
    <3>2. i - o \in 1 .. m /\ o + (i - o) = i /\ L + (i - o) \in 1 .. L + m
      BY <1>3, <2>0, <3>1
    <3>3. got'[r][L + (i - o)].n = buffer[b][i].n
      BY <1>2, <1>6, <3>2
    <3> QED
      BY <3>1, <3>2, <3>3
  <2>2. CASE ~Before(b, o, x, i)
    <3>1. PICK k \in DOMAIN got[r] : got[r][k].n = buffer[x][i].n
      BY <1>1, <1>2, <2>2 DEF BehindIsRead, HasRead
    <3>2. k \in 1 .. L /\ k \in 1 .. L + m
      BY <1>6, <3>1
    <3> QED
      BY <1>6, <3>1, <3>2
  <2> QED
    BY <2>1, <2>2
<1>8. Listed' = Listed
  BY <1>2 DEF Listed
<1>9. ASSUME NEW q \in contexes \cap Readers, next[q] \in Listed
      PROVE  /\ off'[q] <= Len(buffer[next[q]])
             /\ \A x \in Buckets : \A i \in DOMAIN buffer[x] :
                  Before(next[q], off'[q], x, i)
                  \/ \E k \in DOMAIN got'[q] : got'[q][k].n = buffer[x][i].n
  <2>1. CASE q = r
    <3>1. off'[q] = o + m /\ next[q] = b /\ DOMAIN got'[q] = 1 .. L + m
      BY <1>1, <1>4, <1>6, <2>1
    <3>2. o + m <= Len(buffer[b])
      BY <1>2
    <3>3. ASSUME NEW x \in Buckets, NEW i \in DOMAIN buffer[x]
          PROVE  Before(b, o + m, x, i)
                 \/ \E k \in DOMAIN got'[q] : got'[q][k].n = buffer[x][i].n
      BY <1>7, <2>1, <3>1
    <3> QED
      BY <3>1, <3>2, <3>3
  <2>2. CASE q # r
    BY <1>4, <1>9, <2>2 DEF BehindIsRead, HasRead
  <2> QED
    BY <2>1, <2>2
<1> QED
  BY <1>2, <1>8, <1>9 DEF BehindIsRead, HasRead, Before

(* Bytes are stored at the end of the last bucket, before every reader.    *)
LEMMA BehindCopyFrom ==
  ASSUME TypeInv, WriterAtEnd, BehindIsRead, NEW w \in Writers, CopyFromUser(w)
  PROVE  BehindIsRead'
<1>p. PICK m \in Nat, new \in Seq(Byte) : Stores(w, m, new)
  BY CopyFromFacts
<1>1. PICK b : b = next[w]
  OBVIOUS
<1>2. /\ b \in Listed /\ w \in contexes /\ Len(new) = m
      /\ buffer' = [buffer EXCEPT ![b] = @ \o new]
      /\ UNCHANGED <<buckets, contexes, next, off, got>>
  BY <1>p, <1>1 DEF Stores
<1>3. b \in Buckets /\ b \in Nat /\ \A x \in Listed : x <= b /\ x \in Nat
  BY <1>1, <1>2, ListedFacts, Sizes DEF WriterAtEnd
<1>4. /\ \A x \in Buckets : x # b => buffer'[x] = buffer[x]
      /\ buffer'[b] = buffer[b] \o new
  BY <1>2, <1>3 DEF TypeInv, DataType
<1>5. PICK L \in Nat : L = Len(buffer[b])
  BY <1>3, BufferFacts
<1>6. /\ DOMAIN buffer[b] = 1 .. L /\ DOMAIN buffer'[b] = 1 .. L + m /\ Len(buffer'[b]) = L + m
      /\ \A i \in 1 .. L : buffer'[b][i] = buffer[b][i]
  <2>1. buffer[b] \in Seq(Byte) /\ new \in Seq(Byte) /\ Len(new) = m
    BY <1>2, <1>3, BufferFacts
  <2>2. DOMAIN buffer[b] = 1 .. L
    BY <1>5, <2>1, LenProperties
  <2>3. /\ buffer[b] \o new \in Seq(Byte) /\ Len(buffer[b] \o new) = L + m
        /\ \A i \in 1 .. L + m : (buffer[b] \o new)[i] =
             IF i <= L THEN buffer[b][i] ELSE new[i - L]
    BY <1>5, <2>1, ConcatProperties
  <2>4. DOMAIN (buffer[b] \o new) = 1 .. L + m
    BY <2>3, LenProperties
  <2>5. \A i \in 1 .. L : (buffer[b] \o new)[i] = buffer[b][i]
    BY <2>3
  <2> QED
    BY <1>4, <2>2, <2>3, <2>4, <2>5
<1>7. Listed' = Listed
  BY <1>2 DEF Listed
<1>8. ASSUME NEW r \in contexes \cap Readers, next[r] \in Listed
      PROVE  /\ off[r] <= Len(buffer'[next[r]])
             /\ \A x \in Buckets : \A i \in DOMAIN buffer'[x] :
                  Before(next[r], off[r], x, i)
                  \/ \E k \in DOMAIN got[r] : got[r][k].n = buffer'[x][i].n
  <2>1. /\ next[r] <= b /\ next[r] \in Nat /\ next[r] \in Buckets
        /\ off[r] \in Nat /\ off[r] <= Len(buffer[next[r]])
    BY <1>3, <1>8, ListedFacts, NumberFacts, Sizes DEF BehindIsRead
  <2>2. off[r] <= Len(buffer'[next[r]])
    <3>1. CASE next[r] = b
      BY <1>5, <1>6, <2>1, <3>1
    <3>2. CASE next[r] # b
      BY <1>4, <2>1, <3>2
    <3> QED
      BY <3>1, <3>2
  <2>3. ASSUME NEW x \in Buckets, NEW i \in DOMAIN buffer'[x]
        PROVE  Before(next[r], off[r], x, i)
               \/ \E k \in DOMAIN got[r] : got[r][k].n = buffer'[x][i].n
    <3>1. CASE i \in DOMAIN buffer[x] /\ buffer'[x][i] = buffer[x][i]
      BY <1>8, <3>1 DEF BehindIsRead, HasRead
    <3>2. CASE x = b /\ i \in 1 .. L + m /\ ~(i \in 1 .. L)
      <4>1. i \in Nat /\ i > L
        BY <3>2
      <4>2. next[r] = b => off[r] <= L
        BY <1>5, <2>1
      <4> QED
        BY <2>1, <3>2, <4>1, <4>2, <1>3 DEF Before
    <3> QED
      BY <1>4, <1>6, <3>1, <3>2
  <2> QED
    BY <2>2, <2>3
<1> QED
  BY <1>2, <1>7, <1>8 DEF BehindIsRead, HasRead, Before

LEMMA BehindStep ==
  ASSUME TypeInv, TypeInv', StreamInv, StreamInv', WriterAtEnd, BehindIsRead, [Next]_vars
  PROVE  BehindIsRead'
<1>0. Emptied /\ Emptied'
  BY DEF StreamInv
<1>1. CASE Elsewhere
  <2>1. UNCHANGED <<buckets, buffer, contexes, next, off, got>>
    BY <1>1, Zenon DEF Elsewhere, device, position, history
  <2> QED
    BY <2>1, BehindKept
<1>2. ASSUME NEW c \in Contexts, Open(c) PROVE BehindIsRead'
  <2>1. /\ contexes' = contexes \cup {c} /\ c \notin contexes
        /\ UNCHANGED <<buckets, buffer, got>>
        /\ \E b, o, k : /\ OpenAt(c, b, o, k)
                        /\ \/ b = NULL \/ c \in Writers
                           \/ buckets # <<>> /\ b = Head(buckets) /\ o = 0
    BY <1>2 DEF Open, history
  <2>2. /\ \A k \in contexes : k # c /\ next'[k] = next[k] /\ off'[k] = off[k]
        /\ \/ next'[c] = NULL \/ c \in Writers
           \/ buckets # <<>> /\ next'[c] = Head(buckets) /\ off'[c] = 0
    BY <2>1, NextFacts DEF OpenAt, TypeInv, TypeOK
  <2>3. Listed' = Listed
    BY <2>1 DEF Listed
  <2>4. ASSUME c \in Readers, next'[c] \in Listed
        PROVE  /\ off'[c] <= Len(buffer[next'[c]])
               /\ \A x \in Buckets : \A i \in DOMAIN buffer[x] : Before(next'[c], off'[c], x, i)
    <3>1. next'[c] = Head(buckets) /\ off'[c] = 0 /\ next'[c] \in Buckets /\ next'[c] \in Nat
      BY <2>2, <2>4, ListedFacts, Sizes
    <3>2. Len(buffer[next'[c]]) \in Nat
      BY <3>1, BufferFacts, Sizes
    <3>3. ASSUME NEW x \in Buckets, NEW i \in DOMAIN buffer[x] PROVE Before(next'[c], 0, x, i)
      <4>1. x \in Listed /\ x \in Nat /\ i \in 1 .. Len(buffer[x]) /\ i \in Nat
        BY <1>0, ByteFacts, EmptyDomain DEF Emptied
      <4>2. Head(buckets) <= x
        BY <4>1, HeadFacts
      <4> QED
        BY <3>1, <4>1, <4>2 DEF Before
    <3> QED
      BY <3>1, <3>2, <3>3
  <2>5. ASSUME NEW r \in contexes \cap Readers, next'[r] \in Listed
        PROVE  /\ off'[r] <= Len(buffer[next'[r]])
               /\ \A x \in Buckets : \A i \in DOMAIN buffer[x] :
                    Before(next'[r], off'[r], x, i)
                    \/ \E k \in DOMAIN got[r] : got[r][k].n = buffer[x][i].n
    BY <2>2, <2>5 DEF BehindIsRead, HasRead
  <2> QED
    BY <2>1, <2>3, <2>4, <2>5 DEF BehindIsRead, HasRead, Before
<1>3. ASSUME NEW c \in Contexts, Release(c) PROVE BehindIsRead'
  <2>1. /\ contexes' = contexes \ {c} /\ Free({b \in Listed : refcount[b] = 1})
        /\ next' = [next EXCEPT ![c] = NULL] /\ off' = [off EXCEPT ![c] = 0]
        /\ got' = [r \in Readers |-> IF r = c THEN <<>> ELSE got[r]]
    BY <1>3 DEF Release, OpenAt
  <2>2. \E gone \in SUBSET Listed :
          /\ Listed' = Listed \ gone
          /\ \A b \in Buckets : buffer'[b] = IF b \in gone THEN <<>> ELSE buffer[b]
    <3> DEFINE gone == {b \in Listed : refcount[b] = 1}
    <3>1. gone \in SUBSET Listed /\ Free(gone)
      BY <2>1
    <3> HIDE DEF gone
    <3> QED
      BY <3>1, FreeFacts DEF TypeInv, TypeOK
  <2>3. /\ Listed' \subseteq Listed
        /\ \A b \in Buckets : buffer'[b] = buffer[b] \/ buffer'[b] = <<>>
        /\ \A b \in Listed' : buffer'[b] = buffer[b]
    BY <2>2, ListedFacts
  <2>4. \A r \in contexes' \cap Readers : next'[r] = next[r] /\ off'[r] = off[r] /\ got'[r] = got[r]
    BY <2>1, NextFacts DEF TypeInv, TypeOK
  <2>5. contexes' \subseteq contexes /\ c \notin contexes'
    BY <2>1
  <2> QED
    BY <1>0, <2>3, <2>4, <2>5, BehindShrinks
<1>4. ASSUME NEW c \in Contexts, NEW key \in Keys \cup {DEFAULTCIPHER}, ResetTo(c, key)
      PROVE  BehindIsRead'
  <2>1. Free(Listed)
    BY <1>4 DEF ResetTo, FreeBuckets
  <2>2. Listed' = {}
    <3>1. buckets \in Seq(Buckets) /\ DataType /\ Ordered
      BY DEF TypeInv, TypeOK
    <3>2. Listed' = Listed \ Listed
      BY <2>1, <3>1, FreeFacts
    <3> QED
      BY <3>2
  <2> QED
    BY <2>2 DEF BehindIsRead
<1>5. ASSUME NEW r \in Readers, PassBucket(r) PROVE BehindIsRead'
  BY <1>0, <1>5, BehindPass
<1>6. ASSUME NEW r \in Readers, CopyToUser(r) PROVE BehindIsRead'
  BY <1>6, BehindCopyTo
<1>7. ASSUME NEW r \in Readers, CopyToUserFails(r) PROVE BehindIsRead'
  <2>1. UNCHANGED <<buckets, buffer, contexes, next, off, got>>
    BY <1>7, Zenon DEF CopyToUserFails, device
  <2> QED
    BY <2>1, BehindKept
<1>8. ASSUME NEW w \in Writers, AddBucket(w) PROVE BehindIsRead'
  <2>1. /\ Listed' = Listed \cup {allocated + 1} /\ allocated \in Nat
        /\ UNCHANGED <<contexes, got, buffer>>
        /\ \A k \in Contexts : k # w => next'[k] = next[k] /\ off'[k] = off[k]
    BY <1>8, AddFacts, NumberFacts
  <2>2. ASSUME NEW r \in contexes \cap Readers
        PROVE  next'[r] = next[r] /\ off'[r] = off[r] /\ next[r] # allocated + 1
    <3>1. r # w /\ r \in Contexts
      BY Sizes
    <3>2. next[r] \in Nat /\ next[r] <= allocated
      BY <3>1, NextFacts
    <3> QED
      BY <2>1, <3>1, <3>2
  <2>3. ASSUME NEW r \in contexes \cap Readers, next'[r] \in Listed'
        PROVE  /\ next[r] \in Listed /\ next'[r] = next[r] /\ off'[r] = off[r]
    BY <2>1, <2>2, <2>3
  <2> QED
    BY <2>1, <2>3 DEF BehindIsRead, HasRead, Before
<1>9. ASSUME NEW w \in Writers, AddBucketFails(w) PROVE BehindIsRead'
  <2>1. UNCHANGED <<buckets, buffer, contexes, next, off, got>>
    BY <1>9, Zenon DEF AddBucketFails, position
  <2> QED
    BY <2>1, BehindKept
<1>10. ASSUME NEW w \in Writers, CopyFromUser(w) PROVE BehindIsRead'
  BY <1>10, BehindCopyFrom
<1> QED
  BY <1>1, <1>2, <1>3, <1>4, <1>5, <1>6, <1>7, <1>8, <1>9, <1>10, Cases

(* What a reader has not read is the rest of its bucket and the buckets    *)
(* after it.                                                               *)
LEMMA ToCome ==
  ASSUME TypeInv, StreamInv, OneWriter, BehindIsRead,
         NEW r \in contexes \cap Readers, next[r] \in Listed
  PROVE  LET later == Place(next[r]) + 1 .. Len(buckets)
         IN  /\ Unread(r) = Fresh(next[r], off[r]) \cup BytesAt(later)
             /\ Fresh(next[r], off[r]) \cap BytesAt(later) = {}
             /\ later \in SUBSET DOMAIN buckets
<1> DEFINE b == next[r]
           o == off[r]
           later == Place(b) + 1 .. Len(buckets)
<1>1. /\ Place(b) \in DOMAIN buckets /\ buckets[Place(b)] = b
      /\ DOMAIN buckets = 1 .. Len(buckets) /\ Len(buckets) \in Nat
      /\ Listed \subseteq Buckets /\ b \in Buckets /\ b \in Nat /\ b # NULL
  <2>1. buckets \in Seq(Buckets)
    BY DEF TypeInv, TypeOK
  <2>2. Place(b) \in DOMAIN buckets /\ buckets[Place(b)] = b
    BY <2>1, PlaceFacts
  <2> QED
    BY <2>2, ListedFacts, Sizes
<1>2. later \in SUBSET DOMAIN buckets /\ Place(b) \in Nat
  BY <1>1
<1>3. ASSUME NEW p \in DOMAIN buckets
      PROVE  /\ p \in Nat /\ buckets[p] \in Listed /\ buckets[p] \in Nat
             /\ p \in later <=> b < buckets[p]
  <2>1. p \in Nat /\ buckets[p] \in Listed /\ buckets[p] \in Nat
    BY ListedFacts, Sizes
  <2>2. /\ p < Place(b) => buckets[p] < b
        /\ Place(b) < p => b < buckets[p]
    BY <1>1 DEF TypeInv, Ordered
  <2>3. p \in later <=> Place(b) < p
    BY <1>1, <1>2, <2>1
  <2> QED
    BY <1>1, <1>2, <2>1, <2>2, <2>3
<1> HIDE DEF later
<1>4. ASSUME NEW x \in Buckets, NEW i \in DOMAIN buffer[x]
      PROVE  Before(b, o, x, i) <=> buffer[x][i] \in Fresh(b, o) \cup BytesAt(later)
  <2>0. i \in Nat /\ x \in Nat /\ x \in Listed /\ i > 0
    BY ByteFacts, EmptyDomain DEF StreamInv, Emptied
  <2>1. ASSUME buffer[x][i] \in Fresh(b, o) PROVE x = b /\ i > o
    <3>1. PICK j \in DOMAIN buffer[b] : j > o /\ buffer[x][i] = buffer[b][j]
      BY <2>1 DEF Fresh
    <3> QED
      BY <1>1, <3>1, BytesDiffer
  <2>2. ASSUME buffer[x][i] \in BytesAt(later) PROVE b < x
    <3>1. PICK p \in later : buffer[x][i] \in Fresh(buckets[p], 0)
      BY <2>2 DEF BytesAt
    <3>2. PICK j \in DOMAIN buffer[buckets[p]] : buffer[x][i] = buffer[buckets[p]][j]
      BY <3>1 DEF Fresh
    <3>3. p \in DOMAIN buckets /\ buckets[p] \in Buckets /\ b < buckets[p]
      BY <1>1, <1>2, <1>3
    <3> QED
      BY <3>2, <3>3, BytesDiffer
  <2>3. ASSUME x = b, o < i PROVE buffer[x][i] \in Fresh(b, o)
    BY <2>0, <2>3, NumberFacts, Sizes DEF Fresh
  <2>4. ASSUME b < x PROVE buffer[x][i] \in BytesAt(later)
    <3>1. PICK p \in DOMAIN buckets : buckets[p] = x
      BY <2>0 DEF Listed
    <3>2. p \in later
      BY <1>3, <2>4, <3>1
    <3>3. buffer[x][i] \in Fresh(x, 0)
      BY <2>0 DEF Fresh
    <3> QED
      BY <3>1, <3>2, <3>3 DEF BytesAt
  <2>5. o \in Nat
    BY NumberFacts, Sizes
  <2> QED
    BY <1>1, <2>0, <2>1, <2>2, <2>3, <2>4, <2>5 DEF Before
<1>5. ASSUME NEW x \in Buckets, NEW i \in DOMAIN buffer[x]
      PROVE  Before(b, o, x, i) <=> \A k \in DOMAIN got[r] : got[r][k].n # buffer[x][i].n
  <2>1. ASSUME Before(b, o, x, i), NEW k \in DOMAIN got[r] PROVE got[r][k].n # buffer[x][i].n
    <3>1. got[r][k].by \in Writers /\ got[r][k].n \in Nat
      <4>1. got[r] \in Seq(ReadByte)
        BY GotFacts
      <4>2. got[r][k] \in ReadByte
        BY <4>1, LenProperties, ElementOfSeq
      <4> QED
        BY <4>2 DEF ReadByte
    <3>2. buffer[x][i].by \in Writers /\ buffer[x][i].n \in Nat
      BY ByteFacts
    <3>3. got[r][k].by = buffer[x][i].by
      BY <3>1, <3>2 DEF OneWriter
    <3>4. got[r][k].n < buffer[x][i].n
      BY <1>1, <2>1, <3>3 DEF StreamInv, Unpassed
    <3> QED
      BY <3>1, <3>2, <3>4
  <2>2. ASSUME ~Before(b, o, x, i) PROVE \E k \in DOMAIN got[r] : got[r][k].n = buffer[x][i].n
    BY <2>2 DEF BehindIsRead, HasRead
  <2> QED
    BY <2>1, <2>2
<1>6. \A byte : byte \in Stored <=> \E x \in Buckets : \E i \in DOMAIN buffer[x] : byte = buffer[x][i]
  <2>1. ASSUME NEW x \in Buckets, NEW i \in DOMAIN buffer[x] PROVE x \in Listed
    BY EmptyDomain DEF StreamInv, Emptied
  <2> QED
    BY <1>1, <2>1 DEF Stored
<1>7. Fresh(b, o) \cup BytesAt(later) \subseteq Stored
  <2>1. \A byte \in Fresh(b, o) : \E i \in DOMAIN buffer[b] : byte = buffer[b][i]
    BY DEF Fresh
  <2>2. \A byte \in BytesAt(later) : \E p \in later : \E i \in DOMAIN buffer[buckets[p]] : byte = buffer[buckets[p]][i]
    BY DEF BytesAt, Fresh
  <2>3. \A p \in later : buckets[p] \in Buckets
    BY <1>1, <1>2, <1>3
  <2> QED
    BY <1>1, <1>6, <2>1, <2>2, <2>3
<1>8. Unread(r) = Fresh(b, o) \cup BytesAt(later)
  <2>1. ASSUME NEW byte \in Stored
        PROVE  byte \in Unread(r) <=> byte \in Fresh(b, o) \cup BytesAt(later)
    <3>1. PICK x \in Buckets : \E i \in DOMAIN buffer[x] : byte = buffer[x][i]
      BY <1>6
    <3>2. PICK i \in DOMAIN buffer[x] : byte = buffer[x][i]
      BY <3>1
    <3> QED
      BY <1>4, <1>5, <3>2 DEF Unread
  <2>2. Unread(r) \subseteq Stored
    BY DEF Unread
  <2> QED
    BY <1>7, <2>1, <2>2
<1>9. Fresh(b, o) \cap BytesAt(later) = {}
  <2>1. ASSUME NEW byte \in Fresh(b, o), byte \in BytesAt(later) PROVE FALSE
    <3>1. PICK j \in DOMAIN buffer[b] : byte = buffer[b][j]
      BY DEF Fresh
    <3>2. PICK p \in later : byte \in Fresh(buckets[p], 0)
      BY <2>1 DEF BytesAt
    <3>3. PICK i \in DOMAIN buffer[buckets[p]] : byte = buffer[buckets[p]][i]
      BY <3>2 DEF Fresh
    <3>4. buckets[p] \in Buckets /\ b < buckets[p] /\ buckets[p] \in Nat
      BY <1>1, <1>2, <1>3
    <3>5. b = buckets[p]
      BY <1>1, <3>1, <3>3, <3>4, BytesDiffer
    <3> QED
      BY <1>1, <3>4, <3>5
  <2> QED
    BY <2>1
<1> QED
  BY <1>2, <1>8, <1>9 DEF later

(* The lengths of the rest of the list count it.                           *)
LEMMA RemainingIsUnread ==
  ASSUME TypeInv, StreamInv, OneWriter, BehindIsRead,
         NEW r \in contexes \cap Readers, next[r] \in Listed
  PROVE  Remaining(next[r], off[r]) = Cardinality(Unread(r))
<1>1. PICK b, o, later : /\ b = next[r] /\ o = off[r]
                         /\ later = Place(next[r]) + 1 .. Len(buckets)
  OBVIOUS
<1>2. /\ Unread(r) = Fresh(b, o) \cup BytesAt(later)
      /\ Fresh(b, o) \cap BytesAt(later) = {}
      /\ later \in SUBSET DOMAIN buckets
  BY <1>1, ToCome
<1>3. /\ b \in Buckets /\ b # NULL /\ o \in Nat /\ o <= Len(buffer[b])
      /\ Len(buffer[b]) \in Nat
  BY <1>1, ListedFacts, BufferFacts, NumberFacts, Sizes DEF BehindIsRead
<1>4. IsFiniteSet(Fresh(b, o)) /\ Cardinality(Fresh(b, o)) = Len(buffer[b]) - o
  BY <1>3, FreshCount
<1>5. IsFiniteSet(BytesAt(later)) /\ Cardinality(BytesAt(later)) \in Nat
  <2>1. BytesAt(later) \subseteq Stored
    BY <1>2, ListedFacts DEF BytesAt, Fresh, Stored
  <2> QED
    BY <2>1, StoredFinite, FS_Subset, FS_CardinalityType
<1>6. Cardinality(Unread(r)) = Cardinality(Fresh(b, o)) + Cardinality(BytesAt(later))
  <2>1. PICK a, c : a = Fresh(b, o) /\ c = BytesAt(later)
    OBVIOUS
  <2>2. Cardinality(a \cup c) = Cardinality(a) + Cardinality(c) - Cardinality(a \cap c)
    BY ONLY <1>4, <1>5, <2>1, FS_Union
  <2>3. Cardinality({}) = 0
    BY FS_EmptySet
  <2>4. a \cap c = {} /\ Unread(r) = a \cup c
    BY <1>2, <2>1
  <2>5. Cardinality(a) \in Nat /\ Cardinality(c) \in Nat
    BY <1>3, <1>4, <1>5, <2>1
  <2>6. Cardinality(Unread(r)) = Cardinality(a) + Cardinality(c)
    <3>1. Cardinality(Unread(r)) = Cardinality(a) + Cardinality(c) - 0
      BY ONLY <2>2, <2>3, <2>4
    <3> QED
      BY ONLY <3>1, <2>5
  <2> QED
    BY <2>1, <2>6
<1>7. MapThenSumSet(LAMBDA i : Len(buffer[buckets[i]]), later) = Cardinality(BytesAt(later))
  BY <1>2, SumIsCount
<1>8. Remaining(b, o) = Len(buffer[b]) - Lesser(o, Len(buffer[b]))
                        + MapThenSumSet(LAMBDA i : Len(buffer[buckets[i]]), later)
  BY <1>1, <1>3, Zenon DEF Remaining
<1>9. Lesser(o, Len(buffer[b])) = o
  BY <1>3 DEF Lesser
<1> QED
  BY <1>1, <1>3, <1>4, <1>5, <1>6, <1>7, <1>8, <1>9

QremInv == WriterAtEnd /\ BehindIsRead /\ Asking

LEMMA QremInvariant == OneWriter => (Spec => []QremInv)
<1> SUFFICES ASSUME OneWriter PROVE Spec => []QremInv
  OBVIOUS
<1>1. Init => QremInv
  BY Sizes, EmptyDomain DEF Init, QremInv, WriterAtEnd, BehindIsRead, Asking, Listed, NotAsking
<1>2. DeviceInv /\ DeviceInv' /\ QremInv /\ [Next]_vars => QremInv'
  BY AtEndStep, BehindStep, AskingStep DEF DeviceInv, QremInv
<1> QED
  BY <1>1, <1>2, Inductive, PTL DEF Spec

(***************************************************************************)
(* With one writer, CIPHER_IOCQREM tells a reader that is at a bucket how  *)
(* many bytes of the device it has not read: cipher_ioctl looks at the     *)
(* context before it takes dev->mut, but neither the writer's calls nor    *)
(* closes, failures and resets in between make the count wrong.            *)
(***************************************************************************)
THEOREM QremIsExact == OneWriter => (Spec => QremCountsUnread)
<1> SUFFICES ASSUME OneWriter PROVE Spec => QremCountsUnread
  OBVIOUS
<1>1. ASSUME DeviceInv, QremInv, [Next]_vars, NEW r \in Readers,
             qrem[r] # NotAsking, qrem'[r] = NotAsking, next[r] # NULL
      PROVE  Remaining(qrem[r].bucket, qrem[r].off) = Cardinality(Unread(r))
  <2>1. TypeInv /\ StreamInv /\ BehindIsRead /\ Asking
    BY <1>1 DEF DeviceInv, QremInv
  <2>2. /\ r \in contexes \cap Readers /\ ~Ready(r)
        /\ qrem[r].bucket = next[r] /\ qrem[r].off = off[r]
    BY <1>1, <2>1 DEF Asking, Ready
  <2>3. AnswerQrem(r)
    <3>1. ASSUME NEW q \in Readers, NEW v, qrem' = [qrem EXCEPT ![q] = v] PROVE q = r
      BY <1>1, <2>1, <3>1 DEF Asking
    <3> QED
      BY <1>1, <2>2, <3>1, QremMoves
  <2>4. next[r] \in Listed
    BY <1>1, <2>2, <2>3, Zenon DEF AnswerQrem, Dangling
  <2> QED
    BY <2>1, <2>2, <2>4, RemainingIsUnread
<1>2. DeviceInv /\ QremInv /\ [Next]_vars =>
        [\A r \in Readers :
           qrem[r] # NotAsking /\ qrem'[r] = NotAsking /\ next[r] # NULL =>
             Remaining(qrem[r].bucket, qrem[r].off) = Cardinality(Unread(r))]_vars
  BY <1>1
<1> QED
  BY <1>2, QremInvariant, Inductive, PTL DEF Spec, QremCountsUnread

=============================================================================
