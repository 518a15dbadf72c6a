---------------------------- MODULE TesterProofs ----------------------------
(***************************************************************************)
(* The commands of a client reach the server as lines and its answers are  *)
(* printed once, for every script, number of clients, size of the buffer   *)
(* and of the socket, and however the bytes are cut into pieces.           *)
(***************************************************************************)
EXTENDS Tester, SequenceTheorems, WellFoundedInduction, TLAPS

-----------------------------------------------------------------------------
(* Sequences cut in two and joined.                                        *)

LEMMA Halves ==
  ASSUME NEW S, NEW s \in Seq(S), NEW n \in 0 .. Len(s)
  PROVE  /\ SubSeq(s, 1, n) \in Seq(S) /\ SubSeq(s, n + 1, Len(s)) \in Seq(S)
         /\ Len(SubSeq(s, 1, n)) = n /\ Len(SubSeq(s, n + 1, Len(s))) = Len(s) - n
         /\ \A i \in 1 .. n : SubSeq(s, 1, n)[i] = s[i]
         /\ \A i \in 1 .. Len(s) - n : SubSeq(s, n + 1, Len(s))[i] = s[n + i]
         /\ SubSeq(s, 1, n) \o SubSeq(s, n + 1, Len(s)) = s
<1>1. Len(s) \in Nat /\ \A i \in 1 .. Len(s) : s[i] \in S
  BY LenProperties, ElementOfSeq
<1>2. /\ SubSeq(s, 1, n) \in Seq(S) /\ Len(SubSeq(s, 1, n)) = n
      /\ \A i \in 1 .. n : SubSeq(s, 1, n)[i] = s[i]
  BY <1>1, SubSeqProperties
<1>3. /\ SubSeq(s, n + 1, Len(s)) \in Seq(S)
      /\ Len(SubSeq(s, n + 1, Len(s))) = Len(s) - n
      /\ \A i \in 1 .. Len(s) - n : SubSeq(s, n + 1, Len(s))[i] = s[n + i]
  BY <1>1, SubSeqProperties
<1>4. SubSeq(s, 1, n) \o SubSeq(s, n + 1, Len(s)) = SubSeq(s, 1, Len(s))
  <2>1. 1 \in 1 .. Len(s) + 1 /\ n \in 1 - 1 .. Len(s) /\ Len(s) \in n .. Len(s)
    BY <1>1
  <2> QED
    BY <2>1, ConcatAdjacentSubSeq
<1>5. SubSeq(s, 1, Len(s)) = s
  BY SubSeqFull
<1> QED
  BY <1>2, <1>3, <1>4, <1>5


(* Three sequences make one however they are joined.                      *)
Regroups(s, t, u) == (s \o t) \o u = s \o (t \o u)

LEMMA JoinedThrice ==
  ASSUME NEW S, NEW s \in Seq(S), NEW t \in Seq(S), NEW u \in Seq(S)
  PROVE  Regroups(s, t, u)
  BY ConcatAssociative DEF Regroups

(* Bytes handed over from one sequence to the one before it.               *)
LEMMA HandedOver ==
  ASSUME NEW s \in Seq(Bytes), NEW t \in Seq(Bytes), NEW u \in Seq(Bytes), NEW n \in 0 .. Len(t)
  PROVE  (s \o SubSeq(t, 1, n)) \o (SubSeq(t, n + 1, Len(t)) \o u) = s \o (t \o u)
<1>1. PICK p, q : p = SubSeq(t, 1, n) /\ q = SubSeq(t, n + 1, Len(t))
  OBVIOUS
<1>2. p \in Seq(Bytes) /\ q \in Seq(Bytes)
  BY <1>1, Halves
<1>3. PICK r : r = q \o u
  OBVIOUS
<1>4. (s \o p) \o r = s \o (p \o r)
  <2>1. r \in Seq(Bytes)
    BY <1>2, <1>3, ConcatProperties
  <2>2. Regroups(s, p, r)
    BY <1>2, <2>1, JoinedThrice
  <2> QED
    BY <2>2 DEF Regroups
<1>5. (p \o q) \o u = p \o (q \o u)
  <2>1. Regroups(p, q, u)
    BY <1>2, JoinedThrice
  <2> QED
    BY <2>1 DEF Regroups
<1>6. p \o q = t
  BY <1>1, Halves
<1> QED
  BY <1>1, <1>3, <1>4, <1>5, <1>6

(* The first n elements of a sequence taken from what it begins.           *)
LEMMA Taken ==
  ASSUME NEW s \in Seq(Bytes), NEW t \in Seq(Bytes), NEW n \in 0 .. Len(s)
  PROVE  /\ SubSeq(s, n + 1, Len(s)) \o t \in Seq(Bytes)
         /\ Len(SubSeq(s, n + 1, Len(s)) \o t) = Len(s \o t) - n
         /\ \A i \in 1 .. Len(s \o t) - n :
              (SubSeq(s, n + 1, Len(s)) \o t)[i] = (s \o t)[n + i]
<1>1. PICK q : q = SubSeq(s, n + 1, Len(s))
  OBVIOUS
<1>2. /\ q \in Seq(Bytes) /\ Len(q) = Len(s) - n
      /\ \A i \in 1 .. Len(s) - n : q[i] = s[n + i]
  BY <1>1, Halves
<1>3. Len(s) \in Nat /\ Len(t) \in Nat
  BY LenProperties
<1>4. /\ q \o t \in Seq(Bytes) /\ Len(q \o t) = Len(q) + Len(t)
      /\ \A i \in 1 .. Len(q) + Len(t) :
           (q \o t)[i] = IF i <= Len(q) THEN q[i] ELSE t[i - Len(q)]
  BY <1>2, ConcatProperties
<1>5. /\ Len(s \o t) = Len(s) + Len(t)
      /\ \A i \in 1 .. Len(s) + Len(t) :
           (s \o t)[i] = IF i <= Len(s) THEN s[i] ELSE t[i - Len(s)]
  BY ConcatProperties
<1>6. ASSUME NEW i \in 1 .. Len(s \o t) - n
      PROVE  (q \o t)[i] = (s \o t)[n + i]
  <2>1. i \in 1 .. Len(q) + Len(t) /\ n + i \in 1 .. Len(s) + Len(t)
    BY <1>2, <1>3, <1>5
  <2>2. CASE i <= Len(q)
    BY <1>2, <1>3, <1>4, <1>5, <2>1, <2>2
  <2>3. CASE i > Len(q)
    <3>1. (q \o t)[i] = t[i - Len(q)] /\ (s \o t)[n + i] = t[n + i - Len(s)]
      BY <1>2, <1>3, <1>4, <1>5, <2>1, <2>3
    <3>2. i - Len(q) = n + i - Len(s)
      BY <1>2, <1>3
    <3> QED
      BY <3>1, <3>2
  <2> QED
    BY <1>2, <1>3, <2>2, <2>3
<1>7. Len(q \o t) = Len(s \o t) - n
  BY <1>2, <1>3, <1>4, <1>5
<1> QED
  BY <1>1, <1>4, <1>6, <1>7

-----------------------------------------------------------------------------
(* A stream of bytes that is made of whole lines, with their newlines:     *)
(* ends[k] is where line k ends in it.                                     *)

Carries(bytes, lines, from, to) ==
  \E ends \in [from .. to -> Nat] :
    /\ ends[from] = 0 /\ ends[to] = Len(bytes)
    /\ \A j, k \in from .. to : j <= k => ends[j] <= ends[k]
    /\ \A k \in from + 1 .. to :
         /\ ends[k] = ends[k - 1] + Len(lines[k]) + 1
         /\ bytes[ends[k]] = NL
         /\ \A i \in 1 .. Len(lines[k]) : bytes[ends[k - 1] + i] = lines[k][i]

LEMMA CarriesNothing ==
  ASSUME NEW lines, NEW n \in Nat
  PROVE  Carries(<<>>, lines, n, n)
<1> DEFINE ends == [k \in n .. n |-> 0]
<1>1. /\ ends \in [n .. n -> Nat] /\ ends[n] = 0 /\ n + 1 .. n = {}
      /\ \A k \in n .. n : ends[k] = 0
  OBVIOUS
<1>2. Len(<<>>) = 0
  OBVIOUS
<1> HIDE DEF ends
<1>3. \A j, k \in n .. n : j <= k => ends[j] <= ends[k]
  BY <1>1
<1> QED
  BY <1>1, <1>2, <1>3, Zenon DEF Carries

(* A stream begins with the first line and a newline: the first newline in *)
(* it ends that line, and as long as there is none that line goes on.      *)
Begins(bytes, lines, from, to) ==
  /\ from < to
  /\ Len(lines[from + 1]) \in Nat
  /\ Len(lines[from + 1]) + 1 <= Len(bytes)
  /\ bytes[Len(lines[from + 1]) + 1] = NL
  /\ \A i \in 1 .. Len(lines[from + 1]) :
       bytes[i] = lines[from + 1][i] /\ bytes[i] # NL

LEMMA CarriesFirst ==
  ASSUME NEW lines \in Seq(Seq(Chars)), NEW from \in Nat, NEW to \in 0 .. Len(lines),
         from <= to, NEW bytes \in Seq(Bytes), Carries(bytes, lines, from, to),
         bytes # <<>>
  PROVE  Begins(bytes, lines, from, to)
<1>1. PICK ends \in [from .. to -> Nat] :
        /\ ends[from] = 0 /\ ends[to] = Len(bytes)
        /\ \A j, k \in from .. to : j <= k => ends[j] <= ends[k]
        /\ \A k \in from + 1 .. to :
             /\ ends[k] = ends[k - 1] + Len(lines[k]) + 1
             /\ bytes[ends[k]] = NL
             /\ \A i \in 1 .. Len(lines[k]) : bytes[ends[k - 1] + i] = lines[k][i]
  BY DEF Carries
<1>2. Len(bytes) \in Nat /\ Len(bytes) # 0 /\ Len(lines) \in Nat
  BY EmptySeq, LenProperties
<1>3. from # to
  BY <1>1, <1>2
<1>4. from \in Int /\ to \in Int /\ from < to /\ from + 1 \in from + 1 .. to /\ from + 1 \in 1 .. Len(lines)
  BY <1>2, <1>3
<1>5. lines[from + 1] \in Seq(Chars)
  BY <1>4, ElementOfSeq
<1>6. /\ Len(lines[from + 1]) \in Nat
      /\ \A i \in 1 .. Len(lines[from + 1]) : lines[from + 1][i] \in Chars
  BY <1>5, LenProperties, ElementOfSeq
<1>7. ends[from + 1] = Len(lines[from + 1]) + 1 /\ (from + 1) - 1 = from
  BY <1>1, <1>4, <1>6
<1>8. ends[from + 1] <= Len(bytes)
  BY <1>1, <1>4
<1>9. ASSUME NEW i \in 1 .. Len(lines[from + 1])
      PROVE  bytes[i] = lines[from + 1][i] /\ bytes[i] # NL
  <2>1. bytes[ends[from] + i] = lines[from + 1][i]
    BY <1>1, <1>4, <1>7
  <2>2. ends[from] + i = i
    BY <1>1, <1>6
  <2> QED
    BY <1>6, <2>1, <2>2, ReaderAssumption
<1> QED
  BY <1>1, <1>4, <1>6, <1>7, <1>8, <1>9 DEF Begins

(* Where the characters of a line are that ends in the stream at a.        *)
LEMMA Inside ==
  ASSUME NEW a \in Nat, NEW b \in Nat, NEW len \in Nat, NEW total \in Nat,
         a = b + len + 1, a <= total
  PROVE  \A i \in 1 .. len : b + i \in 1 .. total
  OBVIOUS

(* A line more at the end.                                                 *)
LEMMA CarriesMore ==
  ASSUME NEW lines \in Seq(Seq(Chars)), NEW from \in Nat, NEW to \in Nat,
         from <= to, to < Len(lines), NEW bytes \in Seq(Bytes),
         Carries(bytes, lines, from, to)
  PROVE  Carries(bytes \o (lines[to + 1] \o <<NL>>), lines, from, to + 1)
<1>1. PICK ends \in [from .. to -> Nat] :
        /\ ends[from] = 0 /\ ends[to] = Len(bytes)
        /\ \A j, k \in from .. to : j <= k => ends[j] <= ends[k]
        /\ \A k \in from + 1 .. to :
             /\ ends[k] = ends[k - 1] + Len(lines[k]) + 1
             /\ bytes[ends[k]] = NL
             /\ \A i \in 1 .. Len(lines[k]) : bytes[ends[k - 1] + i] = lines[k][i]
  BY DEF Carries
<1>2. Len(bytes) \in Nat /\ Len(lines) \in Nat /\ to + 1 \in 1 .. Len(lines)
  BY LenProperties
<1>3. PICK line : line = lines[to + 1]
  OBVIOUS
<1>4. line \in Seq(Chars) /\ line \in Seq(Bytes) /\ <<NL>> \in Seq(Bytes) /\ Len(line) \in Nat
  BY <1>2, <1>3, ElementOfSeq, SeqMonotonic, LenProperties DEF Bytes
<1>5. PICK tail : tail = line \o <<NL>>
  OBVIOUS
<1>6. /\ tail \in Seq(Bytes) /\ Len(tail) = Len(line) + 1
      /\ \A i \in 1 .. Len(line) : tail[i] = line[i]
      /\ tail[Len(line) + 1] = NL
  BY <1>4, <1>5, ConcatProperties
<1>7. PICK new : new = bytes \o tail
  OBVIOUS
<1>8. /\ Len(new) = Len(bytes) + Len(line) + 1
      /\ \A i \in 1 .. Len(bytes) : new[i] = bytes[i]
      /\ \A i \in 1 .. Len(line) + 1 : new[Len(bytes) + i] = tail[i]
  <2>1. /\ Len(bytes \o tail) = Len(bytes) + Len(tail)
        /\ \A i \in 1 .. Len(bytes) + Len(tail) :
             (bytes \o tail)[i] = IF i <= Len(bytes) THEN bytes[i] ELSE tail[i - Len(bytes)]
    BY <1>6, ConcatProperties
  <2> QED
    BY <1>2, <1>4, <1>6, <1>7, <2>1
<1> DEFINE more == [k \in from .. to + 1 |-> IF k = to + 1 THEN Len(new) ELSE ends[k]]
<1>9. /\ more \in [from .. to + 1 -> Nat] /\ more[from] = 0 /\ more[to + 1] = Len(new)
      /\ \A k \in from .. to : more[k] = ends[k]
  BY <1>1, <1>2, <1>4, <1>8
<1> HIDE DEF more
<1>10. ASSUME NEW j \in from .. to + 1, NEW k \in from .. to + 1, j <= k
       PROVE  more[j] <= more[k]
  <2>1. CASE k = to + 1 /\ j # to + 1
    <3>1. ends[j] <= Len(bytes) /\ ends[j] \in Nat
      BY <1>1, <1>10, <2>1
    <3> QED
      BY <1>2, <1>4, <1>8, <1>9, <2>1, <3>1
  <2>2. CASE k # to + 1
    <3>1. j \in from .. to /\ k \in from .. to
      BY <1>10, <2>2
    <3>2. ends[j] <= ends[k]
      BY <1>1, <1>10, <3>1
    <3> QED
      BY <1>9, <3>1, <3>2
  <2> QED
    BY <1>2, <1>4, <1>8, <1>9, <2>1, <2>2
<1>11. ASSUME NEW k \in from + 1 .. to + 1
       PROVE  /\ more[k] = more[k - 1] + Len(lines[k]) + 1
              /\ new[more[k]] = NL
              /\ \A i \in 1 .. Len(lines[k]) : new[more[k - 1] + i] = lines[k][i]
  <2>1. CASE k = to + 1
    <3>1. more[k - 1] = Len(bytes) /\ more[k] = Len(new)
      BY <1>1, <1>9, <2>1
    <3>2. PICK b, len : b = Len(bytes) /\ len = Len(line)
      OBVIOUS
    <3>3. /\ b \in Nat /\ len \in Nat /\ Len(new) = b + len + 1
          /\ \A i \in 1 .. len + 1 : new[b + i] = tail[i]
          /\ \A i \in 1 .. len : tail[i] = line[i]
          /\ tail[len + 1] = NL
      BY <1>2, <1>4, <1>6, <1>8, <3>2
    <3>4. new[b + (len + 1)] = NL /\ \A i \in 1 .. len : new[b + i] = line[i]
      BY ONLY <3>3
    <3>5. b + len + 1 = b + (len + 1)
      BY <3>3
    <3> QED
      BY <1>3, <2>1, <3>1, <3>2, <3>3, <3>4, <3>5
  <2>2. CASE k \in from + 1 .. to
    <3>1. /\ more[k] = ends[k] /\ more[k - 1] = ends[k - 1]
          /\ ends[k] <= Len(bytes) /\ ends[k] \in Nat /\ ends[k - 1] \in Nat
      BY <1>1, <1>9, <2>2
    <3>2. lines[k] \in Seq(Chars) /\ Len(lines[k]) \in Nat
      <4>1. k \in 1 .. Len(lines)
        BY <1>2, <2>2
      <4> QED
        BY <4>1, ElementOfSeq, LenProperties
    <3>3. ends[k] = ends[k - 1] + Len(lines[k]) + 1 /\ bytes[ends[k]] = NL
      BY <1>1, <2>2
    <3>4. new[ends[k]] = NL
      <4>1. PICK a, b, len : a = ends[k] /\ b = ends[k - 1] /\ len = Len(lines[k])
        OBVIOUS
      <4>2. a = b + len + 1 /\ a \in Nat /\ b \in Nat /\ len \in Nat /\ a <= Len(bytes)
        BY <3>1, <3>2, <3>3, <4>1
      <4>3. a \in 1 .. Len(bytes)
        BY ONLY <1>2, <4>2
      <4> QED
        BY <1>8, <3>3, <4>1, <4>3
    <3>5. ASSUME NEW i \in 1 .. Len(lines[k])
          PROVE  new[ends[k - 1] + i] = lines[k][i]
      <4>1. ends[k - 1] + i \in 1 .. Len(bytes)
        <5>1. i \in Nat /\ 1 <= i /\ i <= Len(lines[k])
          BY <3>2
        <5>2. PICK a, b, len : a = ends[k] /\ b = ends[k - 1] /\ len = Len(lines[k])
          OBVIOUS
        <5>3. a = b + len + 1 /\ a \in Nat /\ b \in Nat /\ len \in Nat /\ a <= Len(bytes)
          BY <3>1, <3>2, <3>3, <5>2
        <5>4. \A j \in 1 .. len : b + j \in 1 .. Len(bytes)
          BY <1>2, <5>3, Inside
        <5> QED
          BY <5>2, <5>4
      <4> QED
        BY <1>1, <1>8, <2>2, <4>1
    <3> QED
      BY <3>1, <3>3, <3>4, <3>5
  <2> QED
    BY <2>1, <2>2
<1> QED
  <2>1. Carries(new, lines, from, to + 1)
    BY <1>9, <1>10, <1>11, Zenon DEF Carries
  <2> QED
    BY <1>3, <1>5, <1>7, <2>1

(* And where they are once n bytes in front of it are gone.                *)
LEMMA Shifted ==
  ASSUME NEW n \in Nat, NEW b \in Nat, NEW len \in Nat, NEW total \in Nat,
         n <= b, b + len + 1 <= total
  PROVE  /\ (b + len + 1) - n = (b - n) + len + 1
         /\ (b + len + 1) - n \in 1 .. total - n
         /\ n + ((b + len + 1) - n) = b + len + 1
         /\ \A i \in 1 .. len :
              (b - n) + i \in 1 .. total - n /\ n + ((b - n) + i) = b + i
  OBVIOUS

(* What is left of the bytes without the first n of them.                  *)
Follows(rest, bytes, n) ==
  Len(rest) = Len(bytes) - n /\ \A i \in 1 .. Len(bytes) - n : rest[i] = bytes[n + i]

(* The first line and its newline taken from the front.                    *)
LEMMA CarriesRest ==
  ASSUME NEW lines \in Seq(Seq(Chars)), NEW from \in Nat, NEW to \in 0 .. Len(lines),
         from < to, NEW bytes \in Seq(Bytes), Carries(bytes, lines, from, to),
         NEW rest \in Seq(Bytes), NEW n \in Nat, n = Len(lines[from + 1]) + 1,
         Len(lines[from + 1]) \in Nat, Follows(rest, bytes, n)
  PROVE  Carries(rest, lines, from + 1, to)
<1>1. PICK ends \in [from .. to -> Nat] :
        /\ ends[from] = 0 /\ ends[to] = Len(bytes)
        /\ \A j, k \in from .. to : j <= k => ends[j] <= ends[k]
        /\ \A k \in from + 1 .. to :
             /\ ends[k] = ends[k - 1] + Len(lines[k]) + 1
             /\ bytes[ends[k]] = NL
             /\ \A i \in 1 .. Len(lines[k]) : bytes[ends[k - 1] + i] = lines[k][i]
  BY DEF Carries
<1>2. Len(bytes) \in Nat /\ Len(lines) \in Nat /\ Len(rest) \in Nat
  BY LenProperties
<1>3. /\ to \in Nat /\ from + 1 \in from + 1 .. to /\ from + 1 \in from .. to
      /\ (from + 1) - 1 = from /\ to \in from .. to
  BY <1>2
<1>4. ends[from + 1] = n
  BY <1>1, <1>3
<1>5. \A k \in from + 1 .. to : ends[k] \in Nat /\ n <= ends[k] /\ ends[k] <= Len(bytes)
  <2> SUFFICES ASSUME NEW k \in from + 1 .. to
               PROVE  ends[k] \in Nat /\ ends[from + 1] <= ends[k] /\ ends[k] <= ends[to]
    BY <1>1, <1>4
  <2>1. k \in from .. to /\ from + 1 <= k /\ k <= to
    BY <1>3
  <2> QED
    BY <1>1, <1>3, <2>1
<1> DEFINE left == [k \in from + 1 .. to |-> ends[k] - n]
<1>6. /\ left \in [from + 1 .. to -> Nat] /\ left[from + 1] = 0 /\ left[to] = Len(rest)
      /\ \A k \in from + 1 .. to : left[k] = ends[k] - n
  <2>1. \A k \in from + 1 .. to : ends[k] - n \in Nat
    BY <1>5
  <2>2. ends[from + 1] - n = 0 /\ ends[to] - n = Len(rest)
    BY <1>1, <1>2, <1>3, <1>4 DEF Follows
  <2>3. from + 1 \in from + 1 .. to /\ to \in from + 1 .. to
    BY <1>3
  <2> QED
    BY <2>1, <2>2, <2>3
<1> HIDE DEF left
<1>7. \A j, k \in from + 1 .. to : j <= k => left[j] <= left[k]
  <2> SUFFICES ASSUME NEW j \in from + 1 .. to, NEW k \in from + 1 .. to, j <= k
               PROVE  left[j] <= left[k]
    OBVIOUS
  <2>1. j \in from .. to /\ k \in from .. to
    BY <1>3
  <2>2. ends[j] <= ends[k]
    BY <1>1, <2>1
  <2>3. ends[j] \in Nat /\ ends[k] \in Nat /\ left[j] = ends[j] - n /\ left[k] = ends[k] - n
    BY <1>5, <1>6
  <2> QED
    BY ONLY <2>2, <2>3, n \in Nat
<1>8. ASSUME NEW k \in from + 1 + 1 .. to
      PROVE  /\ left[k] = left[k - 1] + Len(lines[k]) + 1
             /\ rest[left[k]] = NL
             /\ \A i \in 1 .. Len(lines[k]) : rest[left[k - 1] + i] = lines[k][i]
  <2>1. k \in from + 1 .. to /\ k - 1 \in from + 1 .. to /\ k \in 1 .. Len(lines)
    BY <1>2, <1>3
  <2>2. Len(lines[k]) \in Nat
    BY <2>1, ElementOfSeq, LenProperties
  <2>3. /\ ends[k] = ends[k - 1] + Len(lines[k]) + 1 /\ bytes[ends[k]] = NL
        /\ \A i \in 1 .. Len(lines[k]) : bytes[ends[k - 1] + i] = lines[k][i]
    BY <1>1, <2>1
  <2>4. /\ left[k] = ends[k] - n /\ left[k - 1] = ends[k - 1] - n
        /\ n <= ends[k - 1] /\ ends[k - 1] \in Nat /\ ends[k] \in Nat
        /\ ends[k] <= Len(bytes)
    BY <1>5, <1>6, <2>1
  <2>5. /\ left[k] = left[k - 1] + Len(lines[k]) + 1
        /\ left[k] \in 1 .. Len(bytes) - n /\ n + left[k] = ends[k]
        /\ \A i \in 1 .. Len(lines[k]) :
             left[k - 1] + i \in 1 .. Len(bytes) - n /\ n + (left[k - 1] + i) = ends[k - 1] + i
    <3> PICK a, b, len, total :
          a = ends[k] /\ b = ends[k - 1] /\ len = Len(lines[k]) /\ total = Len(bytes)
      OBVIOUS
    <3>1. /\ a \in Nat /\ b \in Nat /\ len \in Nat /\ total \in Nat /\ n \in Nat
          /\ a = b + len + 1 /\ n <= b /\ a <= total
      BY <1>2, <2>2, <2>3, <2>4
    <3>2. b + len + 1 <= total
      BY ONLY <3>1
    <3>3. /\ (b + len + 1) - n = (b - n) + len + 1
          /\ (b + len + 1) - n \in 1 .. total - n
          /\ n + ((b + len + 1) - n) = b + len + 1
          /\ \A i \in 1 .. len :
               (b - n) + i \in 1 .. total - n /\ n + ((b - n) + i) = b + i
      BY ONLY <3>1, <3>2, Shifted
    <3> QED
      BY <2>4, <3>1, <3>3
  <2>6. ASSUME NEW i \in 1 .. Len(lines[k])
        PROVE  rest[left[k - 1] + i] = lines[k][i]
    BY <2>3, <2>5 DEF Follows
  <2>7. rest[left[k]] = NL
    BY <2>3, <2>5 DEF Follows
  <2> QED
    BY <2>5, <2>6, <2>7
<1> QED
  BY <1>6, <1>7, <1>8 DEF Carries

-----------------------------------------------------------------------------
(* Types, and the receivers there are for the clients to end.              *)

Joins ==
  \A c \in Conns :
    sender[c] \notin {"connect", "exit", "close"} => receiver[c][1] # "none"

LEMMA LeastIs ==
  ASSUME NEW S \in SUBSET Nat, S # {}
  PROVE  Min(S) \in S /\ \A y \in S : Min(S) <= y
<1>1. PICK x \in S : \A y \in S : ~(<<y, x>> \in OpToRel(<, Nat))
  BY WFMin, NatLessThanWellFounded, Zenon
<1>2. \A y \in S : ~(y < x)
  BY <1>1 DEF OpToRel
<1>3. x \in Nat /\ \A y \in S : y \in Nat
  OBVIOUS
<1>4. \A y \in S : x <= y
  BY ONLY <1>2, <1>3
<1> QED
  BY <1>4 DEF Min

LEMMA VictimIs ==
  ASSUME NEW c \in Conns, PlacesOK, receiver[c][1] # "none"
  PROVE  /\ Victim(c) \in {1, 2} /\ receiver[c][Victim(c)] # "none"
         /\ Victim(c) = 1 => receiver[c][2] = "none"
<1> DEFINE S == {k \in {1, 2} : receiver[c][k] # "none"}
<1>1. Victim(c) = Max(S)
  BY DEF Victim
<1>2. 1 \in S /\ S \subseteq {1, 2}
  OBVIOUS
<1>3. \E x \in S : \A y \in S : x >= y
  <2>1. CASE 2 \in S
    <3>1. \A y \in S : 2 >= y
      OBVIOUS
    <3> QED
      BY <2>1, <3>1
  <2>2. CASE 2 \notin S
    <3>1. \A y \in S : 1 >= y
      BY <2>2
    <3> QED
      BY <1>2, <3>1
  <2> QED
    BY <2>1, <2>2
<1>4. Max(S) \in S /\ \A y \in S : Max(S) >= y
  BY <1>3 DEF Max
<1>5. Max(S) = 1 => 2 \notin S
  BY <1>4
<1> QED
  BY <1>1, <1>4, <1>5

LEMMA ReadBytes ==
  ASSUME NEW c \in Conns, BytesOK, UNCHANGED tvars, read_some(c)
  PROVE  BytesOK'
<1>1. PICK n \in 1 .. Room(c) :
        /\ n <= Len(wire[c])
        /\ buffer' = [buffer EXCEPT ![c] = @ \o SubSeq(wire[c], 1, n)]
        /\ wire' = [wire EXCEPT ![c] = SubSeq(@, n + 1, Len(@))]
  BY DEF read_some
<1>2. /\ wire[c] \in Seq(Bytes) /\ buffer[c] \in Seq(Bytes)
      /\ Len(wire[c]) \in Nat /\ Len(buffer[c]) \in Nat
  BY LenProperties DEF BytesOK
<1>3. n \in 0 .. Len(wire[c]) /\ n \in Nat /\ n + Len(buffer[c]) < BUFFER
  BY <1>1, <1>2, ReaderAssumption DEF Room
<1>4. PICK p, q : p = SubSeq(wire[c], 1, n) /\ q = SubSeq(wire[c], n + 1, Len(wire[c]))
  OBVIOUS
<1>5. /\ p \in Seq(Bytes) /\ Len(p) = n
      /\ q \in Seq(Bytes) /\ Len(q) <= Len(wire[c])
  BY <1>2, <1>3, <1>4, Halves
<1>6. buffer[c] \o p \in Seq(Bytes) /\ Len(buffer[c] \o p) < BUFFER
  <2>1. buffer[c] \o p \in Seq(Bytes) /\ Len(buffer[c] \o p) = Len(buffer[c]) + Len(p)
    BY <1>2, <1>5, ConcatProperties
  <2> QED
    BY ONLY <2>1, <1>2, <1>3, <1>5, ReaderAssumption
<1>7. /\ buffer' = [buffer EXCEPT ![c] = buffer[c] \o p]
      /\ wire' = [wire EXCEPT ![c] = q]
  BY <1>1, <1>4
<1>8. UNCHANGED <<script, at, unsent, ran>>
  BY DEF tvars, read_some
<1>9. wire' \in [Conns -> Seq(Bytes)] /\ \A d \in Conns : Len(wire'[d]) <= SOCKET_ROOM
  <2>1. Len(q) <= SOCKET_ROOM
    <3>1. PICK k, l : k = Len(q) /\ l = Len(wire[c])
      OBVIOUS
    <3>2. k <= l /\ l <= SOCKET_ROOM /\ l \in Nat /\ k \in Nat /\ SOCKET_ROOM \in Nat
      BY <1>2, <1>5, <3>1, LenProperties, TesterAssumption DEF BytesOK
    <3> QED
      BY ONLY <3>1, <3>2
  <2>2. wire \in [Conns -> Seq(Bytes)] /\ \A d \in Conns : Len(wire[d]) <= SOCKET_ROOM
    BY DEF BytesOK
  <2>3. \A d \in Conns : wire'[d] = IF d = c THEN q ELSE wire[d]
    BY <1>7, <2>2
  <2> QED
    BY <1>5, <1>7, <2>1, <2>2, <2>3
<1>10. buffer' \in [Conns -> Seq(Bytes)] /\ \A d \in Conns : Len(buffer'[d]) < BUFFER
  BY <1>6, <1>7 DEF BytesOK
<1> QED
  BY <1>8, <1>9, <1>10 DEF BytesOK

LEMMA RunBytes ==
  ASSUME NEW c \in Conns, BytesOK, UNCHANGED tvars, run_line(c)
  PROVE  BytesOK'
<1>1. PICK i \in DOMAIN buffer[c] :
        /\ ran' = [ran EXCEPT ![c] = Append(@, SubSeq(buffer[c], 1, i - 1))]
        /\ buffer' = [buffer EXCEPT ![c] = SubSeq(@, i + 1, Len(@))]
  BY DEF run_line
<1>2. buffer[c] \in Seq(Bytes) /\ Len(buffer[c]) \in Nat /\ i \in 1 .. Len(buffer[c])
  BY LenProperties DEF BytesOK
<1>3. i - 1 \in 0 .. Len(buffer[c]) /\ i \in 0 .. Len(buffer[c])
  BY <1>2
<1>4. PICK p, q : p = SubSeq(buffer[c], 1, i - 1) /\ q = SubSeq(buffer[c], i + 1, Len(buffer[c]))
  OBVIOUS
<1>5. p \in Seq(Bytes) /\ q \in Seq(Bytes) /\ Len(q) = Len(buffer[c]) - i
  BY <1>2, <1>3, <1>4, Halves
<1>6. ran' = [ran EXCEPT ![c] = Append(ran[c], p)] /\ buffer' = [buffer EXCEPT ![c] = q]
  BY <1>1, <1>4
<1>7. UNCHANGED <<script, at, unsent, wire>>
  BY DEF tvars, run_line
<1>8. ran[c] \in Seq(Seq(Bytes)) /\ Append(ran[c], p) \in Seq(Seq(Bytes))
  BY <1>5, AppendProperties DEF BytesOK
<1>9. ran' \in [Conns -> Seq(Seq(Bytes))]
  BY <1>6, <1>8 DEF BytesOK
<1>10. Len(q) < BUFFER
  BY <1>2, <1>5, ReaderAssumption DEF BytesOK
<1>11. buffer' \in [Conns -> Seq(Bytes)] /\ \A d \in Conns : Len(buffer'[d]) < BUFFER
  BY <1>5, <1>6, <1>10 DEF BytesOK
<1> QED
  BY <1>7, <1>9, <1>11 DEF BytesOK

LEMMA FgetsBytes ==
  ASSUME NEW c \in Conns, BytesOK, fgets(c)
  PROVE  BytesOK'
<1>1. UNCHANGED <<script, wire, buffer, ran>>
  BY DEF fgets, rvars
<1>2. CASE UNCHANGED <<at, unsent>>
  BY <1>1, <1>2 DEF BytesOK
<1>3. CASE /\ at[c] < Len(script)
           /\ at' = [at EXCEPT ![c] = @ + 1]
           /\ unsent' = [unsent EXCEPT ![c] = script[at[c] + 1]]
  <2>1. Len(script) \in Nat /\ at[c] \in 0 .. Len(script)
    BY LenProperties DEF BytesOK
  <2>2. at[c] + 1 \in 0 .. Len(script) /\ at[c] + 1 \in 1 .. Len(script)
    BY <1>3, <2>1
  <2>3. script[at[c] + 1] \in Seq(Bytes)
    <3>1. script[at[c] + 1] \in Seq(Chars)
      BY <2>2, ElementOfSeq DEF BytesOK
    <3> QED
      BY <3>1, SeqMonotonic DEF Bytes
  <2>4. at' \in [Conns -> 0 .. Len(script)]
    BY <1>3, <2>2 DEF BytesOK
  <2>5. unsent' \in [Conns -> Seq(Bytes)]
    BY <1>3, <2>3 DEF BytesOK
  <2> QED
    BY <1>1, <2>4, <2>5 DEF BytesOK
<1> QED
  BY <1>2, <1>3 DEF fgets

(* What one write may do to the bytes.                                     *)
LEMMA WriteFacts ==
  ASSUME NEW c \in Conns, BytesOK, write(c)
  PROVE  /\ UNCHANGED <<buffer, reader, replies, ran, script, at>>
         /\ \/ \E n \in 0 .. Len(unsent[c]) :
                 /\ n <= SOCKET_ROOM - Len(wire[c]) /\ UNCHANGED <<sender, hungup>>
                 /\ unsent' = [unsent EXCEPT ![c] = SubSeq(@, n + 1, Len(@))]
                 /\ wire' = [wire EXCEPT ![c] = @ \o SubSeq(unsent[c], 1, n)]
            \/ /\ Closed(c) /\ UNCHANGED wire
               /\ \/ \E n \in 0 .. Len(unsent[c]) :
                       /\ unsent' = [unsent EXCEPT ![c] = SubSeq(@, n + 1, Len(@))]
                       /\ UNCHANGED <<sender, hungup>>
                  \/ /\ unsent' = [unsent EXCEPT ![c] = <<>>]
                     /\ Goto(c, "cancel") /\ UNCHANGED hungup
                  \/ /\ UNCHANGED <<unsent, sender>>
                     /\ hungup' = [d \in Conns |-> TRUE]
<1>1. unsent[c] \in Seq(Bytes) /\ Len(unsent[c]) \in Nat /\ wire[c] \in Seq(Bytes) /\ Len(wire[c]) \in Nat
  BY LenProperties DEF BytesOK
<1>2. \A n \in 1 .. Len(unsent[c]) :
        Len(wire[c]) + n <= SOCKET_ROOM => n \in 0 .. Len(unsent[c]) /\ n <= SOCKET_ROOM - Len(wire[c])
  BY <1>1, TesterAssumption
<1>3. \A n \in 1 .. Len(unsent[c]) : n \in 0 .. Len(unsent[c])
  BY <1>1
<1> QED
  BY <1>2, <1>3 DEF write

LEMMA WriteBytes ==
  ASSUME NEW c \in Conns, BytesOK, write(c)
  PROVE  BytesOK'
<1>1. UNCHANGED <<script, at, buffer, ran>>
  BY WriteFacts
<1>2. /\ unsent[c] \in Seq(Bytes) /\ Len(unsent[c]) \in Nat
      /\ wire[c] \in Seq(Bytes) /\ Len(wire[c]) \in Nat /\ Len(wire[c]) <= SOCKET_ROOM
  BY LenProperties DEF BytesOK
<1>3. /\ unsent' = [unsent EXCEPT ![c] = unsent'[c]]
      /\ unsent'[c] \in Seq(Bytes)
  <2>1. \A n \in 0 .. Len(unsent[c]) : SubSeq(unsent[c], n + 1, Len(unsent[c])) \in Seq(Bytes)
    BY <1>2, Halves
  <2>2. \/ \E n \in 0 .. Len(unsent[c]) :
             unsent' = [unsent EXCEPT ![c] = SubSeq(unsent[c], n + 1, Len(unsent[c]))]
        \/ unsent' = [unsent EXCEPT ![c] = <<>>]
        \/ unsent' = unsent
    BY WriteFacts
  <2>3. <<>> \in Seq(Bytes)
    OBVIOUS
  <2> QED
    BY <1>2, <2>1, <2>2, <2>3 DEF BytesOK
<1>4. /\ wire' = [wire EXCEPT ![c] = wire'[c]]
      /\ wire'[c] \in Seq(Bytes) /\ Len(wire'[c]) <= SOCKET_ROOM
  <2>1. CASE wire' = wire
    BY <1>2, <2>1 DEF BytesOK
  <2>2. ASSUME NEW n \in 0 .. Len(unsent[c]), n <= SOCKET_ROOM - Len(wire[c]),
               wire' = [wire EXCEPT ![c] = wire[c] \o SubSeq(unsent[c], 1, n)]
        PROVE  /\ wire' = [wire EXCEPT ![c] = wire'[c]]
               /\ wire'[c] \in Seq(Bytes) /\ Len(wire'[c]) <= SOCKET_ROOM
    <3>1. PICK p : p = SubSeq(unsent[c], 1, n)
      OBVIOUS
    <3>2. p \in Seq(Bytes) /\ Len(p) = n
      BY <1>2, <3>1, Halves
    <3>3. wire[c] \o p \in Seq(Bytes) /\ Len(wire[c] \o p) = Len(wire[c]) + n
      BY <1>2, <3>2, ConcatProperties
    <3>4. Len(wire[c]) + n <= SOCKET_ROOM
      BY <1>2, <2>2, TesterAssumption
    <3>5. wire' = [wire EXCEPT ![c] = wire[c] \o p]
      BY <2>2, <3>1
    <3> QED
      BY <3>3, <3>4, <3>5 DEF BytesOK
  <2> QED
    BY <2>1, <2>2, WriteFacts
<1>5. unsent' \in [Conns -> Seq(Bytes)]
  BY <1>3 DEF BytesOK
<1>6. wire' \in [Conns -> Seq(Bytes)] /\ \A d \in Conns : Len(wire'[d]) <= SOCKET_ROOM
  BY <1>4 DEF BytesOK
<1> QED
  BY <1>1, <1>5, <1>6 DEF BytesOK

LEMMA WrittenBytes ==
  ASSUME NEW c \in Conns, BytesOK, written(c)
  PROVE  BytesOK'
<1>1. <<NL>> \in Seq(Bytes)
  BY DEF Bytes
<1>2. unsent' \in [Conns -> Seq(Bytes)]
  BY <1>1 DEF BytesOK, written
<1>3. UNCHANGED <<script, at, buffer, ran, wire>>
  BY DEF written, rvars
<1> QED
  BY <1>2, <1>3 DEF BytesOK

(* The steps of a command thread that move no byte, and run nothing.       *)
Idle(c) ==
  register_client(c) \/ read_ends(c) \/ answered(c) \/ need_more(c) \/ close_agent(c)

(* The actions that leave the bytes alone.                                 *)
LEMMA OtherBytes ==
  ASSUME NEW c \in Conns,
         \/ UNCHANGED tvars /\ (Idle(c))
         \/ connect(c) \/ connect_fails(c) \/ fopen_fails(c) \/ test_running(c)
         \/ cancel(c) \/ join(c) \/ close(c)
         \/ \E k \in {1, 2} : Receiver(c, k)
         \/ UNCHANGED vars,
         BytesOK
  PROVE  UNCHANGED <<script, at, unsent, wire, buffer, ran>>
<1>1. CASE UNCHANGED tvars /\ (Idle(c))
  <2>1. buffer' = buffer
    BY <1>1 DEF Idle, register_client, read_ends, answered, need_more, close_agent, Kept, BytesOK
  <2> QED
    BY <1>1, <2>1 DEF tvars, Idle, register_client, read_ends, answered, need_more, close_agent
<1>2. CASE \/ connect(c) \/ connect_fails(c) \/ fopen_fails(c) \/ test_running(c)
           \/ cancel(c) \/ join(c) \/ close(c)
  BY <1>2 DEF connect, connect_fails, fopen_fails, test_running, cancel, join, close, rvars
<1>3. CASE \E k \in {1, 2} : Receiver(c, k)
  BY <1>3 DEF Receiver, receive_test, receive, print, receive_end, receiver_cancelled, rvars
<1>4. CASE UNCHANGED vars
  BY <1>4 DEF vars, rvars, tvars
<1> QED
  BY <1>1, <1>2, <1>3, <1>4

LEMMA BytesStep == BytesOK /\ [Next]_vars => BytesOK'
<1> SUFFICES ASSUME BytesOK, [Next]_vars PROVE BytesOK'
  OBVIOUS
<1>1. CASE UNCHANGED vars
  BY <1>1 DEF BytesOK, vars, rvars, tvars
<1>2. ASSUME NEW c \in Conns, Reader(c) /\ UNCHANGED tvars
      PROVE  BytesOK'
  <2>1. CASE Idle(c)
    BY <1>2, <2>1, OtherBytes DEF BytesOK
  <2> QED
    BY <1>2, <2>1, ReadBytes, RunBytes DEF Reader, Idle
<1>3. ASSUME NEW c \in Conns, Sender(c)
      PROVE  BytesOK'
  <2>1. CASE \/ connect(c) \/ connect_fails(c) \/ fopen_fails(c) \/ test_running(c)
             \/ cancel(c) \/ join(c) \/ close(c)
    BY <2>1, OtherBytes DEF BytesOK
  <2> QED
    BY <1>3, <2>1, FgetsBytes, WriteBytes, WrittenBytes DEF Sender
<1>4. ASSUME NEW c \in Conns, \E k \in {1, 2} : Receiver(c, k)
      PROVE  BytesOK'
  BY <1>4, OtherBytes DEF BytesOK
<1> QED
  BY <1>1, <1>2, <1>3, <1>4 DEF Next

LEMMA ReaderPlaces ==
  ASSUME NEW c \in Conns, PlacesOK, UNCHANGED tvars, Reader(c)
  PROVE  PlacesOK'
<1>1. UNCHANGED hungup
  BY DEF Reader, register_client, read_some, read_ends, run_line, answered, need_more, close_agent
<1>2. \E place \in {"register", "read", "lines", "answer", "done", "hung", "closed", "killed"} :
        reader' = [reader EXCEPT ![c] = place]
  BY DEF Reader, register_client, read_some, read_ends, run_line, answered, need_more, close_agent, At, AfterLine
<1>3. reader' \in [Conns -> {"register", "read", "lines", "answer", "done", "hung",
                             "closed", "killed"}]
  BY <1>2 DEF PlacesOK
<1>4. locked' \in Conns \cup {NoOne}
  BY DEF PlacesOK, Reader, register_client, read_some, read_ends, run_line, answered, need_more,
         close_agent
<1> QED
  BY <1>1, <1>3, <1>4 DEF PlacesOK, tvars

LEMMA SenderPlaces ==
  ASSUME NEW c \in Conns, BytesOK, PlacesOK, Joins, Sender(c)
  PROVE  PlacesOK'
<1>1. /\ UNCHANGED <<reader, locked, interactive, unopened>>
      /\ alive' \in BOOLEAN
  BY DEF Sender, connect, connect_fails, fopen_fails, test_running, fgets, write,
         written, cancel, join, close, rvars, PlacesOK
<1>2. hungup' \in [Conns -> BOOLEAN]
  BY DEF Sender, connect, connect_fails, fopen_fails, test_running, fgets, write,
         written, cancel, join, close, rvars, PlacesOK
<1>3. running' \in BOOLEAN
  BY DEF Sender, connect, connect_fails, fopen_fails, test_running, fgets, write,
         written, cancel, join, close, PlacesOK
<1>4. sender' \in [Conns -> {"connect", "test", "fgets", "command", "newline",
                             "cancel", "join", "close", "exit"}]
  <2>1. CASE write(c)
    <3>1. sender' = sender \/ Goto(c, "cancel")
      BY <2>1, WriteFacts
    <3> QED
      BY <3>1 DEF Goto, PlacesOK
  <2>2. CASE ~write(c)
    <3>1. \E place \in {"connect", "test", "fgets", "command", "newline",
                        "cancel", "join", "close", "exit"} : Goto(c, place)
      BY <2>2 DEF Sender, connect, connect_fails, fopen_fails, test_running, fgets,
                  written, cancel, join, close
    <3> QED
      BY <3>1 DEF Goto, PlacesOK
  <2> QED
    BY <2>1, <2>2
<1>5. receiver' \in [Conns -> [{1, 2} -> {"none", "loop", "read", "print", "done"}]]
  <2>1. CASE connect(c)
    <3>1. [k \in {1, 2} |-> IF k \in Receivers(c) THEN "loop" ELSE "none"]
            \in [{1, 2} -> {"none", "loop", "read", "print", "done"}]
      OBVIOUS
    <3> QED
      BY <2>1, <3>1 DEF connect, PlacesOK
  <2>2. CASE join(c)
    <3>1. receiver' = [receiver EXCEPT ![c][Victim(c)] = "none"]
      BY <2>2 DEF join
    <3> QED
      BY <3>1 DEF PlacesOK
  <2>3. CASE ~connect(c) /\ ~join(c)
    <3>1. receiver' = receiver
      BY <2>3 DEF Sender, connect_fails, fopen_fails, test_running, fgets, write,
                  written, cancel, close
    <3> QED
      BY <3>1 DEF PlacesOK
  <2> QED
    BY <2>1, <2>2, <2>3
<1>6. cancelled' \in [Conns -> SUBSET {1, 2}]
  <2>1. CASE cancel(c)
    <3>1. receiver[c][1] # "none"
      BY <2>1 DEF cancel, Joins
    <3>2. Victim(c) \in {1, 2}
      BY <3>1, VictimIs
    <3>3. cancelled' = [cancelled EXCEPT ![c] = cancelled[c] \cup {Victim(c)}]
      BY <2>1 DEF cancel, WithCancelled
    <3> QED
      BY <3>2, <3>3 DEF PlacesOK
  <2>2. CASE ~cancel(c)
    <3>1. cancelled' = cancelled
      BY <2>2 DEF Sender, connect, connect_fails, fopen_fails, test_running, fgets,
                  write, written, join, close
    <3> QED
      BY <3>1 DEF PlacesOK
  <2> QED
    BY <2>1, <2>2
<1> QED
  BY <1>1, <1>2, <1>3, <1>4, <1>5, <1>6 DEF PlacesOK

(* A receiver goes from one place to another, and is there before and      *)
(* after.                                                                  *)
LEMMA ReceiverMoves ==
  ASSUME NEW c \in Conns, NEW k \in {1, 2}, Receiver(c, k)
  PROVE  /\ receiver[c][k] # "none"
         /\ \E place \in {"loop", "read", "print", "done"} :
              receiver' = [receiver EXCEPT ![c][k] = place]
         /\ UNCHANGED <<hungup, reader, locked, alive, interactive, unopened, sender, cancelled>>
         /\ running' = running \/ running' = FALSE
  BY DEF Receiver, receive_test, receive, print, receive_end, receiver_cancelled, Move, rvars

LEMMA ReceiverPlaces ==
  ASSUME NEW c \in Conns, NEW k \in {1, 2}, PlacesOK, Receiver(c, k)
  PROVE  PlacesOK'
<1>1. /\ UNCHANGED <<hungup, reader, locked, alive, interactive, unopened, sender, cancelled>>
      /\ running' = running \/ running' = FALSE
  BY ReceiverMoves
<1>2. PICK place \in {"loop", "read", "print", "done"} :
        receiver' = [receiver EXCEPT ![c][k] = place]
  BY ReceiverMoves
<1>3. receiver' \in [Conns -> [{1, 2} -> {"none", "loop", "read", "print", "done"}]]
  BY <1>2 DEF PlacesOK
<1> QED
  BY <1>1, <1>3 DEF PlacesOK

LEMMA PlacesStep == BytesOK /\ PlacesOK /\ Joins /\ [Next]_vars => PlacesOK'
<1> SUFFICES ASSUME BytesOK, PlacesOK, Joins, [Next]_vars PROVE PlacesOK'
  OBVIOUS
<1>1. CASE UNCHANGED vars
  BY <1>1 DEF PlacesOK, vars, rvars, tvars
<1> QED
  BY <1>1, ReaderPlaces, SenderPlaces, ReceiverPlaces DEF Next

LEMMA JoinsStep == BytesOK /\ PlacesOK /\ Joins /\ [Next]_vars => Joins'
<1> SUFFICES ASSUME BytesOK, PlacesOK, Joins, [Next]_vars PROVE Joins'
  OBVIOUS
<1>1. CASE UNCHANGED <<sender, receiver>>
  BY <1>1 DEF Joins
<1>2. ASSUME NEW c \in Conns, Sender(c) PROVE Joins'
  <2> SUFFICES ASSUME NEW d \in Conns, sender'[d] \notin {"connect", "exit", "close"}
               PROVE  receiver'[d][1] # "none"
    BY DEF Joins
  <2>1. CASE connect(c)
    <3>1. receiver'[c] = [k \in {1, 2} |-> IF k \in Receivers(c) THEN "loop" ELSE "none"]
      BY <2>1 DEF connect, PlacesOK
    <3>2. 1 \in Receivers(c)
      BY DEF Receivers
    <3>3. receiver'[c][1] # "none"
      BY <3>1, <3>2
    <3>4. d # c => sender'[d] = sender[d] /\ receiver'[d] = receiver[d]
      BY <2>1 DEF connect, Goto, PlacesOK
    <3> QED
      BY <3>3, <3>4 DEF Joins
  <2>2. CASE join(c)
    <3>1. sender[c] = "join" /\ receiver[c][1] # "none"
      BY <2>2 DEF join, Joins
    <3>2. Victim(c) \in {1, 2}
      BY <3>1, VictimIs
    <3>3. d # c => sender'[d] = sender[d] /\ receiver'[d] = receiver[d]
      BY <2>2 DEF join, Goto, PlacesOK
    <3>4. CASE Victim(c) = 1
      <4>1. sender'[c] \in {"exit", "close"}
        BY <2>2, <3>4 DEF join, Goto, PlacesOK
      <4> QED
        BY <3>3, <4>1 DEF Joins
    <3>5. CASE Victim(c) = 2
      <4>1. receiver'[c][1] = receiver[c][1]
        BY <2>2, <3>5 DEF join, PlacesOK
      <4> QED
        BY <3>1, <3>3, <4>1 DEF Joins
    <3> QED
      BY <3>2, <3>4, <3>5
  <2>3. CASE ~connect(c) /\ ~join(c)
    <3>1. receiver' = receiver
      BY <1>2, <2>3 DEF Sender, connect_fails, fopen_fails, test_running, fgets, write,
                  written, cancel, close
    <3>2. d # c => sender'[d] = sender[d]
      <4>1. sender' = sender \/ \E place : Goto(c, place)
        BY <1>2, <2>3 DEF Sender, connect_fails, fopen_fails, test_running, fgets, write,
                    written, cancel, close
      <4> QED
        BY <4>1 DEF Goto, PlacesOK
    <3>3. sender[c] \in {"connect", "exit", "close"} => sender'[c] \in {"exit"}
      BY <1>2, <2>3 DEF Sender, connect_fails, fopen_fails, test_running, fgets, write,
                  written, cancel, close, Goto, PlacesOK
    <3> QED
      BY <3>1, <3>2, <3>3 DEF Joins
  <2> QED
    BY <2>1, <2>2, <2>3
<1>3. ASSUME NEW c \in Conns, NEW k \in {1, 2}, Receiver(c, k) PROVE Joins'
  <2>1. PICK place \in {"loop", "read", "print", "done"} :
          receiver' = [receiver EXCEPT ![c][k] = place]
    BY <1>3, ReceiverMoves
  <2>2. sender' = sender
    BY <1>3, ReceiverMoves
  <2>3. \A d \in Conns : receiver[d][1] # "none" => receiver'[d][1] # "none"
    BY <2>1 DEF PlacesOK
  <2> QED
    BY <2>2, <2>3 DEF Joins
<1> QED
  BY <1>1, <1>2, <1>3 DEF Next, vars, tvars

(* What printf prints is the beginning of the text, without a NUL, and all *)
(* of a text that has none.                                                *)
LEMMA Printable ==
  ASSUME NEW text \in Seq(Nat)
  PROVE  \E n \in 0 .. Len(text) :
           /\ UpToNul(text) = SubSeq(text, 1, n)
           /\ \A i \in 1 .. n : text[i] # NUL
           /\ n = Len(text) \/ text[n + 1] = NUL
<1> DEFINE S == {i \in DOMAIN text : text[i] = NUL} \cup {Len(text) + 1}
<1>1. Len(text) \in Nat /\ DOMAIN text = 1 .. Len(text)
  BY LenProperties
<1>2. S \in SUBSET Nat /\ S # {} /\ \A i \in S : i \in 1 .. Len(text) + 1
  BY <1>1
<1>3. PICK m : m = Min(S)
  OBVIOUS
<1>4. m \in S /\ \A i \in S : m <= i
  <2> HIDE DEF S
  <2> QED
    BY <1>2, <1>3, LeastIs
<1>5. m \in 1 .. Len(text) + 1
  BY <1>2, <1>4
<1>6. m - 1 \in 0 .. Len(text) /\ (m - 1) + 1 = m
  BY <1>1, <1>5
<1>7. ASSUME NEW i \in 1 .. m - 1
      PROVE  text[i] # NUL
  <2>1. i \in DOMAIN text /\ ~(m <= i)
    BY <1>1, <1>5
  <2> QED
    BY <1>4, <2>1
<1>8. m - 1 = Len(text) \/ text[(m - 1) + 1] = NUL
  BY <1>1, <1>4, <1>5, <1>6
<1>9. UpToNul(text) = SubSeq(text, 1, m - 1)
  BY <1>3 DEF UpToNul
<1> QED
  BY <1>6, <1>7, <1>8, <1>9

(* The receivers' part of what a step changes.                             *)
LEMMA RunAnswers ==
  ASSUME NEW c \in Conns, BytesOK, AnswersOK, UNCHANGED tvars, run_line(c)
  PROVE  \E line \in Seq(Bytes) :
           /\ ran' = [ran EXCEPT ![c] = Append(@, line)]
           /\ replies' = [replies EXCEPT ![c] = @ \o Answer(Len(ran[c]) + 1, line)]
           /\ Answer(Len(ran[c]) + 1, line) \in Seq(Nat)
           /\ UNCHANGED <<interactive, sender, receiver, hand, printed>>
<1>1. PICK i \in DOMAIN buffer[c] :
        LET text == SubSeq(buffer[c], 1, i - 1)
        IN  /\ ran' = [ran EXCEPT ![c] = Append(@, text)]
            /\ replies' = [replies EXCEPT ![c] = @ \o Answer(Len(ran'[c]), text)]
  BY DEF run_line
<1>2. PICK line : line = SubSeq(buffer[c], 1, i - 1)
  OBVIOUS
<1>3. line \in Seq(Bytes)
  <2>1. buffer[c] \in Seq(Bytes) /\ Len(buffer[c]) \in Nat /\ i \in 1 .. Len(buffer[c])
    BY LenProperties DEF BytesOK
  <2>2. i - 1 \in 0 .. Len(buffer[c])
    BY <2>1
  <2> QED
    BY <1>2, <2>1, <2>2, Halves
<1>4. /\ ran' = [ran EXCEPT ![c] = Append(@, line)]
      /\ replies' = [replies EXCEPT ![c] = @ \o Answer(Len(ran'[c]), line)]
  BY <1>1, <1>2
<1>5. Len(ran[c]) \in Nat /\ Len(ran'[c]) = Len(ran[c]) + 1
  <2>1. ran[c] \in Seq(Seq(Bytes)) /\ ran'[c] = Append(ran[c], line)
    BY <1>4 DEF BytesOK
  <2> QED
    BY <1>3, <2>1, AppendProperties, LenProperties
<1>6. Answer(Len(ran[c]) + 1, line) \in Seq(Nat)
  BY <1>5 DEF Answer, NUL
<1> QED
  BY <1>3, <1>4, <1>5, <1>6 DEF tvars

LEMMA ReceiveAnswers ==
  ASSUME NEW c \in Conns, NEW k \in {1, 2}, AnswersOK, receive(c, k)
  PROVE  \E n \in 1 .. Len(replies[c]) :
           /\ hand' = [hand EXCEPT ![c][k] = SubSeq(replies[c], 1, n)]
           /\ replies' = [replies EXCEPT ![c] = SubSeq(@, n + 1, Len(@))]
  BY DEF receive, Terminated

LEMMA OtherAnswers ==
  ASSUME [Next]_vars,
         \A c \in Conns :
           /\ ~(run_line(c) /\ UNCHANGED tvars)
           /\ \A k \in {1, 2} : ~receive(c, k) /\ ~print(c, k)
  PROVE  UNCHANGED <<replies, hand, printed, ran>>
<1>1. ASSUME NEW c \in Conns, Sender(c) PROVE UNCHANGED <<replies, hand, printed, ran>>
  BY <1>1 DEF Sender, connect, connect_fails, fopen_fails, test_running, fgets, write,
              written, cancel, join, close, rvars
<1>2. ASSUME NEW c \in Conns, NEW k \in {1, 2}, Receiver(c, k)
      PROVE  UNCHANGED <<replies, hand, printed, ran>>
  BY <1>2 DEF Receiver, receive_test, receive_end, receiver_cancelled, rvars
<1>3. ASSUME NEW c \in Conns, Reader(c), UNCHANGED tvars
      PROVE  UNCHANGED <<replies, hand, printed, ran>>
  BY <1>3 DEF Reader, register_client, read_some, read_ends, answered, need_more, close_agent, tvars
<1> QED
  BY <1>1, <1>2, <1>3 DEF Next, vars, rvars, tvars

LEMMA AnswersStep == BytesOK /\ AnswersOK /\ [Next]_vars => AnswersOK'
<1> SUFFICES ASSUME BytesOK, AnswersOK, [Next]_vars PROVE AnswersOK'
  OBVIOUS
<1>1. ASSUME NEW c \in Conns, run_line(c), UNCHANGED tvars PROVE AnswersOK'
  <2>1. PICK line \in Seq(Bytes) :
          /\ replies' = [replies EXCEPT ![c] = @ \o Answer(Len(ran[c]) + 1, line)]
          /\ Answer(Len(ran[c]) + 1, line) \in Seq(Nat)
          /\ UNCHANGED <<hand, printed>>
    BY <1>1, RunAnswers
  <2>2. replies[c] \o Answer(Len(ran[c]) + 1, line) \in Seq(Nat)
    BY <2>1, ConcatProperties DEF AnswersOK
  <2> QED
    BY <2>1, <2>2 DEF AnswersOK
<1>2. ASSUME NEW c \in Conns, NEW k \in {1, 2}, receive(c, k) PROVE AnswersOK'
  <2>1. PICK n \in 1 .. Len(replies[c]) :
          /\ hand' = [hand EXCEPT ![c][k] = SubSeq(replies[c], 1, n)]
          /\ replies' = [replies EXCEPT ![c] = SubSeq(@, n + 1, Len(@))]
    BY <1>2, ReceiveAnswers
  <2>2. replies[c] \in Seq(Nat) /\ Len(replies[c]) \in Nat
    BY LenProperties DEF AnswersOK
  <2>3. n \in 0 .. Len(replies[c])
    BY <2>2
  <2>4. PICK p, q : p = SubSeq(replies[c], 1, n) /\ q = SubSeq(replies[c], n + 1, Len(replies[c]))
    OBVIOUS
  <2>5. p \in Seq(Nat) /\ q \in Seq(Nat)
    BY <2>2, <2>3, <2>4, Halves
  <2>6. hand' = [hand EXCEPT ![c][k] = p] /\ replies' = [replies EXCEPT ![c] = q]
    BY <2>1, <2>4
  <2>7. printed' = printed
    BY <1>2 DEF receive
  <2> QED
    BY <2>5, <2>6, <2>7 DEF AnswersOK
<1>3. ASSUME NEW c \in Conns, NEW k \in {1, 2}, print(c, k) PROVE AnswersOK'
  <2>1. hand[c][k] \in Seq(Nat) /\ printed[c] \in Seq(Nat)
    BY DEF AnswersOK
  <2>2. UpToNul(hand[c][k]) \in Seq(Nat)
    <3>1. PICK n \in 0 .. Len(hand[c][k]) : UpToNul(hand[c][k]) = SubSeq(hand[c][k], 1, n)
      BY <2>1, Printable
    <3>2. SubSeq(hand[c][k], 1, n) \in Seq(Nat)
      BY <2>1, Halves
    <3> QED
      BY <3>1, <3>2
  <2>3. printed[c] \o UpToNul(hand[c][k]) \in Seq(Nat)
    BY <2>1, <2>2, ConcatProperties
  <2>4. /\ printed' = [printed EXCEPT ![c] = printed[c] \o UpToNul(hand[c][k])]
        /\ UNCHANGED <<hand, replies>>
    BY <1>3 DEF print, rvars
  <2> QED
    BY <2>3, <2>4 DEF AnswersOK
<1>4. CASE \A c \in Conns :
             ~(run_line(c) /\ UNCHANGED tvars) /\ \A k \in {1, 2} : ~receive(c, k) /\ ~print(c, k)
  <2>1. UNCHANGED <<replies, hand, printed>>
    BY <1>4, OtherAnswers
  <2> QED
    BY <2>1 DEF AnswersOK
<1> QED
  BY <1>1, <1>2, <1>3, <1>4

-----------------------------------------------------------------------------
(* What is under way on a connection is whole lines of the script: those   *)
(* fgets has given and the server has not run, from the buffer of the      *)
(* agent over the socket to the client that still owes a newline.          *)

Owed(c) == IF sender[c] = "command" THEN <<NL>> ELSE <<>>

Coming(c) == unsent[c] \o Owed(c)

InFlight(c) == buffer[c] \o (wire[c] \o Coming(c))

Stream(c) ==
  /\ Len(ran[c]) <= at[c] /\ \A k \in 1 .. Len(ran[c]) : ran[c][k] = script[k]
  /\ sender[c] \notin {"command", "newline"} => unsent[c] = <<>>
  /\ ~Closed(c) => Carries(InFlight(c), script, Len(ran[c]), at[c])
  /\ reader[c] \in {"register", "read"} => \A i \in 1 .. Len(buffer[c]) : buffer[c][i] # NL
  /\ reader[c] = "answer" => ran[c] # <<>>

Streams == \A c \in Conns : Stream(c)

LEMMA StreamTypes ==
  ASSUME NEW c \in Conns, BytesOK
  PROVE  /\ buffer[c] \in Seq(Bytes) /\ wire[c] \in Seq(Bytes) /\ unsent[c] \in Seq(Bytes)
         /\ Owed(c) \in Seq(Bytes) /\ Coming(c) \in Seq(Bytes)
         /\ wire[c] \o Coming(c) \in Seq(Bytes) /\ InFlight(c) \in Seq(Bytes)
         /\ Len(buffer[c]) \in Nat /\ Len(wire[c]) \in Nat /\ Len(unsent[c]) \in Nat
         /\ Len(ran[c]) \in Nat /\ Len(script) \in Nat /\ at[c] \in 0 .. Len(script)
<1>1. /\ buffer[c] \in Seq(Bytes) /\ wire[c] \in Seq(Bytes) /\ unsent[c] \in Seq(Bytes)
      /\ ran[c] \in Seq(Seq(Bytes)) /\ script \in Seq(Seq(Chars)) /\ at[c] \in 0 .. Len(script)
  BY DEF BytesOK
<1>2. /\ Len(buffer[c]) \in Nat /\ Len(wire[c]) \in Nat /\ Len(unsent[c]) \in Nat
      /\ Len(ran[c]) \in Nat /\ Len(script) \in Nat
  BY <1>1, LenProperties
<1>3. Owed(c) \in Seq(Bytes)
  <2>1. <<NL>> \in Seq(Bytes) /\ <<>> \in Seq(Bytes)
    BY DEF Bytes
  <2> QED
    BY <2>1 DEF Owed
<1>4. Coming(c) \in Seq(Bytes)
  BY <1>1, <1>3, ConcatProperties DEF Coming
<1>5. wire[c] \o Coming(c) \in Seq(Bytes)
  BY <1>1, <1>4, ConcatProperties
<1>6. InFlight(c) \in Seq(Bytes)
  BY <1>1, <1>5, ConcatProperties DEF InFlight
<1> QED
  BY <1>1, <1>2, <1>3, <1>4, <1>5, <1>6

(* A step that does not disturb the stream of a connection.                *)
Beside(c) ==
  /\ script' = script /\ wire'[c] = wire[c] /\ buffer'[c] = buffer[c] /\ ran'[c] = ran[c]
  /\ unsent'[c] = unsent[c] /\ at'[c] = at[c]
  /\ \/ sender'[c] = sender[c]
     \/ sender[c] \notin {"command", "newline"} /\ sender'[c] \notin {"command", "newline"}
  /\ \/ reader'[c] = reader[c]
     \/ reader'[c] = "closed"
     \/ reader[c] = "register" /\ reader'[c] = "read"
     \/ ~Closed(c) /\ reader'[c] \notin {"register", "read", "answer"}

LEMMA StreamSame ==
  ASSUME NEW c \in Conns, Stream(c), Beside(c)
  PROVE  Stream(c)'
<1> USE DEF Beside
<1>1. InFlight(c)' = InFlight(c)
  BY DEF InFlight, Coming, Owed
<1>2. Closed(c) => Closed(c)'
  BY DEF Closed
<1>3. /\ reader'[c] \in {"register", "read"} => reader[c] \in {"register", "read"}
      /\ reader'[c] = "answer" => reader[c] = "answer"
  OBVIOUS
<1> QED
  BY <1>1, <1>2, <1>3 DEF Stream

LEMMA ReadStream ==
  ASSUME NEW c \in Conns, BytesOK, PlacesOK, Stream(c), UNCHANGED tvars, read_some(c)
  PROVE  Stream(c)'
<1>1. PICK n \in 1 .. Room(c) :
        /\ n <= Len(wire[c])
        /\ buffer' = [buffer EXCEPT ![c] = @ \o SubSeq(wire[c], 1, n)]
        /\ wire' = [wire EXCEPT ![c] = SubSeq(@, n + 1, Len(@))]
  BY DEF read_some
<1>2. n \in 0 .. Len(wire[c])
  BY <1>1, StreamTypes, ReaderAssumption DEF Room
<1>3. /\ buffer'[c] = buffer[c] \o SubSeq(wire[c], 1, n)
      /\ wire'[c] = SubSeq(wire[c], n + 1, Len(wire[c]))
  BY <1>1 DEF BytesOK
<1>4. Coming(c)' = Coming(c)
  BY DEF tvars, Coming, Owed
<1>5. InFlight(c)' = InFlight(c)
  <2>1. PICK s, t, u : s = buffer[c] /\ t = wire[c] /\ u = Coming(c)
    OBVIOUS
  <2>2. s \in Seq(Bytes) /\ t \in Seq(Bytes) /\ u \in Seq(Bytes) /\ n \in 0 .. Len(t)
    BY <1>2, <2>1, StreamTypes
  <2>3. (s \o SubSeq(t, 1, n)) \o (SubSeq(t, n + 1, Len(t)) \o u) = s \o (t \o u)
    BY <2>2, HandedOver
  <2> QED
    BY <1>3, <1>4, <2>1, <2>3 DEF InFlight
<1>6. reader'[c] = "lines" /\ reader[c] = "read"
  BY DEF read_some, At, PlacesOK
<1>7. UNCHANGED <<script, at, unsent, sender, ran>>
  BY DEF tvars, read_some
<1> QED
  BY <1>5, <1>6, <1>7 DEF Stream, Closed

LEMMA FgetsStream ==
  ASSUME NEW c \in Conns, BytesOK, PlacesOK, Stream(c), fgets(c)
  PROVE  Stream(c)'
<1>1. UNCHANGED <<script, wire, buffer, ran, reader>> /\ sender[c] = "fgets" /\ unsent[c] = <<>>
  BY DEF fgets, rvars, Stream
<1>2. CASE UNCHANGED <<at, unsent>> /\ Goto(c, "cancel")
  <2>1. sender'[c] = "cancel"
    BY <1>2 DEF Goto, PlacesOK
  <2>2. sender[c] \notin {"command", "newline"} /\ sender'[c] \notin {"command", "newline"}
    BY <1>1, <2>1
  <2>3. /\ wire'[c] = wire[c] /\ buffer'[c] = buffer[c] /\ ran'[c] = ran[c]
        /\ unsent'[c] = unsent[c] /\ at'[c] = at[c]
        /\ reader'[c] = reader[c] /\ script' = script
    BY <1>1, <1>2
  <2>4. Beside(c)
    BY <2>2, <2>3 DEF Beside
  <2> QED
    BY <2>4, StreamSame
<1>3. CASE /\ at[c] < Len(script)
           /\ at' = [at EXCEPT ![c] = @ + 1]
           /\ unsent' = [unsent EXCEPT ![c] = script[at[c] + 1]]
           /\ Goto(c, "command")
  <2>1. /\ at'[c] = at[c] + 1 /\ unsent'[c] = script[at[c] + 1] /\ sender'[c] = "command"
    BY <1>3 DEF Goto, PlacesOK, BytesOK
  <2>2. /\ at[c] \in Nat /\ at[c] + 1 \in 1 .. Len(script) /\ Len(ran[c]) \in Nat
        /\ script \in Seq(Seq(Chars)) /\ Len(ran[c]) <= at[c]
    BY <1>3, StreamTypes DEF BytesOK, Stream
  <2>3. script[at[c] + 1] \in Seq(Chars)
    BY <2>2, ElementOfSeq
  <2>4. PICK tail : tail = script[at[c] + 1] \o <<NL>>
    OBVIOUS
  <2>5. tail \in Seq(Bytes)
    <3>1. script[at[c] + 1] \in Seq(Bytes) /\ <<NL>> \in Seq(Bytes)
      BY <2>3, SeqMonotonic DEF Bytes
    <3> QED
      BY <2>4, <3>1, ConcatProperties
  <2>6. InFlight(c) = buffer[c] \o wire[c]
    <3>1. Coming(c) = <<>>
      BY <1>1 DEF Coming, Owed
    <3>2. wire[c] \o <<>> = wire[c]
      BY StreamTypes, ConcatEmptySeq
    <3> QED
      BY <3>1, <3>2 DEF InFlight
  <2>7. InFlight(c)' = InFlight(c) \o tail
    <3>1. Coming(c)' = tail
      BY <2>1, <2>4 DEF Coming, Owed
    <3>2. InFlight(c)' = buffer[c] \o (wire[c] \o tail)
      BY <1>1, <3>1 DEF InFlight
    <3>3. (buffer[c] \o wire[c]) \o tail = buffer[c] \o (wire[c] \o tail)
      <4>1. PICK s, t : s = buffer[c] /\ t = wire[c]
        OBVIOUS
      <4>2. s \in Seq(Bytes) /\ t \in Seq(Bytes)
        BY <4>1, StreamTypes
      <4>3. Regroups(s, t, tail)
        BY <2>5, <4>2, JoinedThrice
      <4> QED
        BY <4>1, <4>3 DEF Regroups
    <3> QED
      BY <2>6, <3>2, <3>3
  <2>8. ~Closed(c) => Carries(InFlight(c)', script, Len(ran[c]), at[c] + 1)
    <3>1. at[c] < Len(script) /\ InFlight(c) \in Seq(Bytes)
      BY <1>3, StreamTypes
    <3>2. SUFFICES ASSUME Carries(InFlight(c), script, Len(ran[c]), at[c])
                   PROVE  Carries(InFlight(c) \o tail, script, Len(ran[c]), at[c] + 1)
      BY <2>7 DEF Stream
    <3> QED
      BY <2>2, <2>4, <3>1, <3>2, CarriesMore
  <2>9. Len(ran[c]) <= at[c] + 1
    BY <2>2
  <2> QED
    BY <1>1, <2>1, <2>8, <2>9 DEF Stream, Closed
<1> QED
  BY <1>2, <1>3 DEF fgets

LEMMA WriteStream ==
  ASSUME NEW c \in Conns, BytesOK, PlacesOK, Stream(c), write(c)
  PROVE  Stream(c)'
<1>1. UNCHANGED <<buffer, reader, ran, script, at>> /\ sender[c] \in {"command", "newline"}
  BY WriteFacts DEF write
<1>2. CASE /\ Closed(c)
           /\ \/ UNCHANGED sender
              \/ unsent' = [unsent EXCEPT ![c] = <<>>] /\ Goto(c, "cancel")
  <2>1. sender'[c] \notin {"command", "newline"} => unsent'[c] = <<>>
    BY <1>1, <1>2 DEF Goto, PlacesOK, BytesOK
  <2> QED
    BY <1>1, <1>2, <2>1 DEF Stream, Closed
<1>3. ASSUME NEW n \in 0 .. Len(unsent[c]), UNCHANGED sender,
             unsent' = [unsent EXCEPT ![c] = SubSeq(@, n + 1, Len(@))],
             wire' = [wire EXCEPT ![c] = @ \o SubSeq(unsent[c], 1, n)]
      PROVE  Stream(c)'
  <2>1. /\ unsent'[c] = SubSeq(unsent[c], n + 1, Len(unsent[c]))
        /\ wire'[c] = wire[c] \o SubSeq(unsent[c], 1, n)
    BY <1>3 DEF BytesOK
  <2>2. Owed(c)' = Owed(c)
    BY <1>3 DEF Owed
  <2>3. (wire[c] \o Coming(c))' = wire[c] \o Coming(c)
    <3>1. PICK s, t, u : s = wire[c] /\ t = unsent[c] /\ u = Owed(c)
      OBVIOUS
    <3>2. s \in Seq(Bytes) /\ t \in Seq(Bytes) /\ u \in Seq(Bytes) /\ n \in 0 .. Len(t)
      BY <3>1, StreamTypes
    <3>3. (s \o SubSeq(t, 1, n)) \o (SubSeq(t, n + 1, Len(t)) \o u) = s \o (t \o u)
      BY <3>2, HandedOver
    <3> QED
      BY <2>1, <2>2, <3>1, <3>3 DEF Coming
  <2>4. InFlight(c)' = InFlight(c)
    BY <1>1, <2>3 DEF InFlight
  <2> QED
    BY <1>1, <1>3, <2>4 DEF Stream, Closed
<1> QED
  BY <1>2, <1>3, WriteFacts

LEMMA WrittenStream ==
  ASSUME NEW c \in Conns, BytesOK, PlacesOK, Stream(c), written(c)
  PROVE  Stream(c)'
<1>1. UNCHANGED <<script, wire, buffer, ran, reader, at>> /\ unsent[c] = <<>>
  BY DEF written, rvars
<1>2. CASE sender[c] = "command"
  <2>1. unsent'[c] = <<NL>> /\ sender'[c] = "newline"
    BY <1>2 DEF written, Goto, PlacesOK, BytesOK
  <2>2. Coming(c)' = Coming(c)
    BY <1>1, <1>2, <2>1 DEF Coming, Owed
  <2>3. InFlight(c)' = InFlight(c)
    BY <1>1, <2>2 DEF InFlight
  <2> QED
    BY <1>1, <2>1, <2>3 DEF Stream, Closed
<1>3. CASE sender[c] = "newline"
  <2>1. unsent' = unsent /\ sender'[c] \in {"cancel", "test"}
    BY <1>3 DEF written, Goto, PlacesOK
  <2>2. Coming(c)' = Coming(c)
    BY <1>3, <2>1 DEF Coming, Owed
  <2>3. InFlight(c)' = InFlight(c)
    BY <1>1, <2>2 DEF InFlight
  <2> QED
    BY <1>1, <2>1, <2>3 DEF Stream, Closed
<1> QED
  BY <1>2, <1>3 DEF written

(* The first newline of the buffer is the end of the line that was sent.   *)
LEMMA RunStream ==
  ASSUME NEW c \in Conns, BytesOK, PlacesOK, Stream(c), UNCHANGED tvars, run_line(c)
  PROVE  Stream(c)'
<1>1. PICK i \in DOMAIN buffer[c] :
        /\ NewlineAt(c, i)
        /\ ran' = [ran EXCEPT ![c] = Append(@, SubSeq(buffer[c], 1, i - 1))]
        /\ buffer' = [buffer EXCEPT ![c] = SubSeq(@, i + 1, Len(@))]
  BY DEF run_line
<1>2. UNCHANGED <<script, at, unsent, sender, wire>> /\ reader[c] = "lines"
  BY DEF tvars, run_line
<1>3. reader'[c] = "answer"
  BY DEF run_line, At, PlacesOK
<1> DEFINE bytes == InFlight(c)
           from == Len(ran[c])
           to == at[c]
<1>4. /\ bytes \in Seq(Bytes) /\ from \in Nat /\ to \in 0 .. Len(script) /\ from <= to
      /\ script \in Seq(Seq(Chars)) /\ Carries(bytes, script, from, to)
  <2>1. Carries(bytes, script, from, to) /\ from <= to
    BY <1>2 DEF Stream, Closed
  <2> QED
    BY <2>1, StreamTypes DEF BytesOK
<1>5. /\ buffer[c] \in Seq(Bytes) /\ Len(buffer[c]) \in Nat /\ i \in 1 .. Len(buffer[c])
      /\ wire[c] \o Coming(c) \in Seq(Bytes)
  BY StreamTypes
<1>6. /\ Len(bytes) \in Nat /\ Len(buffer[c]) <= Len(bytes)
      /\ \A k \in 1 .. Len(buffer[c]) : bytes[k] = buffer[c][k]
  <2>1. PICK s, t : s = buffer[c] /\ t = wire[c] \o Coming(c)
    OBVIOUS
  <2>2. s \in Seq(Bytes) /\ t \in Seq(Bytes) /\ Len(s) \in Nat /\ Len(t) \in Nat
    BY <1>5, <2>1, LenProperties
  <2>3. /\ Len(s \o t) = Len(s) + Len(t)
        /\ \A k \in 1 .. Len(s) + Len(t) : (s \o t)[k] = IF k <= Len(s) THEN s[k] ELSE t[k - Len(s)]
    BY <2>2, ConcatProperties
  <2>4. /\ Len(s \o t) \in Nat /\ Len(s) <= Len(s \o t)
        /\ \A k \in 1 .. Len(s) : (s \o t)[k] = s[k]
    BY <2>2, <2>3
  <2> QED
    BY <2>1, <2>4 DEF InFlight
<1>7. bytes # <<>>
  <2>1. Len(bytes) # 0
    BY <1>5, <1>6
  <2> QED
    BY <2>1
<1> HIDE DEF bytes, from, to
<1>8. PICK line : line = script[from + 1]
  OBVIOUS
<1>9. /\ from < to /\ Len(line) \in Nat /\ Len(line) + 1 <= Len(bytes)
      /\ bytes[Len(line) + 1] = NL
      /\ \A k \in 1 .. Len(line) : bytes[k] = line[k] /\ bytes[k] # NL
  <2>1. Begins(bytes, script, from, to)
    BY <1>4, <1>7, CarriesFirst
  <2> QED
    BY <1>8, <2>1 DEF Begins
<1>10. i = Len(line) + 1
  <2>1. buffer[c][i] = NL /\ \A k \in 1 .. i - 1 : buffer[c][k] # NL
    BY <1>1 DEF NewlineAt
  <2>2. ~(i <= Len(line))
    BY <1>5, <1>6, <1>9, <2>1
  <2>3. ~(Len(line) + 1 < i)
    <3>1. SUFFICES ASSUME Len(line) + 1 < i PROVE FALSE
      OBVIOUS
    <3>2. Len(line) + 1 \in 1 .. i - 1 /\ Len(line) + 1 \in 1 .. Len(buffer[c])
      BY <1>5, <1>9, <3>1
    <3> QED
      BY <1>6, <1>9, <2>1, <3>2
  <2> QED
    BY <1>5, <1>9, <2>2, <2>3
<1>11. PICK text, rest :
         text = SubSeq(buffer[c], 1, i - 1) /\ rest = SubSeq(buffer[c], i + 1, Len(buffer[c]))
  OBVIOUS
<1>12. i - 1 \in 0 .. Len(buffer[c]) /\ i \in 0 .. Len(buffer[c]) /\ i - 1 = Len(line)
  BY <1>5, <1>9, <1>10
<1>13. text \in Seq(Bytes) /\ Len(text) = Len(line) /\ \A k \in 1 .. Len(line) : text[k] = buffer[c][k]
  BY <1>5, <1>11, <1>12, Halves
<1>14. line \in Seq(Bytes)
  <2>1. from + 1 \in 1 .. Len(script)
    BY <1>4, <1>9
  <2>2. line \in Seq(Chars)
    BY <1>4, <1>8, <2>1, ElementOfSeq
  <2> QED
    BY <2>2, SeqMonotonic DEF Bytes
<1>15. text = line
  <2>1. \A k \in 1 .. Len(line) : text[k] = line[k]
    BY <1>5, <1>6, <1>9, <1>12, <1>13
  <2> QED
    BY <1>13, <1>14, <2>1, SeqEqual
<1>16. ran'[c] = Append(ran[c], line) /\ buffer'[c] = rest
  BY <1>1, <1>11, <1>15 DEF BytesOK
<1>17. /\ Len(ran'[c]) = from + 1 /\ \A k \in 1 .. from : ran'[c][k] = ran[c][k]
       /\ ran'[c][from + 1] = line
  <2>1. ran[c] \in Seq(Seq(Bytes))
    BY DEF BytesOK
  <2> QED
    BY <1>14, <1>16, <2>1, AppendProperties DEF from
<1>18. \A k \in 1 .. from + 1 : ran'[c][k] = script[k]
  <2>1. \A k \in 1 .. from : ran[c][k] = script[k]
    BY DEF Stream, from
  <2>2. \A k \in 1 .. from + 1 : k \in 1 .. from \/ k = from + 1
    BY <1>4
  <2> QED
    BY <1>8, <1>17, <2>1, <2>2
<1>19. Carries(InFlight(c)', script, from + 1, to)
  <2>1. PICK left : left = rest \o (wire[c] \o Coming(c))
    OBVIOUS
  <2>2. left \in Seq(Bytes) /\ Follows(left, bytes, i)
    <3>1. PICK s, t : s = buffer[c] /\ t = wire[c] \o Coming(c)
      OBVIOUS
    <3>2. s \in Seq(Bytes) /\ t \in Seq(Bytes) /\ i \in 0 .. Len(s)
      BY <1>5, <1>12, <3>1
    <3>3. /\ SubSeq(s, i + 1, Len(s)) \o t \in Seq(Bytes)
          /\ Len(SubSeq(s, i + 1, Len(s)) \o t) = Len(s \o t) - i
          /\ \A k \in 1 .. Len(s \o t) - i :
               (SubSeq(s, i + 1, Len(s)) \o t)[k] = (s \o t)[i + k]
      BY <3>2, Taken
    <3>4. left = SubSeq(s, i + 1, Len(s)) \o t /\ bytes = s \o t
      BY <1>11, <2>1, <3>1 DEF bytes, InFlight
    <3> QED
      BY <3>3, <3>4 DEF Follows
  <2>3. i \in Nat /\ i = Len(script[from + 1]) + 1 /\ Len(script[from + 1]) \in Nat
    BY <1>5, <1>8, <1>9, <1>10
  <2>4. Carries(left, script, from + 1, to)
    BY <1>4, <1>9, <2>2, <2>3, CarriesRest
  <2>5. InFlight(c)' = left
    BY <1>2, <1>16, <2>1 DEF InFlight, Coming, Owed
  <2> QED
    BY <2>4, <2>5
<1>20. from + 1 <= to
  BY <1>4, <1>9
<1>21. unsent'[c] = unsent[c] /\ sender'[c] = sender[c] /\ at'[c] = to /\ script' = script
  BY <1>2 DEF to
<1>22. reader'[c] \notin {"register", "read"} /\ ran'[c] # <<>>
  <2>1. ran[c] \in Seq(Seq(Bytes)) /\ \E done \in Seq(Bytes) : ran'[c] = Append(ran[c], done)
    <3>1. i - 1 \in 0 .. Len(buffer[c])
      BY <1>5
    <3>2. SubSeq(buffer[c], 1, i - 1) \in Seq(Bytes)
      BY <1>5, <3>1, Halves
    <3> QED
      BY <1>1, <3>2 DEF BytesOK
  <2> QED
    BY <1>3, <2>1, AppendProperties
<1> QED
  BY <1>17, <1>18, <1>19, <1>20, <1>21, <1>22 DEF Stream

(* The rest of the actions, and the other connections.                     *)
LEMMA ReaderElse ==
  ASSUME NEW c \in Conns, BytesOK, PlacesOK, UNCHANGED tvars,
         Idle(c), Stream(c)
  PROVE  Stream(c)'
<1>1. /\ script' = script /\ wire'[c] = wire[c] /\ buffer'[c] = buffer[c] /\ ran'[c] = ran[c]
      /\ unsent'[c] = unsent[c] /\ at'[c] = at[c] /\ sender'[c] = sender[c]
  BY DEF tvars, Idle, register_client, read_ends, answered, need_more, close_agent, Kept, BytesOK
<1>2. CASE need_more(c)
  <2>1. reader[c] = "lines" /\ reader'[c] = "read" /\ ~HasLine(c)
    BY <1>2 DEF need_more, At, PlacesOK
  <2>2. \A i \in 1 .. Len(buffer[c]) : buffer[c][i] # NL
    BY <2>1, StreamTypes DEF HasLine, Range
  <2>3. InFlight(c)' = InFlight(c)
    BY <1>1 DEF InFlight, Coming, Owed
  <2>4. ~Closed(c)
    BY <2>1 DEF Closed
  <2> QED
    BY <1>1, <2>1, <2>2, <2>3, <2>4 DEF Stream
<1>3. CASE register_client(c) \/ read_ends(c) \/ answered(c) \/ close_agent(c)
  <2>1. \/ reader'[c] = "closed" \/ (reader[c] = "register" /\ reader'[c] = "read")
        \/ ~Closed(c) /\ reader'[c] \notin {"register", "read", "answer"}
    <3>1. register_client(c) => reader[c] = "register" /\ reader'[c] = "read"
      BY DEF register_client, At, PlacesOK
    <3>2. read_ends(c) => ~Closed(c) /\ reader'[c] = "done"
      BY DEF read_ends, At, PlacesOK, Closed
    <3>3. answered(c) => ~Closed(c) /\ reader'[c] \in {"lines", "done", "killed"}
      BY DEF answered, At, AfterLine, PlacesOK, Closed
    <3>4. close_agent(c) => ~Closed(c) /\ reader'[c] \in {"closed", "hung"}
      BY DEF close_agent, At, PlacesOK, Closed
    <3> QED
      BY <1>3, <3>1, <3>2, <3>3, <3>4
  <2>2. Beside(c)
    BY <1>1, <2>1 DEF Beside
  <2> QED
    BY <2>2, StreamSame
<1> QED
  BY <1>2, <1>3 DEF Idle

LEMMA SenderElse ==
  ASSUME NEW c \in Conns, BytesOK, PlacesOK, Stream(c),
         \/ connect(c) \/ connect_fails(c) \/ fopen_fails(c) \/ test_running(c)
         \/ cancel(c) \/ join(c) \/ close(c)
  PROVE  Stream(c)'
<1>1. /\ script' = script /\ wire'[c] = wire[c] /\ buffer'[c] = buffer[c] /\ ran'[c] = ran[c]
      /\ unsent'[c] = unsent[c] /\ at'[c] = at[c] /\ reader'[c] = reader[c]
  BY DEF connect, connect_fails, fopen_fails, test_running, cancel, join, close, rvars
<1>2. sender[c] \notin {"command", "newline"}
  BY DEF connect, connect_fails, fopen_fails, test_running, cancel, join, close
<1>3. sender'[c] \notin {"command", "newline"}
  BY DEF connect, connect_fails, fopen_fails, test_running, cancel, join, close, Goto, PlacesOK
<1>4. Beside(c)
  BY <1>1, <1>2, <1>3 DEF Beside
<1> QED
  BY <1>4, StreamSame

(* An action of a connection leaves the bytes of the others alone.         *)
LEMMA OneConnection ==
  ASSUME NEW c \in Conns, BytesOK, PlacesOK,
         (Reader(c) /\ UNCHANGED tvars) \/ Sender(c) \/ \E k \in {1, 2} : Receiver(c, k),
         NEW d \in Conns, d # c
  PROVE  /\ script' = script /\ wire'[d] = wire[d] /\ buffer'[d] = buffer[d] /\ ran'[d] = ran[d]
         /\ unsent'[d] = unsent[d] /\ at'[d] = at[d]
         /\ sender'[d] = sender[d] /\ reader'[d] = reader[d]
<1>1. CASE Reader(c) /\ UNCHANGED tvars
  <2>1. UNCHANGED <<script, unsent, at, sender>>
    BY <1>1 DEF tvars
  <2>2. wire'[d] = wire[d] /\ buffer'[d] = buffer[d] /\ ran'[d] = ran[d]
    BY <1>1 DEF Reader, register_client, read_some, read_ends, run_line, answered, need_more, close_agent, BytesOK
  <2>3. reader'[d] = reader[d]
    BY <1>1 DEF Reader, register_client, read_some, read_ends, run_line, answered, need_more, close_agent, At, PlacesOK
  <2> QED
    BY <2>1, <2>2, <2>3
<1>2. CASE Sender(c)
  <2>1. UNCHANGED <<script, buffer, ran, reader>>
    BY <1>2 DEF Sender, connect, connect_fails, fopen_fails, test_running, fgets, write,
                written, cancel, join, close, rvars
  <2>2. wire'[d] = wire[d] /\ unsent'[d] = unsent[d] /\ at'[d] = at[d]
    <3>1. CASE write(c)
      <4>1. at' = at
        BY <3>1, WriteFacts
      <4>2. wire'[d] = wire[d] /\ unsent'[d] = unsent[d]
        BY <3>1, WriteFacts DEF BytesOK
      <4> QED
        BY <4>1, <4>2
    <3>2. CASE ~write(c)
      BY <1>2, <3>2 DEF Sender, connect, connect_fails, fopen_fails, test_running, fgets,
                  written, cancel, join, close, rvars, BytesOK
    <3> QED
      BY <3>1, <3>2
  <2>3. sender'[d] = sender[d]
    <3>1. sender' = sender \/ \E place : Goto(c, place)
      BY <1>2 DEF Sender, connect, connect_fails, fopen_fails, test_running, fgets, write,
                  written, cancel, join, close
    <3> QED
      BY <3>1 DEF Goto, PlacesOK
  <2> QED
    BY <2>1, <2>2, <2>3
<1>3. ASSUME NEW k \in {1, 2}, Receiver(c, k)
      PROVE  UNCHANGED <<script, wire, buffer, ran, unsent, at, sender, reader>>
  BY <1>3 DEF Receiver, receive_test, receive, print, receive_end, receiver_cancelled, rvars
<1> QED
  BY <1>1, <1>2, <1>3

LEMMA StreamsStep == BytesOK /\ PlacesOK /\ Streams /\ [Next]_vars => Streams'
<1> SUFFICES ASSUME BytesOK, PlacesOK, Streams, [Next]_vars, NEW d \in Conns
             PROVE  Stream(d)'
  BY DEF Streams
<1>1. Stream(d)
  BY DEF Streams
<1>2. CASE UNCHANGED <<script, wire, buffer, ran, unsent, at, sender, reader>>
  <2>1. Beside(d)
    BY <1>2 DEF Beside
  <2> QED
    BY <1>1, <2>1, StreamSame
<1>3. ASSUME NEW c \in Conns, d # c,
             (Reader(c) /\ UNCHANGED tvars) \/ Sender(c) \/ \E k \in {1, 2} : Receiver(c, k)
      PROVE  Stream(d)'
  <2>1. /\ script' = script /\ wire'[d] = wire[d] /\ buffer'[d] = buffer[d] /\ ran'[d] = ran[d]
        /\ unsent'[d] = unsent[d] /\ at'[d] = at[d]
        /\ sender'[d] = sender[d] /\ reader'[d] = reader[d]
    BY <1>3, OneConnection
  <2>2. Beside(d)
    BY <2>1 DEF Beside
  <2> QED
    BY <1>1, <2>2, StreamSame
<1>4. CASE Reader(d) /\ UNCHANGED tvars
  BY <1>1, <1>4, ReadStream, RunStream, ReaderElse DEF Reader, Idle
<1>5. CASE Sender(d)
  BY <1>1, <1>5, FgetsStream, WriteStream, WrittenStream, SenderElse DEF Sender
<1>6. ASSUME NEW k \in {1, 2}, Receiver(d, k) PROVE Stream(d)'
  <2>1. UNCHANGED <<script, wire, buffer, ran, unsent, at, sender, reader>>
    BY <1>6 DEF Receiver, receive_test, receive, print, receive_end, receiver_cancelled, rvars
  <2> QED
    BY <1>2, <2>1
<1>7. CASE UNCHANGED vars
  BY <1>2, <1>7 DEF vars, rvars, tvars
<1> QED
  BY <1>3, <1>4, <1>5, <1>6, <1>7 DEF Next

-----------------------------------------------------------------------------
(* Why an agent has left its loop.                                         *)

Ended(c) == reader[c] \in {"done", "hung"} \/ Closed(c)

Caused(c) ==
  Ended(c) =>
    \/ HasQuit(c)
    \/ hungup[c]
    \/ at[c] > Len(ran[c]) /\ Len(script[Len(ran[c]) + 1]) >= BUFFER - 1

(* With the buffer full and no newline in it the next line is too long.    *)
LEMMA FullBuffer ==
  ASSUME NEW c \in Conns, BytesOK, Stream(c), reader[c] = "read", Room(c) = 0
  PROVE  at[c] > Len(ran[c]) /\ Len(script[Len(ran[c]) + 1]) >= BUFFER - 1
<1>1. PICK bytes, from, to, s, t :
        /\ bytes = InFlight(c) /\ from = Len(ran[c]) /\ to = at[c]
        /\ s = buffer[c] /\ t = wire[c] \o Coming(c)
  OBVIOUS
<1>2. /\ bytes \in Seq(Bytes) /\ from \in Nat /\ to \in 0 .. Len(script) /\ from <= to
      /\ script \in Seq(Seq(Chars)) /\ Carries(bytes, script, from, to)
      /\ s \in Seq(Bytes) /\ t \in Seq(Bytes) /\ bytes = s \o t
  <2>1. Carries(bytes, script, from, to) /\ from <= to
    BY <1>1 DEF Stream, Closed
  <2> QED
    BY <1>1, <2>1, StreamTypes DEF BytesOK, InFlight
<1>3. Len(s) = BUFFER - 1 /\ Len(s) >= 1 /\ Len(s) \in Nat
  BY <1>1, StreamTypes, ReaderAssumption DEF Room
<1>4. \A i \in 1 .. Len(s) : s[i] # NL
  BY <1>1 DEF Stream
<1>5. /\ Len(bytes) \in Nat /\ Len(bytes) # 0
      /\ \A i \in 1 .. Len(s) : bytes[i] = s[i]
  <2>1. Len(t) \in Nat
    BY <1>2, LenProperties
  <2>2. /\ Len(s \o t) = Len(s) + Len(t)
        /\ \A i \in 1 .. Len(s) + Len(t) : (s \o t)[i] = IF i <= Len(s) THEN s[i] ELSE t[i - Len(s)]
    BY <1>2, ConcatProperties
  <2> QED
    BY <1>2, <1>3, <2>1, <2>2
<1>6. bytes # <<>>
  BY <1>5
<1>7. PICK len : len = Len(script[from + 1])
  OBVIOUS
<1>8. /\ from < to /\ len \in Nat /\ bytes[len + 1] = NL
  <2>1. /\ from < to /\ Len(script[from + 1]) \in Nat
        /\ bytes[Len(script[from + 1]) + 1] = NL
    <3>1. Begins(bytes, script, from, to)
      BY <1>2, <1>6, CarriesFirst
    <3> QED
      BY <3>1 DEF Begins
  <2> QED
    BY <1>7, <2>1
<1>9. ~(len + 1 <= Len(s))
  BY <1>4, <1>5, <1>8
<1>10. len >= BUFFER - 1 /\ to > from
  BY <1>2, <1>3, <1>8, <1>9
<1> QED
  BY <1>1, <1>7, <1>10

(* After its answer the loop ends for a quit, or with SIGPIPE.             *)
LEMMA QuitRun ==
  ASSUME NEW c \in Conns, PlacesOK, Stream(c), answered(c)
  PROVE  Ended(c)' => HasQuit(c)' \/ hungup[c]
<1>1. ran[c] # <<>> /\ UNCHANGED ran
  BY DEF answered, Stream
<1>2. reader'[c] = AfterLine(Last(ran[c])) \/ hungup[c]
  BY DEF answered, At, PlacesOK
<1>3. reader'[c] = AfterLine(Last(ran[c])) /\ Ended(c)' => IsQuit(Last(ran[c]))
  BY DEF AfterLine, Ended, Closed
<1> QED
  BY <1>1, <1>2, <1>3 DEF HasQuit

LEMMA CausedSame ==
  ASSUME NEW c \in Conns, BytesOK, BytesOK', Caused(c), script' = script,
         ran'[c] = ran[c], at'[c] \in {at[c], at[c] + 1},
         Ended(c), hungup[c] => hungup'[c]
  PROVE  Caused(c)'
<1>1. HasQuit(c) => HasQuit(c)'
  BY DEF HasQuit
<1>2. at[c] > Len(ran[c]) => at'[c] > Len(ran'[c])
  BY StreamTypes
<1> QED
  BY <1>1, <1>2 DEF Caused

LEMMA CausedStep ==
  BytesOK /\ BytesOK' /\ PlacesOK /\ Streams /\ ReaderEndsForCause /\ [Next]_vars
    => ReaderEndsForCause'
<1> SUFFICES ASSUME BytesOK, BytesOK', PlacesOK, Streams, [Next]_vars, NEW d \in Conns, Caused(d)
             PROVE  Caused(d)'
  BY DEF ReaderEndsForCause, Caused, Ended
<1>1. \/ UNCHANGED vars
      \/ Reader(d) /\ UNCHANGED tvars
      \/ /\ script' = script /\ ran'[d] = ran[d] /\ reader'[d] = reader[d]
         /\ at'[d] \in {at[d], at[d] + 1} /\ (hungup[d] => hungup'[d])
  <2>1. ASSUME NEW c \in Conns, c # d, (Reader(c) /\ UNCHANGED tvars) \/ Sender(c) \/ \E k \in {1, 2} : Receiver(c, k)
        PROVE  /\ script' = script /\ ran'[d] = ran[d] /\ reader'[d] = reader[d] /\ at'[d] = at[d]
    BY <2>1, OneConnection
  <2>2. ASSUME NEW c \in Conns, (Reader(c) /\ UNCHANGED tvars) \/ Sender(c) \/ \E k \in {1, 2} : Receiver(c, k)
        PROVE  hungup[d] => hungup'[d]
    BY <2>2 DEF Reader, register_client, read_some, read_ends, run_line, answered, need_more, close_agent,
                Sender, connect, connect_fails, fopen_fails, test_running, fgets, write,
                written, cancel, join, close, rvars, PlacesOK,
                Receiver, receive_test, receive, print, receive_end, receiver_cancelled
  <2>3. ASSUME Sender(d) \/ \E k \in {1, 2} : Receiver(d, k)
        PROVE  UNCHANGED <<script, ran, reader>> /\ at'[d] \in {at[d], at[d] + 1}
    BY <2>3 DEF Sender, connect, connect_fails, fopen_fails, test_running, fgets, write,
                written, cancel, join, close, rvars, BytesOK,
                Receiver, receive_test, receive, print, receive_end, receiver_cancelled
  <2> QED
    BY <2>1, <2>2, <2>3 DEF Next
<1>2. CASE UNCHANGED vars
  BY <1>2 DEF vars, rvars, tvars, Caused, Ended, Closed, HasQuit
<1>3. CASE /\ script' = script /\ ran'[d] = ran[d] /\ reader'[d] = reader[d]
           /\ at'[d] \in {at[d], at[d] + 1} /\ (hungup[d] => hungup'[d])
  <2>1. CASE Ended(d)
    BY <1>3, <2>1, CausedSame
  <2>2. CASE ~Ended(d)
    BY <1>3, <2>2 DEF Caused, Ended, Closed
  <2> QED
    BY <2>1, <2>2
<1>4. CASE Reader(d) /\ UNCHANGED tvars
  <2>1. UNCHANGED <<script, at>> /\ UNCHANGED hungup
    BY <1>4 DEF tvars, Reader, register_client, read_some, read_ends, run_line, answered, need_more, close_agent
  <2>2. CASE register_client(d) \/ read_some(d) \/ need_more(d) \/ run_line(d)
    BY <2>2 DEF register_client, read_some, need_more, run_line, At, PlacesOK, Caused, Ended,
                Closed
  <2>3. CASE answered(d)
    BY <2>1, <2>3, QuitRun DEF Caused, Streams
  <2>4. CASE close_agent(d)
    <3>1. reader[d] = "done" /\ UNCHANGED ran
      BY <2>4 DEF close_agent
    <3> QED
      BY <2>1, <3>1, CausedSame DEF Ended
  <2>5. CASE read_ends(d)
    <3>1. reader[d] = "read" /\ UNCHANGED <<ran, wire, buffer, replies>>
      BY <2>5 DEF read_ends
    <3>2. Room(d) = 0 \/ hungup[d]
      BY <2>5 DEF read_ends
    <3>3. Room(d) = 0 => at[d] > Len(ran[d]) /\ Len(script[Len(ran[d]) + 1]) >= BUFFER - 1
      BY <3>1, FullBuffer DEF Streams
    <3> QED
      BY <2>1, <3>1, <3>2, <3>3 DEF Caused
  <2> QED
    BY <1>4, <2>2, <2>3, <2>4, <2>5 DEF Reader
<1> QED
  BY <1>1, <1>2, <1>3, <1>4

-----------------------------------------------------------------------------
(* Answers in a sequence of them, NULs left out.                           *)

Shown(s) == {s[i] : i \in 1 .. Len(s)} \ {NUL}

Rising(s) ==
  \A i, j \in 1 .. Len(s) : i < j /\ s[i] # NUL /\ s[j] # NUL => s[i] < s[j]

Once(s) == \A i, j \in 1 .. Len(s) : s[i] = s[j] => i = j

NoNul(s) == \A i \in 1 .. Len(s) : s[i] # NUL

Before(A, B) == \A x \in A, y \in B : x < y

LEMMA ShownIs ==
  ASSUME NEW s \in Seq(Nat)
  PROVE  /\ Shown(s) \subseteq Nat
         /\ \A i \in 1 .. Len(s) : s[i] \in Nat /\ (s[i] # NUL => s[i] \in Shown(s))
         /\ \A x \in Shown(s) : x # NUL /\ \E i \in 1 .. Len(s) : x = s[i]
<1>1. \A i \in 1 .. Len(s) : s[i] \in Nat
  BY ElementOfSeq
<1> QED
  BY <1>1 DEF Shown

LEMMA ShownNothing == Shown(<<>>) = {} /\ Rising(<<>>) /\ NoNul(<<>>) /\ Once(<<>>)
<1>1. Len(<<>>) = 0 /\ 1 .. 0 = {}
  OBVIOUS
<1> QED
  BY <1>1 DEF Shown, Rising, NoNul, Once

(* An element of the one or of the other.                                  *)
LEMMA Joined ==
  ASSUME NEW s \in Seq(Nat), NEW t \in Seq(Nat)
  PROVE  /\ s \o t \in Seq(Nat) /\ Len(s \o t) = Len(s) + Len(t)
         /\ Len(s) \in Nat /\ Len(t) \in Nat
         /\ \A i \in 1 .. Len(s) : (s \o t)[i] = s[i]
         /\ \A i \in 1 .. Len(t) : (s \o t)[Len(s) + i] = t[i]
         /\ \A i \in 1 .. Len(s \o t) :
              \/ i \in 1 .. Len(s)
              \/ i > Len(s) /\ i - Len(s) \in 1 .. Len(t) /\ (s \o t)[i] = t[i - Len(s)]
<1>1. Len(s) \in Nat /\ Len(t) \in Nat
  BY LenProperties
<1>2. /\ s \o t \in Seq(Nat) /\ Len(s \o t) = Len(s) + Len(t)
      /\ \A i \in 1 .. Len(s) + Len(t) : (s \o t)[i] = IF i <= Len(s) THEN s[i] ELSE t[i - Len(s)]
  BY ConcatProperties
<1>3. \A i \in 1 .. Len(s) : (s \o t)[i] = s[i]
  BY <1>1, <1>2
<1>4. ASSUME NEW i \in 1 .. Len(t) PROVE (s \o t)[Len(s) + i] = t[i]
  <2>1. Len(s) + i \in 1 .. Len(s) + Len(t) /\ ~(Len(s) + i <= Len(s)) /\ (Len(s) + i) - Len(s) = i
    BY <1>1
  <2> QED
    BY <1>2, <2>1
<1>5. ASSUME NEW i \in 1 .. Len(s \o t), ~(i \in 1 .. Len(s))
      PROVE  i > Len(s) /\ i - Len(s) \in 1 .. Len(t) /\ (s \o t)[i] = t[i - Len(s)]
  <2>1. i \in 1 .. Len(s) + Len(t) /\ i > Len(s) /\ i - Len(s) \in 1 .. Len(t)
    BY <1>1, <1>2, <1>5
  <2> QED
    BY <1>1, <1>2, <2>1
<1> QED
  BY <1>1, <1>2, <1>3, <1>4, <1>5

LEMMA ShownJoined ==
  ASSUME NEW s \in Seq(Nat), NEW t \in Seq(Nat)
  PROVE  Shown(s \o t) = Shown(s) \cup Shown(t)
<1>1. PICK u : u = s \o t
  OBVIOUS
<1>2. /\ u \in Seq(Nat) /\ Len(u) = Len(s) + Len(t) /\ Len(s) \in Nat /\ Len(t) \in Nat
      /\ \A i \in 1 .. Len(s) : u[i] = s[i]
      /\ \A i \in 1 .. Len(t) : u[Len(s) + i] = t[i]
      /\ \A i \in 1 .. Len(u) :
           \/ i \in 1 .. Len(s)
           \/ i > Len(s) /\ i - Len(s) \in 1 .. Len(t) /\ u[i] = t[i - Len(s)]
  BY <1>1, Joined
<1>3. ASSUME NEW x \in Shown(u) PROVE x \in Shown(s) \cup Shown(t)
  <2>1. PICK i \in 1 .. Len(u) : x = u[i] /\ x # NUL
    BY <1>2, ShownIs
  <2>2. CASE i \in 1 .. Len(s)
    BY <1>2, <2>1, <2>2, ShownIs
  <2>3. CASE i \notin 1 .. Len(s)
    <3>1. i - Len(s) \in 1 .. Len(t) /\ x = t[i - Len(s)]
      BY <1>2, <2>1, <2>3
    <3> QED
      BY <2>1, <3>1, ShownIs
  <2> QED
    BY <2>2, <2>3
<1>4. ASSUME NEW x \in Shown(s) PROVE x \in Shown(u)
  <2>1. PICK i \in 1 .. Len(s) : x = s[i] /\ x # NUL
    BY ShownIs
  <2>2. i \in 1 .. Len(u) /\ u[i] = x
    BY <1>2, <2>1
  <2> QED
    BY <1>2, <2>1, <2>2, ShownIs
<1>5. ASSUME NEW x \in Shown(t) PROVE x \in Shown(u)
  <2>1. PICK i \in 1 .. Len(t) : x = t[i] /\ x # NUL
    BY ShownIs
  <2>2. Len(s) + i \in 1 .. Len(u) /\ u[Len(s) + i] = x
    BY <1>2, <2>1
  <2> QED
    BY <1>2, <2>1, <2>2, ShownIs
<1> QED
  BY <1>1, <1>3, <1>4, <1>5

LEMMA ShownParts ==
  ASSUME NEW s \in Seq(Nat), NEW n \in 0 .. Len(s)
  PROVE  /\ Shown(SubSeq(s, 1, n)) \subseteq Shown(s)
         /\ Shown(SubSeq(s, n + 1, Len(s))) \subseteq Shown(s)
         /\ Rising(s) => /\ Rising(SubSeq(s, 1, n)) /\ Rising(SubSeq(s, n + 1, Len(s)))
                         /\ Before(Shown(SubSeq(s, 1, n)), Shown(SubSeq(s, n + 1, Len(s))))
<1>1. PICK p, q : p = SubSeq(s, 1, n) /\ q = SubSeq(s, n + 1, Len(s))
  OBVIOUS
<1>2. /\ p \in Seq(Nat) /\ q \in Seq(Nat) /\ Len(p) = n /\ Len(q) = Len(s) - n
      /\ \A i \in 1 .. n : p[i] = s[i]
      /\ \A i \in 1 .. Len(s) - n : q[i] = s[n + i]
      /\ Len(s) \in Nat
  BY <1>1, Halves, LenProperties
<1>3. n \in Nat /\ \A i \in 1 .. n : i \in 1 .. Len(s)
  BY <1>2
<1>4. \A i \in 1 .. Len(s) - n : n + i \in 1 .. Len(s)
  BY <1>2
<1>5. \A i \in 1 .. Len(s) : s[i] \in Nat
  BY ElementOfSeq
<1>6. ASSUME NEW x \in Shown(p) PROVE x \in Shown(s)
  <2>1. PICK i \in 1 .. Len(p) : x = p[i] /\ x # NUL
    BY <1>2, ShownIs
  <2>2. i \in 1 .. Len(s) /\ s[i] = x
    BY <1>2, <1>3, <2>1
  <2> QED
    BY <2>1, <2>2, ShownIs
<1>7. ASSUME NEW x \in Shown(q) PROVE x \in Shown(s)
  <2>1. PICK i \in 1 .. Len(q) : x = q[i] /\ x # NUL
    BY <1>2, ShownIs
  <2>2. n + i \in 1 .. Len(s) /\ s[n + i] = x
    BY <1>2, <1>4, <2>1
  <2> QED
    BY <2>1, <2>2, ShownIs
<1>8. ASSUME Rising(s) PROVE Rising(p)
  BY <1>2, <1>3, <1>8 DEF Rising
<1>9. ASSUME Rising(s) PROVE Rising(q)
  <2> SUFFICES ASSUME NEW i \in 1 .. Len(q), NEW j \in 1 .. Len(q), i < j, q[i] # NUL, q[j] # NUL
               PROVE  q[i] < q[j]
    BY DEF Rising
  <2>1. n + i \in 1 .. Len(s) /\ n + j \in 1 .. Len(s)
    BY <1>2, <1>4
  <2>2. n + i < n + j
    <3>1. i \in Nat /\ j \in Nat /\ i < j /\ n \in Nat
      BY <1>3
    <3> QED
      BY ONLY <3>1
  <2> QED
    BY <1>2, <1>9, <2>1, <2>2 DEF Rising
<1>10. ASSUME Rising(s) PROVE Before(Shown(p), Shown(q))
  <2> SUFFICES ASSUME NEW x \in Shown(p), NEW y \in Shown(q) PROVE x < y
    BY DEF Before
  <2>1. PICK i \in 1 .. n : x = s[i] /\ x # NUL
    <3>1. PICK i \in 1 .. Len(p) : x = p[i] /\ x # NUL
      BY <1>2, ShownIs
    <3> QED
      BY <1>2, <3>1
  <2>2. PICK j \in 1 .. Len(s) - n : y = s[n + j] /\ y # NUL
    <3>1. PICK j \in 1 .. Len(q) : y = q[j] /\ y # NUL
      BY <1>2, ShownIs
    <3>2. j \in 1 .. Len(s) - n /\ y = s[n + j]
      BY <1>2, <3>1
    <3> QED
      BY <3>1, <3>2
  <2>3. i \in 1 .. Len(s) /\ n + j \in 1 .. Len(s) /\ i < n + j
    BY <1>2, <1>3, <1>4
  <2> QED
    BY <1>10, <2>1, <2>2, <2>3 DEF Rising
<1> QED
  BY <1>1, <1>6, <1>7, <1>8, <1>9, <1>10

LEMMA RisingJoined ==
  ASSUME NEW s \in Seq(Nat), NEW t \in Seq(Nat), Rising(s), Rising(t), Before(Shown(s), Shown(t))
  PROVE  Rising(s \o t)
<1>1. PICK u : u = s \o t
  OBVIOUS
<1>2. /\ u \in Seq(Nat) /\ Len(u) = Len(s) + Len(t) /\ Len(s) \in Nat /\ Len(t) \in Nat
      /\ \A i \in 1 .. Len(s) : u[i] = s[i]
      /\ \A i \in 1 .. Len(u) :
           \/ i \in 1 .. Len(s)
           \/ i > Len(s) /\ i - Len(s) \in 1 .. Len(t) /\ u[i] = t[i - Len(s)]
  BY <1>1, Joined
<1>3. SUFFICES ASSUME NEW i \in 1 .. Len(u), NEW j \in 1 .. Len(u), i < j, u[i] # NUL, u[j] # NUL
               PROVE  u[i] < u[j]
  BY <1>1 DEF Rising
<1>4. CASE i \in 1 .. Len(s) /\ j \in 1 .. Len(s)
  BY <1>2, <1>3, <1>4 DEF Rising
<1>5. CASE i \in 1 .. Len(s) /\ j \notin 1 .. Len(s)
  <2>1. u[i] \in Shown(s) /\ u[j] \in Shown(t)
    BY <1>2, <1>3, <1>5, ShownIs
  <2> QED
    BY <2>1 DEF Before
<1>6. CASE i \notin 1 .. Len(s)
  <2>1. /\ i - Len(s) \in 1 .. Len(t) /\ j - Len(s) \in 1 .. Len(t)
        /\ u[i] = t[i - Len(s)] /\ u[j] = t[j - Len(s)] /\ i - Len(s) < j - Len(s)
    <3>1. i \in Nat /\ j \in Nat /\ Len(s) \in Nat /\ i < j /\ i \in 1 .. Len(u) /\ j \in 1 .. Len(u)
      BY <1>2, <1>3
    <3>2. j \notin 1 .. Len(s) /\ i - Len(s) < j - Len(s)
      BY ONLY <1>6, <3>1
    <3> QED
      BY <1>2, <1>6, <3>1, <3>2
  <2> QED
    BY <1>3, <2>1 DEF Rising
<1> QED
  BY <1>4, <1>5, <1>6

LEMMA OnceJoined ==
  ASSUME NEW s \in Seq(Nat), NEW t \in Seq(Nat), Once(s), NoNul(s), Rising(t), NoNul(t),
         Shown(s) \cap Shown(t) = {}
  PROVE  Once(s \o t) /\ NoNul(s \o t)
<1>1. PICK u : u = s \o t
  OBVIOUS
<1>2. /\ u \in Seq(Nat) /\ Len(u) = Len(s) + Len(t) /\ Len(s) \in Nat /\ Len(t) \in Nat
      /\ \A i \in 1 .. Len(s) : u[i] = s[i]
      /\ \A i \in 1 .. Len(u) :
           \/ i \in 1 .. Len(s)
           \/ i > Len(s) /\ i - Len(s) \in 1 .. Len(t) /\ u[i] = t[i - Len(s)]
  BY <1>1, Joined
<1>3. NoNul(u)
  BY <1>2 DEF NoNul
<1>4. SUFFICES ASSUME NEW i \in 1 .. Len(u), NEW j \in 1 .. Len(u), u[i] = u[j]
               PROVE  i = j
  BY <1>1, <1>3 DEF Once
<1>5. CASE i \in 1 .. Len(s) /\ j \in 1 .. Len(s)
  BY <1>2, <1>4, <1>5 DEF Once
<1>6. CASE i \in 1 .. Len(s) /\ j \notin 1 .. Len(s)
  <2>1. u[i] \in Shown(s) /\ u[j] \in Shown(t)
    BY <1>2, <1>3, <1>4, <1>6, ShownIs DEF NoNul
  <2> QED
    BY <1>4, <2>1
<1>7. CASE i \notin 1 .. Len(s) /\ j \in 1 .. Len(s)
  <2>1. u[i] \in Shown(t) /\ u[j] \in Shown(s)
    BY <1>2, <1>3, <1>4, <1>7, ShownIs DEF NoNul
  <2> QED
    BY <1>4, <2>1
<1>8. CASE i \notin 1 .. Len(s) /\ j \notin 1 .. Len(s)
  <2>1. PICK a, b : a = i - Len(s) /\ b = j - Len(s)
    OBVIOUS
  <2>2. a \in 1 .. Len(t) /\ b \in 1 .. Len(t) /\ u[i] = t[a] /\ u[j] = t[b]
    BY <1>2, <1>8, <2>1
  <2>3. t[a] \in Nat /\ t[b] \in Nat /\ t[a] # NUL /\ t[b] # NUL
    BY <2>2, ShownIs DEF NoNul
  <2>4. ~(t[a] < t[b]) /\ ~(t[b] < t[a])
    <3>1. t[a] = t[b]
      BY <1>4, <2>2
    <3> QED
      BY ONLY <2>3, <3>1
  <2>5. ~(a < b) /\ ~(b < a)
    BY <2>2, <2>3, <2>4 DEF Rising
  <2>6. a = b
    BY <2>2, <2>5
  <2> QED
    BY <1>2, <2>1, <2>6
<1> QED
  BY <1>5, <1>6, <1>7, <1>8

-----------------------------------------------------------------------------
(* The answers on their way: r not read yet, h and g in the hands of the   *)
(* receivers, p printed, of n lines run.                                   *)

Unique(r, h, g, p, n) ==
  /\ r \in Seq(Nat) /\ h \in Seq(Nat) /\ g \in Seq(Nat) /\ p \in Seq(Nat) /\ n \in Nat
  /\ Rising(r) /\ Rising(h) /\ Rising(g)
  /\ \A x \in Shown(r) \cup Shown(h) \cup Shown(g) \cup Shown(p) : x <= n
  /\ Before(Shown(h) \cup Shown(g) \cup Shown(p), Shown(r))
  /\ Shown(h) \cap Shown(g) = {}
  /\ Shown(p) \cap (Shown(h) \cup Shown(g)) = {}
  /\ NoNul(p) /\ Once(p)

Single(h, p) == Rising(p) /\ Before(Shown(p), Shown(h))

LEMMA UniqueSwap ==
  ASSUME NEW r, NEW h, NEW g, NEW p, NEW n, Unique(r, h, g, p, n)
  PROVE  Unique(r, g, h, p, n)
  BY DEF Unique, Before

LEMMA UniqueRun ==
  ASSUME NEW r, NEW h, NEW g, NEW p, NEW n, Unique(r, h, g, p, n),
         NEW e \in {<<n + 1>>, <<n + 1, NUL>>}
  PROVE  Unique(r \o e, h, g, p, n + 1)
<1>1. /\ r \in Seq(Nat) /\ n \in Nat /\ Rising(r)
      /\ \A x \in Shown(r) \cup Shown(h) \cup Shown(g) \cup Shown(p) : x <= n
      /\ Shown(h) \cup Shown(g) \cup Shown(p) \subseteq Nat /\ Shown(r) \subseteq Nat
  BY ShownIs DEF Unique
<1>2. /\ e \in Seq(Nat) /\ Rising(e) /\ Shown(e) = {n + 1}
  <2>1. <<n + 1>> \in Seq(Nat) /\ <<n + 1, NUL>> \in Seq(Nat) /\ n + 1 # NUL
    BY <1>1 DEF NUL
  <2>2. CASE e = <<n + 1>>
    <3>1. Len(e) = 1 /\ e[1] = n + 1
      BY <2>2
    <3>2. \A i \in 1 .. Len(e) : i = 1
      BY <3>1
    <3> QED
      BY <2>1, <2>2, <3>1, <3>2 DEF Rising, Shown
  <2>3. CASE e = <<n + 1, NUL>>
    <3>1. Len(e) = 2 /\ e[1] = n + 1 /\ e[2] = NUL
      BY <2>3
    <3>2. \A i \in 1 .. Len(e) : i = 1 \/ i = 2
      BY <3>1
    <3>3. 1 \in 1 .. Len(e)
      BY <3>1
    <3>4. Rising(e)
      BY <3>1, <3>2 DEF Rising
    <3>5. Shown(e) = {n + 1}
      BY <2>1, <3>1, <3>2, <3>3 DEF Shown
    <3> QED
      BY <2>1, <2>3, <3>4, <3>5
  <2> QED
    BY <2>2, <2>3
<1>3. r \o e \in Seq(Nat) /\ Shown(r \o e) = Shown(r) \cup {n + 1}
  BY <1>1, <1>2, ShownJoined, Joined
<1>4. \A x \in Shown(r) \cup Shown(h) \cup Shown(g) \cup Shown(p) : x \in Nat /\ x < n + 1 /\ x <= n + 1
  <2> SUFFICES ASSUME NEW x \in Shown(r) \cup Shown(h) \cup Shown(g) \cup Shown(p)
               PROVE  x \in Nat /\ x < n + 1 /\ x <= n + 1
    OBVIOUS
  <2>1. x \in Nat /\ x <= n /\ n \in Nat
    BY <1>1
  <2> QED
    BY ONLY <2>1
<1>5. Rising(r \o e)
  <2>1. Before(Shown(r), Shown(e))
    BY <1>2, <1>4 DEF Before
  <2> QED
    BY <1>1, <1>2, <2>1, RisingJoined
<1>6. Before(Shown(h) \cup Shown(g) \cup Shown(p), Shown(r \o e))
  <2>1. Before(Shown(h) \cup Shown(g) \cup Shown(p), Shown(r))
    BY DEF Unique
  <2> QED
    BY <1>3, <1>4, <2>1 DEF Before
<1>7. \A x \in Shown(r \o e) \cup Shown(h) \cup Shown(g) \cup Shown(p) : x <= n + 1
  <2>1. n + 1 <= n + 1 /\ n + 1 \in Nat
    BY <1>1
  <2> QED
    BY <1>3, <1>4, <2>1
<1> QED
  BY <1>1, <1>3, <1>5, <1>6, <1>7 DEF Unique

(* A receiver with nothing in hand takes the beginning of the answers.     *)
LEMMA UniqueReceive ==
  ASSUME NEW r, NEW g, NEW p, NEW n, Unique(r, <<>>, g, p, n), NEW m \in 0 .. Len(r)
  PROVE  /\ Unique(SubSeq(r, m + 1, Len(r)), SubSeq(r, 1, m), g, p, n)
         /\ Single(<<>>, p) => Single(SubSeq(r, 1, m), p)
<1>1. PICK a, b : a = SubSeq(r, 1, m) /\ b = SubSeq(r, m + 1, Len(r))
  OBVIOUS
<1>2. /\ r \in Seq(Nat) /\ g \in Seq(Nat) /\ p \in Seq(Nat) /\ n \in Nat /\ Rising(r) /\ Rising(g)
      /\ \A x \in Shown(r) \cup Shown(g) \cup Shown(p) : x <= n
      /\ Before(Shown(g) \cup Shown(p), Shown(r))
      /\ Shown(p) \cap Shown(g) = {} /\ NoNul(p) /\ Once(p)
  BY ShownNothing DEF Unique, Before
<1>3. a \in Seq(Nat) /\ b \in Seq(Nat)
  BY <1>1, <1>2, Halves
<1>4. /\ Shown(a) \subseteq Shown(r) /\ Shown(b) \subseteq Shown(r)
      /\ Rising(a) /\ Rising(b) /\ Before(Shown(a), Shown(b))
  BY <1>1, <1>2, ShownParts
<1>5. Shown(r) \subseteq Nat
  BY <1>2, ShownIs
<1>6. Shown(a) \cap Shown(g) = {} /\ Shown(a) \cap Shown(p) = {}
  <2> SUFFICES ASSUME NEW x \in Shown(a), x \in Shown(g) \cup Shown(p) PROVE FALSE
    OBVIOUS
  <2>1. x \in Nat /\ x < x
    BY <1>2, <1>4, <1>5 DEF Before
  <2> QED
    BY ONLY <2>1
<1>7. Before(Shown(a) \cup Shown(g) \cup Shown(p), Shown(b))
  BY <1>2, <1>4 DEF Before
<1>8. Unique(b, a, g, p, n)
  BY <1>2, <1>3, <1>4, <1>6, <1>7 DEF Unique
<1>9. Single(<<>>, p) => Single(a, p)
  BY <1>2, <1>4 DEF Single, Before
<1> QED
  BY <1>1, <1>8, <1>9

(* And prints the beginning of what it has.                                *)
LEMMA UniquePrint ==
  ASSUME NEW r, NEW h, NEW g, NEW p, NEW n, Unique(r, h, g, p, n),
         NEW m \in 0 .. Len(h), \A i \in 1 .. m : h[i] # NUL
  PROVE  /\ Unique(r, <<>>, g, p \o SubSeq(h, 1, m), n)
         /\ Single(h, p) => Single(<<>>, p \o SubSeq(h, 1, m))
<1>1. PICK a : a = SubSeq(h, 1, m)
  OBVIOUS
<1>2. /\ h \in Seq(Nat) /\ g \in Seq(Nat) /\ r \in Seq(Nat) /\ p \in Seq(Nat) /\ Rising(h)
      /\ Shown(p) \cap (Shown(h) \cup Shown(g)) = {} /\ NoNul(p) /\ Once(p)
  BY DEF Unique
<1>3. a \in Seq(Nat) /\ Len(a) = m /\ \A i \in 1 .. m : a[i] = h[i]
  BY <1>1, <1>2, Halves
<1>4. Shown(a) \subseteq Shown(h) /\ Rising(a)
  BY <1>1, <1>2, ShownParts
<1>5. NoNul(a)
  BY <1>3 DEF NoNul
<1>6. Once(p \o a) /\ NoNul(p \o a)
  <2>1. Shown(p) \cap Shown(a) = {}
    BY <1>2, <1>4
  <2> QED
    BY <1>2, <1>3, <1>4, <1>5, <2>1, OnceJoined
<1>7. p \o a \in Seq(Nat) /\ Shown(p \o a) = Shown(p) \cup Shown(a)
  BY <1>2, <1>3, ShownJoined, Joined
<1>8. Unique(r, <<>>, g, p \o a, n)
  <2>1. Before(Shown(g) \cup Shown(p \o a), Shown(r))
    BY <1>4, <1>7 DEF Unique, Before
  <2>2. Shown(p \o a) \cap Shown(g) = {}
    BY <1>4, <1>7 DEF Unique
  <2>3. \A x \in Shown(r) \cup Shown(g) \cup Shown(p \o a) : x <= n
    BY <1>4, <1>7 DEF Unique
  <2>4. <<>> \in Seq(Nat) /\ n \in Nat /\ Rising(r) /\ Rising(g)
    BY DEF Unique
  <2> QED
    BY <1>2, <1>6, <1>7, <2>1, <2>2, <2>3, <2>4, ShownNothing DEF Unique
<1>9. Single(h, p) => Single(<<>>, p \o a)
  <2>1. Single(h, p) => Before(Shown(p), Shown(a))
    BY <1>4 DEF Single, Before
  <2> QED
    BY <1>2, <1>3, <1>4, <2>1, RisingJoined, ShownNothing DEF Single, Before
<1> QED
  BY <1>1, <1>8, <1>9

LEMMA UniqueDrop ==
  ASSUME NEW r, NEW h, NEW g, NEW p, NEW n, Unique(r, h, g, p, n)
  PROVE  /\ Unique(r, <<>>, g, p, n)
         /\ Single(h, p) => Single(<<>>, p)
<1>1. <<>> \in Seq(Nat)
  OBVIOUS
<1> QED
  BY <1>1, ShownNothing DEF Unique, Single, Before

-----------------------------------------------------------------------------
(* With one receiver nothing is left out before an invalid command is      *)
(* answered: entry j of what was printed, is in hand and can be read is j. *)

Good(n, lines) == \A k \in 1 .. n : k <= Len(lines) => ~Invalid(lines[k])

Numbered(s, lines) == \A j \in 1 .. Len(s) : Good(j - 1, lines) => s[j] = j

All(s, lines) == Numbered(s, lines) /\ (Good(Len(s), lines) => Len(lines) = Len(s))

LEMMA GoodLess ==
  ASSUME NEW lines, NEW m \in Nat, NEW n \in Nat, m <= n, Good(n, lines)
  PROVE  Good(m, lines)
  BY DEF Good

LEMMA GoodEarlier ==
  ASSUME NEW lines \in Seq(Seq(Bytes)), NEW line \in Seq(Bytes), NEW n,
         Good(n, Append(lines, line))
  PROVE  Good(n, lines)
<1>1. /\ Len(lines) \in Nat /\ Len(Append(lines, line)) = Len(lines) + 1
      /\ \A k \in 1 .. Len(lines) : Append(lines, line)[k] = lines[k]
  BY AppendProperties, LenProperties
<1>2. \A k \in 1 .. n : k <= Len(lines) => k \in 1 .. Len(lines) /\ k <= Len(lines) + 1
  BY <1>1
<1> QED
  BY <1>1, <1>2 DEF Good

LEMMA AllRun ==
  ASSUME NEW s \in Seq(Nat), NEW lines \in Seq(Seq(Bytes)), NEW line \in Seq(Bytes),
         All(s, lines)
  PROVE  All(s \o Answer(Len(lines) + 1, line), Append(lines, line))
<1>1. PICK more : more = Append(lines, line)
  OBVIOUS
<1>2. /\ Len(lines) \in Nat /\ Len(s) \in Nat /\ Len(more) = Len(lines) + 1
      /\ more[Len(lines) + 1] = line
  BY <1>1, AppendProperties, LenProperties
<1>3. \A n : Good(n, more) => Good(n, lines)
  BY <1>1, GoodEarlier
<1>4. Good(Len(s), more) => Len(lines) = Len(s)
  BY <1>3 DEF All
<1>5. Invalid(line) => ~Good(Len(s) + 1, more)
  <2> SUFFICES ASSUME Invalid(line), Good(Len(s) + 1, more) PROVE FALSE
    OBVIOUS
  <2>1. Good(Len(s), more)
    BY <1>2, GoodLess
  <2>2. Len(s) + 1 \in 1 .. Len(s) + 1 /\ Len(s) + 1 <= Len(more) /\ more[Len(s) + 1] = line
    BY <1>2, <1>4, <2>1
  <2> QED
    BY <2>2 DEF Good
<1>6. PICK e, t : e = Answer(Len(lines) + 1, line) /\ t = s \o e
  OBVIOUS
<1>7. /\ e \in Seq(Nat) /\ e[1] = Len(lines) + 1
      /\ ~Invalid(line) => Len(e) = 1
      /\ Invalid(line) => Len(e) = 2
  BY <1>2, <1>6 DEF Answer, NUL
<1>8. PICK len \in Nat : (len = 1 \/ len = 2) /\ len = Len(e)
  BY <1>7
<1>9. /\ Len(t) = Len(s) + Len(e)
      /\ \A j \in 1 .. Len(s) : t[j] = s[j]
      /\ t[Len(s) + 1] = Len(lines) + 1
  <2>1. /\ Len(t) = Len(s) + Len(e)
        /\ \A j \in 1 .. Len(s) : t[j] = s[j]
        /\ \A j \in 1 .. Len(e) : t[Len(s) + j] = e[j]
    <3>1. s \in Seq(Nat) /\ e \in Seq(Nat) /\ t = s \o e
      BY <1>6, <1>7
    <3> QED
      BY ONLY <3>1, Joined
  <2>2. 1 \in 1 .. len
    BY <1>8
  <2> QED
    BY <1>7, <1>8, <2>1, <2>2
<1>10. ASSUME NEW j \in 1 .. Len(t), Good(j - 1, more)
       PROVE  t[j] = j
  <2>1. CASE j \in 1 .. Len(s)
    <3>1. Good(j - 1, lines)
      BY <1>3, <1>10
    <3>2. s[j] = j
      BY <2>1, <3>1 DEF All, Numbered
    <3> QED
      BY <1>9, <2>1, <3>2
  <2>2. CASE j = Len(s) + 1
    <3>1. j - 1 = Len(s)
      BY <1>2, <2>2
    <3>2. Len(lines) = Len(s)
      BY <1>4, <1>10, <3>1
    <3> QED
      BY <1>9, <2>2, <3>2
  <2>3. CASE j = Len(s) + 2 /\ Len(e) = 2
    <3>1. j - 1 = Len(s) + 1
      BY <1>2, <2>3
    <3> QED
      BY <1>5, <1>7, <1>10, <2>3, <3>1
  <2>4. j \in 1 .. Len(s) + len
    BY <1>8, <1>9
  <2>5. j \in 1 .. Len(s) \/ j = Len(s) + 1 \/ (j = Len(s) + 2 /\ len = 2)
    <3>1. PICK a \in Nat : a = Len(s)
      BY <1>2
    <3>2. j \in Nat /\ 1 <= j /\ j <= a + len /\ a \in Nat /\ (len = 1 \/ len = 2)
      BY <1>8, <2>4, <3>1
    <3>3. j <= a \/ j = a + 1 \/ (j = a + 2 /\ len = 2)
      BY ONLY <3>2
    <3>4. j <= a => j \in 1 .. a
      BY <3>2
    <3> QED
      BY <3>1, <3>3, <3>4
  <2> QED
    BY <1>8, <2>1, <2>2, <2>3, <2>5
<1>11. ASSUME Good(Len(t), more)
       PROVE  Len(more) = Len(t)
  <2>1. CASE Len(e) = 1
    <3>1. Len(t) = Len(s) + 1
      BY <1>9, <2>1
    <3>2. Good(Len(s), more)
      BY <1>2, <1>11, <3>1, GoodLess
    <3> QED
      BY <1>2, <1>4, <3>1, <3>2
  <2>2. CASE Len(e) = 2
    <3>1. Len(t) = Len(s) + 2
      BY <1>9, <2>2
    <3>2. Good(Len(s) + 1, more)
      BY <1>2, <1>11, <3>1, GoodLess
    <3> QED
      BY <1>5, <1>7, <2>2, <3>2
  <2> QED
    BY <1>8, <2>1, <2>2
<1> QED
  BY <1>1, <1>6, <1>10, <1>11 DEF All, Numbered

(* A NUL hides what is behind it in the buffer, and is in nobody's place.  *)
LEMMA AllPrint ==
  ASSUME NEW p \in Seq(Nat), NEW h \in Seq(Nat), NEW r \in Seq(Nat), NEW lines,
         All(p \o (h \o r), lines),
         NEW m \in 0 .. Len(h), m = Len(h) \/ h[m + 1] = NUL
  PROVE  All((p \o SubSeq(h, 1, m)) \o r, lines)
<1>1. PICK a : a = SubSeq(h, 1, m)
  OBVIOUS
<1>2. /\ a \in Seq(Nat) /\ Len(a) = m /\ \A i \in 1 .. m : a[i] = h[i]
      /\ Len(h) \in Nat /\ Len(p) \in Nat /\ Len(r) \in Nat
  BY <1>1, Halves, LenProperties
<1>3. CASE m = Len(h)
  <2>1. a = h
    BY <1>1, <1>3, SubSeqFull
  <2>2. (p \o h) \o r = p \o (h \o r)
    <3>1. Regroups(p, h, r)
      BY JoinedThrice
    <3> QED
      BY <3>1 DEF Regroups
  <2> QED
    BY <1>1, <2>1, <2>2
<1>4. CASE m # Len(h)
  <2>1. m + 1 \in 1 .. Len(h) /\ h[m + 1] = NUL
    BY <1>2, <1>4
  <2>2. PICK w, s : w = h \o r /\ s = p \o w
    OBVIOUS
  <2>3. /\ w \in Seq(Nat) /\ Len(w) = Len(h) + Len(r) /\ \A i \in 1 .. Len(h) : w[i] = h[i]
    BY <1>2, <2>2, Joined
  <2>4. /\ Len(s) = Len(p) + Len(w)
        /\ \A i \in 1 .. Len(p) : s[i] = p[i]
        /\ \A i \in 1 .. Len(w) : s[Len(p) + i] = w[i]
    <3>1. p \in Seq(Nat) /\ w \in Seq(Nat) /\ s = p \o w
      BY <2>2, <2>3
    <3> QED
      BY ONLY <3>1, Joined
  <2>5. ~Good(Len(p) + m, lines)
    <3>1. m + 1 \in 1 .. Len(w)
      BY <1>2, <2>1, <2>3
    <3>2. s[Len(p) + (m + 1)] = NUL
      BY <2>1, <2>3, <2>4, <3>1
    <3>3. /\ Len(p) + (m + 1) \in 1 .. Len(s) /\ (Len(p) + (m + 1)) - 1 = Len(p) + m
          /\ Len(p) + (m + 1) # NUL
      BY <1>2, <2>3, <2>4, <3>1 DEF NUL
    <3> QED
      BY <2>2, <3>2, <3>3 DEF All, Numbered
  <2>6. PICK b, t : b = p \o a /\ t = b \o r
    OBVIOUS
  <2>7. /\ b \in Seq(Nat) /\ Len(b) = Len(p) + m
        /\ \A i \in 1 .. Len(p) : b[i] = p[i]
        /\ \A i \in 1 .. m : b[Len(p) + i] = a[i]
    <3>1. p \in Seq(Nat) /\ a \in Seq(Nat) /\ b = p \o a /\ Len(a) = m
      BY <1>2, <2>6
    <3> QED
      BY ONLY <3>1, Joined
  <2>8. Len(t) = Len(b) + Len(r) /\ \A i \in 1 .. Len(b) : t[i] = b[i]
    <3>1. b \in Seq(Nat) /\ r \in Seq(Nat) /\ t = b \o r
      BY <2>6, <2>7
    <3> QED
      BY ONLY <3>1, Joined
  <2>9. ~Good(Len(t), lines)
    BY <1>2, <2>5, <2>7, <2>8, GoodLess
  <2>10. ASSUME NEW j \in 1 .. Len(t), Good(j - 1, lines)
         PROVE  t[j] = j
    <3>1. j \in 1 .. Len(p) + m
      <4>1. SUFFICES ASSUME j > Len(p) + m PROVE FALSE
        BY <1>2
      <4>2. Len(p) + m \in Nat /\ j - 1 \in Nat /\ Len(p) + m <= j - 1
        BY <1>2, <4>1
      <4> QED
        BY <2>5, <2>10, <4>2, GoodLess
    <3>2. t[j] = s[j]
      <4>1. CASE j \in 1 .. Len(p)
        BY <1>2, <2>4, <2>7, <2>8, <3>1, <4>1
      <4>2. CASE j \notin 1 .. Len(p)
        <5>1. PICK i : i = j - Len(p)
          OBVIOUS
        <5>2. i \in 1 .. m /\ i \in 1 .. Len(h) /\ i \in 1 .. Len(w) /\ j = Len(p) + i
          BY <1>2, <2>3, <3>1, <4>2, <5>1
        <5>3. t[j] = b[Len(p) + i]
          <6>1. j \in 1 .. Len(b)
            BY <2>7, <3>1
          <6> QED
            BY <2>8, <5>2, <6>1
        <5>4. b[Len(p) + i] = h[i]
          BY <1>2, <2>7, <5>2
        <5>5. s[j] = h[i]
          BY <2>3, <2>4, <5>2
        <5> QED
          BY <5>3, <5>4, <5>5
      <4> QED
        BY <4>1, <4>2
    <3>3. j \in 1 .. Len(s)
      BY <1>2, <2>3, <2>4, <3>1
    <3> QED
      BY <2>2, <2>10, <3>2, <3>3 DEF All, Numbered
  <2> QED
    BY <1>1, <2>6, <2>9, <2>10 DEF All, Numbered
<1> QED
  BY <1>3, <1>4

LEMMA NumberedBeginning ==
  ASSUME NEW s \in Seq(Nat), NEW t \in Seq(Nat), NEW lines, Numbered(s \o t, lines)
  PROVE  Numbered(s, lines)
<1>1. PICK u : u = s \o t
  OBVIOUS
<1>2. \A i \in 1 .. Len(s) : i \in 1 .. Len(u) /\ u[i] = s[i]
  BY <1>1, Joined
<1> QED
  BY <1>1, <1>2 DEF Numbered

-----------------------------------------------------------------------------
(* The answers of a connection.                                            *)

Held(c, k) == IF receiver[c][k] = "print" THEN hand[c][k] ELSE <<>>

(* Its first receiver may still print.                                     *)
Live(c) == sender[c] = "connect" \/ receiver[c][1] \in {"loop", "read", "print"}

Accounted(c) ==
  /\ Unique(replies[c], Held(c, 1), Held(c, 2), printed[c], Len(ran[c]))
  /\ sender[c] = "connect" => \A k \in {1, 2} : receiver[c][k] = "none"
  /\ ~interactive =>
       /\ receiver[c][2] = "none"
       /\ Single(Held(c, 1), printed[c])
       /\ Numbered(printed[c], ran[c])
       /\ Live(c) => All(printed[c] \o (Held(c, 1) \o replies[c]), ran[c])

AllAccounted == \A c \in Conns : Accounted(c)

(* A step that prints nothing, and at most takes a text out of a hand.     *)
Drops(c) ==
  /\ interactive' = interactive
  /\ replies'[c] = replies[c] /\ printed'[c] = printed[c] /\ ran'[c] = ran[c]
  /\ \A k \in {1, 2} : Held(c, k)' = Held(c, k) \/ Held(c, k)' = <<>>
  /\ sender'[c] = "connect" => sender[c] = "connect" /\ receiver'[c] = receiver[c]
  /\ ~interactive /\ receiver[c][2] = "none" => receiver'[c][2] = "none"
  /\ ~interactive /\ Live(c)' => Live(c) /\ Held(c, 1)' = Held(c, 1)

LEMMA DropStep ==
  ASSUME NEW c \in Conns, Accounted(c), Drops(c)
  PROVE  Accounted(c)'
<1>1. PICK r, h, g, p, n :
        r = replies[c] /\ h = Held(c, 1) /\ g = Held(c, 2) /\ p = printed[c] /\ n = Len(ran[c])
  OBVIOUS
<1>2. Unique(r, h, g, p, n)
  BY <1>1 DEF Accounted
<1>3. Unique(r, <<>>, g, p, n) /\ (Single(h, p) => Single(<<>>, p))
  BY <1>2, UniqueDrop
<1>4. Unique(r, h, <<>>, p, n)
  <2>1. Unique(r, g, h, p, n)
    BY <1>2, UniqueSwap
  <2>2. Unique(r, <<>>, h, p, n)
    BY <2>1, UniqueDrop
  <2> QED
    BY <2>2, UniqueSwap
<1>5. Unique(r, <<>>, <<>>, p, n)
  BY <1>4, UniqueDrop
<1>6. Unique(replies[c], Held(c, 1), Held(c, 2), printed[c], Len(ran[c]))'
  <2>1. /\ Held(c, 1)' = h \/ Held(c, 1)' = <<>>
        /\ Held(c, 2)' = g \/ Held(c, 2)' = <<>>
        /\ replies'[c] = r /\ printed'[c] = p /\ Len(ran'[c]) = n
    BY <1>1 DEF Drops
  <2> QED
    BY <1>2, <1>3, <1>4, <1>5, <2>1
<1>7. sender'[c] = "connect" => \A k \in {1, 2} : receiver'[c][k] = "none"
  BY DEF Drops, Accounted
<1>8. ASSUME ~interactive'
      PROVE  receiver'[c][2] = "none" /\ Single(Held(c, 1)', printed'[c])
  <2>1. ~interactive /\ receiver[c][2] = "none" /\ Single(h, p)
    BY <1>1, <1>8 DEF Accounted, Drops
  <2>2. receiver'[c][2] = "none"
    BY <2>1 DEF Drops
  <2>3. (Held(c, 1)' = h \/ Held(c, 1)' = <<>>) /\ printed'[c] = p
    BY <1>1 DEF Drops
  <2> QED
    BY <1>3, <2>1, <2>2, <2>3
<1>9. ASSUME ~interactive'
      PROVE  /\ Numbered(printed'[c], ran'[c])
             /\ Live(c)' => All(printed'[c] \o (Held(c, 1)' \o replies'[c]), ran'[c])
  BY <1>9 DEF Accounted, Drops
<1> QED
  BY <1>6, <1>7, <1>8, <1>9 DEF Accounted

LEMMA RunAccounted ==
  ASSUME NEW c \in Conns, BytesOK, AnswersOK, UNCHANGED tvars, run_line(c), Accounted(c)
  PROVE  Accounted(c)'
<1>1. PICK line \in Seq(Bytes) :
        /\ ran' = [ran EXCEPT ![c] = Append(@, line)]
        /\ replies' = [replies EXCEPT ![c] = @ \o Answer(Len(ran[c]) + 1, line)]
        /\ Answer(Len(ran[c]) + 1, line) \in Seq(Nat)
        /\ UNCHANGED <<interactive, sender, receiver, hand, printed>>
  BY RunAnswers
<1>2. PICK r, h, g, p, lines, e :
        /\ r = replies[c] /\ h = Held(c, 1) /\ g = Held(c, 2) /\ p = printed[c]
        /\ lines = ran[c] /\ e = Answer(Len(lines) + 1, line)
  OBVIOUS
<1>3. /\ replies'[c] = r \o e /\ Held(c, 1)' = h /\ Held(c, 2)' = g /\ printed'[c] = p
      /\ ran'[c] = Append(lines, line)
  BY <1>1, <1>2 DEF Held, AnswersOK, BytesOK
<1>4. lines \in Seq(Seq(Bytes)) /\ Len(Append(lines, line)) = Len(lines) + 1
  BY <1>2, AppendProperties DEF BytesOK
<1>5. Unique(r, h, g, p, Len(lines)) /\ e \in {<<Len(lines) + 1>>, <<Len(lines) + 1, NUL>>}
  BY <1>2 DEF Accounted, Answer
<1>6. Unique(r \o e, h, g, p, Len(lines) + 1)
  BY <1>5, UniqueRun
<1>7. r \in Seq(Nat) /\ h \in Seq(Nat) /\ p \in Seq(Nat) /\ e \in Seq(Nat)
  BY <1>1, <1>2, <1>5 DEF Unique
<1>8. ASSUME Numbered(p, lines) PROVE Numbered(p, Append(lines, line))
  BY <1>4, <1>8, GoodEarlier DEF Numbered
<1>9. ASSUME All(p \o (h \o r), lines)
      PROVE  All(p \o (h \o (r \o e)), Append(lines, line))
  <2>1. PICK s : s = p \o (h \o r)
    OBVIOUS
  <2>2. s \in Seq(Nat) /\ h \o r \in Seq(Nat)
    BY <1>7, <2>1, Joined
  <2>3. All(s \o e, Append(lines, line))
    BY <1>2, <1>4, <1>9, <2>1, <2>2, AllRun
  <2>4. s \o e = p \o (h \o (r \o e))
    <3>1. PICK w : w = h \o r
      OBVIOUS
    <3>2. (p \o w) \o e = p \o (w \o e)
      <4>1. p \in Seq(Nat) /\ w \in Seq(Nat) /\ e \in Seq(Nat)
        BY <1>7, <2>2, <3>1
      <4>2. Regroups(p, w, e)
        BY <4>1, JoinedThrice
      <4> QED
        BY <4>2 DEF Regroups
    <3>3. (h \o r) \o e = h \o (r \o e)
      <4>1. Regroups(h, r, e)
        BY <1>7, JoinedThrice
      <4> QED
        BY <4>1 DEF Regroups
    <3> QED
      BY <2>1, <3>1, <3>2, <3>3
  <2> QED
    BY <2>3, <2>4
<1>10. UNCHANGED <<sender[c], receiver[c], interactive>>
  BY <1>1
<1>11. sender'[c] = "connect" => \A k \in {1, 2} : receiver'[c][k] = "none"
  BY <1>10 DEF Accounted
<1>12. ASSUME ~interactive'
       PROVE  /\ receiver'[c][2] = "none"
              /\ Single(h, p)
              /\ Numbered(p, Append(lines, line))
              /\ Live(c)' => All(p \o (h \o (r \o e)), Append(lines, line))
  BY <1>2, <1>8, <1>9, <1>10, <1>12 DEF Accounted, Live
<1> QED
  BY <1>3, <1>4, <1>6, <1>11, <1>12 DEF Accounted

LEMMA ReceiveAccounted ==
  ASSUME NEW c \in Conns, NEW k \in {1, 2}, PlacesOK, AnswersOK, receive(c, k), Accounted(c)
  PROVE  Accounted(c)'
<1>1. PICK n \in 1 .. Len(replies[c]) :
        /\ hand' = [hand EXCEPT ![c][k] = SubSeq(replies[c], 1, n)]
        /\ replies' = [replies EXCEPT ![c] = SubSeq(@, n + 1, Len(@))]
  BY ReceiveAnswers
<1>2. /\ receiver[c][k] = "read" /\ receiver' = [receiver EXCEPT ![c][k] = "print"]
      /\ UNCHANGED <<ran, interactive, sender, printed>>
  BY DEF receive, Move
<1>3. PICK r, h, g, p, lines, a, b :
        /\ r = replies[c] /\ h = Held(c, 1) /\ g = Held(c, 2) /\ p = printed[c]
        /\ lines = ran[c] /\ a = SubSeq(r, 1, n) /\ b = SubSeq(r, n + 1, Len(r))
  OBVIOUS
<1>4. r \in Seq(Nat) /\ n \in 0 .. Len(r)
  <2>1. r \in Seq(Nat) /\ Len(r) \in Nat
    BY <1>3, LenProperties DEF AnswersOK
  <2> QED
    BY <1>3, <2>1
<1>5. /\ hand'[c] = [hand[c] EXCEPT ![k] = a] /\ replies'[c] = b
      /\ receiver'[c] = [receiver[c] EXCEPT ![k] = "print"]
      /\ printed'[c] = p /\ ran'[c] = lines
  BY <1>1, <1>2, <1>3 DEF AnswersOK, PlacesOK
<1>6. Unique(r, h, g, p, Len(lines))
  BY <1>3 DEF Accounted
<1>7. sender'[c] # "connect"
  BY <1>2 DEF Accounted
<1>8. CASE k = 1
  <2>1. h = <<>> /\ Held(c, 1)' = a /\ Held(c, 2)' = g /\ receiver'[c][2] = receiver[c][2]
    BY <1>2, <1>3, <1>5, <1>8 DEF Held, PlacesOK, AnswersOK
  <2>2. Unique(b, a, g, p, Len(lines)) /\ (Single(<<>>, p) => Single(a, p))
    BY <1>3, <1>4, <1>6, <2>1, UniqueReceive
  <2>3. All(p \o (<<>> \o r), lines) => All(p \o (a \o b), lines)
    <3>1. <<>> \o r = r /\ a \o b = r
      BY <1>3, <1>4, Halves, ConcatEmptySeq
    <3> QED
      BY <3>1
  <2>4. Live(c)
    BY <1>2, <1>8 DEF Live
  <2>5. ASSUME ~interactive'
        PROVE  /\ receiver'[c][2] = "none" /\ Single(a, p) /\ Numbered(p, lines)
               /\ All(p \o (a \o b), lines)
    BY <1>2, <1>3, <2>1, <2>2, <2>3, <2>4, <2>5 DEF Accounted
  <2> QED
    BY <1>5, <1>7, <2>1, <2>2, <2>5 DEF Accounted
<1>9. CASE k = 2
  <2>1. g = <<>> /\ Held(c, 2)' = a /\ Held(c, 1)' = h
    BY <1>2, <1>3, <1>5, <1>9 DEF Held, PlacesOK, AnswersOK
  <2>2. Unique(r, <<>>, h, p, Len(lines))
    BY <1>6, <2>1, UniqueSwap
  <2>3. Unique(b, a, h, p, Len(lines))
    BY <1>3, <1>4, <2>2, UniqueReceive
  <2>4. Unique(b, h, a, p, Len(lines))
    BY <2>3, UniqueSwap
  <2>5. interactive'
    BY <1>2, <1>9 DEF Accounted, PlacesOK
  <2> QED
    BY <1>5, <1>7, <2>1, <2>4, <2>5 DEF Accounted
<1> QED
  BY <1>8, <1>9

LEMMA PrintAccounted ==
  ASSUME NEW c \in Conns, NEW k \in {1, 2}, PlacesOK, AnswersOK, print(c, k), Accounted(c)
  PROVE  Accounted(c)'
<1>1. /\ receiver[c][k] = "print" /\ receiver' = [receiver EXCEPT ![c][k] = "loop"]
      /\ printed' = [printed EXCEPT ![c] = @ \o UpToNul(hand[c][k])]
      /\ UNCHANGED <<ran, replies, interactive, sender, hand>>
  BY DEF print, Move, rvars
<1>2. PICK r, h, g, p, lines, s :
        /\ r = replies[c] /\ h = Held(c, 1) /\ g = Held(c, 2) /\ p = printed[c]
        /\ lines = ran[c] /\ s = hand[c][k]
  OBVIOUS
<1>3. s \in Seq(Nat) /\ p \in Seq(Nat) /\ r \in Seq(Nat)
  BY <1>2 DEF AnswersOK
<1>4. PICK n \in 0 .. Len(s) :
        /\ UpToNul(s) = SubSeq(s, 1, n)
        /\ \A i \in 1 .. n : s[i] # NUL
        /\ n = Len(s) \/ s[n + 1] = NUL
  BY <1>3, Printable
<1>5. PICK q : q = p \o SubSeq(s, 1, n)
  OBVIOUS
<1>6. /\ printed'[c] = q /\ receiver'[c] = [receiver[c] EXCEPT ![k] = "loop"]
      /\ replies'[c] = r /\ ran'[c] = lines
  BY <1>1, <1>2, <1>4, <1>5 DEF AnswersOK, PlacesOK
<1>7. Unique(r, h, g, p, Len(lines))
  BY <1>2 DEF Accounted
<1>8. sender'[c] # "connect"
  BY <1>1 DEF Accounted
<1>9. CASE k = 1
  <2>1. h = s /\ Held(c, 1)' = <<>> /\ Held(c, 2)' = g /\ receiver'[c][2] = receiver[c][2]
    BY <1>1, <1>2, <1>6, <1>9 DEF Held, PlacesOK
  <2>2. Unique(r, <<>>, g, q, Len(lines)) /\ (Single(s, p) => Single(<<>>, q))
    BY <1>4, <1>5, <1>7, <2>1, UniquePrint
  <2>3. All(p \o (s \o r), lines) => All(q \o r, lines)
    BY <1>3, <1>4, <1>5, AllPrint
  <2>4. <<>> \o r = r /\ q \in Seq(Nat)
    BY <1>3, <2>2, ConcatEmptySeq DEF Unique
  <2>5. All(q \o r, lines) => Numbered(q, lines)
    BY <1>3, <2>4, NumberedBeginning DEF All
  <2>6. Live(c)
    BY <1>1, <1>9 DEF Live
  <2>7. ASSUME ~interactive'
        PROVE  /\ receiver'[c][2] = "none" /\ Single(<<>>, q) /\ Numbered(q, lines)
               /\ All(q \o (<<>> \o r), lines)
    BY <1>1, <1>2, <2>1, <2>2, <2>3, <2>4, <2>5, <2>6, <2>7 DEF Accounted
  <2> QED
    BY <1>6, <1>8, <2>1, <2>2, <2>7 DEF Accounted
<1>10. CASE k = 2
  <2>1. g = s /\ Held(c, 2)' = <<>> /\ Held(c, 1)' = h
    BY <1>1, <1>2, <1>6, <1>10 DEF Held, PlacesOK
  <2>2. Unique(r, s, h, p, Len(lines))
    BY <1>7, <2>1, UniqueSwap
  <2>3. Unique(r, <<>>, h, q, Len(lines))
    BY <1>4, <1>5, <2>2, UniquePrint
  <2>4. Unique(r, h, <<>>, q, Len(lines))
    BY <2>3, UniqueSwap
  <2>5. interactive'
    BY <1>1, <1>10 DEF Accounted, PlacesOK
  <2> QED
    BY <1>6, <1>8, <2>1, <2>4, <2>5 DEF Accounted
<1> QED
  BY <1>9, <1>10

(* The other actions print nothing and number nothing.                     *)
LEMMA SenderDrops ==
  ASSUME NEW c \in Conns, BytesOK, PlacesOK, Joins, Accounted(c), Sender(c)
  PROVE  Drops(c)
<1>1. UNCHANGED <<interactive, replies, printed, ran, hand>>
  BY DEF Sender, connect, connect_fails, fopen_fails, test_running, fgets, write,
         written, cancel, join, close, rvars
<1>2. CASE connect(c)
  <2>1. /\ sender[c] = "connect" /\ sender'[c] # "connect"
        /\ receiver'[c] = [k \in {1, 2} |-> IF k \in Receivers(c) THEN "loop" ELSE "none"]
    BY <1>2 DEF connect, Goto, PlacesOK
  <2>2. \A k \in {1, 2} : receiver[c][k] = "none"
    BY <2>1 DEF Accounted
  <2>3. \A k \in {1, 2} : Held(c, k) = <<>> /\ Held(c, k)' = <<>>
    BY <2>1, <2>2 DEF Held
  <2>4. ~interactive => receiver'[c][2] = "none"
    BY <2>1 DEF Receivers
  <2> QED
    BY <1>1, <2>1, <2>3, <2>4 DEF Drops, Live
<1>3. CASE join(c)
  <2>1. sender[c] = "join" /\ receiver[c][1] # "none"
    BY <1>3 DEF join, Joins
  <2>2. /\ Victim(c) \in {1, 2} /\ receiver[c][Victim(c)] = "done"
        /\ receiver' = [receiver EXCEPT ![c][Victim(c)] = "none"] /\ sender'[c] # "connect"
    BY <1>3, <2>1, VictimIs DEF join, Goto, PlacesOK
  <2>3. PICK v \in {1, 2} : v = Victim(c)
    BY <2>2
  <2>4. receiver'[c] = [receiver[c] EXCEPT ![v] = "none"] /\ receiver[c][v] = "done"
    BY <2>2, <2>3 DEF PlacesOK
  <2>5. \A k \in {1, 2} : receiver'[c][k] = IF k = v THEN "none" ELSE receiver[c][k]
    BY <2>4 DEF PlacesOK
  <2>6. \A k \in {1, 2} : Held(c, k)' = Held(c, k)
    BY <1>1, <2>4, <2>5 DEF Held
  <2>7. Live(c)' => Live(c)
    BY <2>2, <2>5 DEF Live
  <2> QED
    BY <1>1, <2>2, <2>5, <2>6, <2>7 DEF Drops
<1>4. CASE ~connect(c) /\ ~join(c)
  <2>1. receiver' = receiver
    BY <1>4 DEF Sender, connect_fails, fopen_fails, test_running, fgets, write,
                written, cancel, close
  <2>2. sender'[c] # "connect"
    BY <1>4 DEF Sender, connect_fails, fopen_fails, test_running, fgets, write,
                written, cancel, close, Goto, PlacesOK
  <2>3. \A k \in {1, 2} : Held(c, k)' = Held(c, k)
    BY <1>1, <2>1 DEF Held
  <2>4. Live(c)' => Live(c)
    BY <2>1, <2>2 DEF Live
  <2> QED
    BY <1>1, <2>1, <2>2, <2>3, <2>4 DEF Drops
<1> QED
  BY <1>2, <1>3, <1>4

LEMMA ReceiverDrops ==
  ASSUME NEW c \in Conns, NEW k \in {1, 2}, PlacesOK, Accounted(c),
         receive_test(c, k) \/ receive_end(c, k) \/ receiver_cancelled(c, k)
  PROVE  Drops(c)
<1>1. UNCHANGED <<interactive, replies, printed, ran, hand, sender>>
  BY DEF receive_test, receive_end, receiver_cancelled, rvars
<1>2. PICK place \in {"read", "done"} :
        /\ receiver' = [receiver EXCEPT ![c][k] = place]
        /\ receiver[c][k] \in {"loop", "read", "print"}
        /\ place = "done" \/ receiver[c][k] = "loop"
  BY DEF receive_test, receive_end, receiver_cancelled, Move
<1>3. sender[c] # "connect"
  BY <1>2 DEF Accounted
<1>4. \A j \in {1, 2} : receiver'[c][j] = IF j = k THEN place ELSE receiver[c][j]
  BY <1>2 DEF PlacesOK
<1>5. \A j \in {1, 2} : Held(c, j)' = Held(c, j) \/ Held(c, j)' = <<>>
  BY <1>1, <1>2, <1>4 DEF Held
<1>6. Live(c)' => Live(c) /\ Held(c, 1)' = Held(c, 1)
  BY <1>1, <1>2, <1>3, <1>4 DEF Live, Held
<1>7. ~interactive /\ receiver[c][2] = "none" => receiver'[c][2] = "none"
  BY <1>2, <1>4
<1> QED
  BY <1>1, <1>3, <1>5, <1>6, <1>7 DEF Drops

LEMMA StillDrops ==
  ASSUME NEW c \in Conns, interactive' = interactive,
         replies'[c] = replies[c] /\ printed'[c] = printed[c] /\ ran'[c] = ran[c],
         receiver'[c] = receiver[c] /\ hand'[c] = hand[c] /\ sender'[c] = sender[c]
  PROVE  Drops(c)
<1>1. (\A k \in {1, 2} : Held(c, k)' = Held(c, k)) /\ Live(c)' = Live(c)
  BY DEF Held, Live
<1> QED
  BY <1>1 DEF Drops

(* An action of a connection leaves the answers of the others alone.       *)
LEMMA OtherAccounted ==
  ASSUME NEW c \in Conns, BytesOK, PlacesOK, AnswersOK, Joins,
         (Reader(c) /\ UNCHANGED tvars) \/ Sender(c) \/ \E k \in {1, 2} : Receiver(c, k),
         NEW d \in Conns, d # c
  PROVE  /\ interactive' = interactive
         /\ replies'[d] = replies[d] /\ printed'[d] = printed[d]
         /\ receiver'[d] = receiver[d] /\ hand'[d] = hand[d]
<1>1. CASE Reader(c) /\ UNCHANGED tvars
  BY <1>1 DEF tvars, Reader, register_client, read_some, read_ends, run_line, answered, need_more, close_agent, AnswersOK
<1>2. CASE Sender(c)
  <2>1. UNCHANGED <<interactive, replies, printed, hand>>
    BY <1>2 DEF Sender, connect, connect_fails, fopen_fails, test_running, fgets, write,
                written, cancel, join, close, rvars
  <2>2. UNCHANGED receiver \/ \E new : receiver' = [receiver EXCEPT ![c] = new]
    BY <1>2 DEF Sender, connect, connect_fails, fopen_fails, test_running, fgets, write,
                written, cancel, join, close
  <2>3. receiver \in [Conns -> [{1, 2} -> {"none", "loop", "read", "print", "done"}]]
    BY DEF PlacesOK
  <2>4. receiver'[d] = receiver[d]
    BY <2>2, <2>3
  <2> QED
    BY <2>1, <2>4
<1>3. ASSUME NEW k \in {1, 2}, Receiver(c, k)
      PROVE  /\ interactive' = interactive
             /\ replies'[d] = replies[d] /\ printed'[d] = printed[d]
             /\ receiver'[d] = receiver[d] /\ hand'[d] = hand[d]
  <2>1. receiver'[d] = receiver[d] /\ interactive' = interactive
    <3>1. PICK place \in {"loop", "read", "print", "done"} :
            receiver' = [receiver EXCEPT ![c][k] = place]
      BY ONLY <1>3, c \in Conns, k \in {1, 2}, ReceiverMoves
    <3>2. receiver \in [Conns -> [{1, 2} -> {"none", "loop", "read", "print", "done"}]]
      BY DEF PlacesOK
    <3>3. receiver'[d] = receiver[d]
      BY ONLY <3>1, <3>2, c \in Conns, d \in Conns, d # c
    <3> QED
      BY <1>3, <3>3, ReceiverMoves
  <2>2. replies'[d] = replies[d] /\ printed'[d] = printed[d] /\ hand'[d] = hand[d]
    BY <1>3 DEF Receiver, receive_test, receive, print, receive_end, receiver_cancelled,
                rvars, AnswersOK
  <2> QED
    BY <2>1, <2>2
<1> QED
  BY <1>1, <1>2, <1>3

LEMMA AccountedStep ==
  BytesOK /\ PlacesOK /\ AnswersOK /\ Joins /\ AllAccounted /\ [Next]_vars => AllAccounted'
<1> SUFFICES ASSUME BytesOK, PlacesOK, AnswersOK, Joins, AllAccounted, [Next]_vars, NEW d \in Conns
             PROVE  Accounted(d)'
  BY DEF AllAccounted
<1>1. Accounted(d)
  BY DEF AllAccounted
<1>2. CASE UNCHANGED vars
  <2>1. Drops(d)
    BY <1>2, StillDrops DEF vars, rvars, tvars
  <2> QED
    BY <1>1, <2>1, DropStep
<1>3. ASSUME NEW c \in Conns, d # c,
             (Reader(c) /\ UNCHANGED tvars) \/ Sender(c) \/ \E k \in {1, 2} : Receiver(c, k)
      PROVE  Accounted(d)'
  <2>1. /\ interactive' = interactive
        /\ replies'[d] = replies[d] /\ printed'[d] = printed[d] /\ ran'[d] = ran[d]
        /\ receiver'[d] = receiver[d] /\ hand'[d] = hand[d] /\ sender'[d] = sender[d]
    BY <1>3, OtherAccounted, OneConnection
  <2>2. Drops(d)
    BY <2>1, StillDrops
  <2> QED
    BY <1>1, <2>2, DropStep
<1>4. CASE Reader(d) /\ UNCHANGED tvars
  <2>1. CASE run_line(d)
    BY <1>1, <1>4, <2>1, RunAccounted
  <2>2. CASE ~run_line(d)
    <3>1. UNCHANGED <<replies, ran>> /\ UNCHANGED <<interactive, printed, receiver, hand, sender>>
      BY <1>4, <2>2 DEF Reader, register_client, read_some, read_ends, answered, need_more, close_agent, tvars
    <3>2. Drops(d)
      BY <3>1, StillDrops
    <3> QED
      BY <1>1, <3>2, DropStep
  <2> QED
    BY <2>1, <2>2
<1>5. CASE Sender(d)
  BY <1>1, <1>5, SenderDrops, DropStep
<1>6. ASSUME NEW k \in {1, 2}, Receiver(d, k) PROVE Accounted(d)'
  BY <1>1, <1>6, ReceiveAccounted, PrintAccounted, ReceiverDrops, DropStep DEF Receiver
<1> QED
  BY <1>2, <1>3, <1>4, <1>5, <1>6 DEF Next

-----------------------------------------------------------------------------
(* The inductive invariant of the sessions.                                *)

SessionInv == TypeOK /\ Joins /\ Streams /\ ReaderEndsForCause /\ AllAccounted

LEMMA SessionInit == Init => SessionInv
<1> SUFFICES ASSUME Init PROVE SessionInv
  OBVIOUS
<1>1. PICK launch \in Launches :
        /\ interactive = launch.interactive /\ script = launch.script
        /\ unopened = launch.unopened
        /\ sender = [c \in Conns |-> IF c \in launch.clients THEN "connect" ELSE "exit"]
  BY DEF Init
<1>2. script \in Seq(Seq(Chars)) /\ interactive \in BOOLEAN /\ unopened \subseteq Conns
  BY <1>1, TesterAssumption
<1>3. \A c \in Conns : sender[c] \in {"connect", "exit"}
  BY <1>1
<1>4. ReaderInit
  BY DEF Init
<1>5. Len(<<>>) = 0 /\ Len(script) \in Nat
  BY <1>2, LenProperties
<1>6. <<>> \in Seq(Bytes) /\ <<>> \in Seq(Seq(Bytes)) /\ <<>> \in Seq(Nat) /\ 0 \in 0 .. Len(script)
  BY <1>5
<1>7. BytesOK
  <2>1. at \in [Conns -> 0 .. Len(script)]
    BY <1>6 DEF Init
  <2>2. unsent \in [Conns -> Seq(Bytes)] /\ wire \in [Conns -> Seq(Bytes)]
        /\ buffer \in [Conns -> Seq(Bytes)] /\ ran \in [Conns -> Seq(Seq(Bytes))]
    BY <1>4, <1>6 DEF Init, ReaderInit
  <2>3. \A c \in Conns : Len(wire[c]) = 0 /\ Len(buffer[c]) = 0
    BY <1>4, <1>5 DEF ReaderInit
  <2>4. 0 <= SOCKET_ROOM /\ 0 < BUFFER
    BY ReaderAssumption, TesterAssumption
  <2> QED
    BY <1>2, <2>1, <2>2, <2>3, <2>4 DEF BytesOK
<1>8. PlacesOK
  BY <1>1, <1>2, <1>4 DEF Init, ReaderInit, PlacesOK
<1>9. AnswersOK
  BY <1>4, <1>6 DEF Init, ReaderInit, AnswersOK
<1>10. Joins
  BY <1>3 DEF Joins
<1>11. Streams
  <2> SUFFICES ASSUME NEW c \in Conns PROVE Stream(c)
    BY DEF Streams
  <2>1. /\ buffer[c] = <<>> /\ wire[c] = <<>> /\ unsent[c] = <<>> /\ ran[c] = <<>> /\ at[c] = 0
        /\ reader[c] = "register"
    BY <1>4 DEF Init, ReaderInit
  <2>2. Owed(c) = <<>>
    BY <1>3 DEF Owed
  <2>3. InFlight(c) = <<>>
    <3>1. <<>> \o <<>> = <<>>
      BY <1>6, ConcatEmptySeq
    <3> QED
      BY <2>1, <2>2, <3>1 DEF InFlight, Coming
  <2>4. Carries(<<>>, script, 0, 0)
    BY CarriesNothing
  <2>5. 1 .. 0 = {}
    OBVIOUS
  <2> QED
    BY <1>5, <2>1, <2>3, <2>4, <2>5 DEF Stream
<1>12. ReaderEndsForCause
  BY <1>4 DEF ReaderInit, ReaderEndsForCause, Closed
<1>13. AllAccounted
  <2> SUFFICES ASSUME NEW c \in Conns PROVE Accounted(c)
    BY DEF AllAccounted
  <2>1. /\ replies[c] = <<>> /\ printed[c] = <<>> /\ ran[c] = <<>>
        /\ \A k \in {1, 2} : receiver[c][k] = "none"
    BY <1>4 DEF Init, ReaderInit
  <2>2. Held(c, 1) = <<>> /\ Held(c, 2) = <<>>
    BY <2>1 DEF Held
  <2>3. Unique(<<>>, <<>>, <<>>, <<>>, 0)
    BY <1>6, ShownNothing DEF Unique, Before
  <2>4. Single(<<>>, <<>>)
    BY ShownNothing DEF Single, Before
  <2>5. Numbered(<<>>, <<>>) /\ All(<<>>, <<>>)
    <3>1. 1 .. 0 = {}
      OBVIOUS
    <3> QED
      BY <1>5, <3>1 DEF Numbered, All
  <2>6. <<>> \o (<<>> \o <<>>) = <<>>
    BY <1>6, ConcatEmptySeq
  <2> QED
    BY <1>5, <2>1, <2>2, <2>3, <2>4, <2>5, <2>6 DEF Accounted
<1> QED
  BY <1>7, <1>8, <1>9, <1>10, <1>11, <1>12, <1>13 DEF SessionInv, TypeOK

LEMMA SessionInductive == Spec => []SessionInv
<1>1. SessionInv /\ [Next]_vars => SessionInv'
  BY BytesStep, PlacesStep, AnswersStep, JoinsStep, StreamsStep, CausedStep, AccountedStep
     DEF SessionInv, TypeOK
<1> QED
  BY SessionInit, <1>1, PTL DEF Spec

(* Every variable of the tester and of the readers keeps its type, the     *)
(* socket and the buffer their sizes.                                      *)
THEOREM SessionTypeCorrect == Spec => []TypeOK
<1>1. SessionInv => TypeOK
  BY DEF SessionInv
<1> QED
  BY <1>1, SessionInductive, PTL

(* command_thread_func runs the lines tester.c was given to send, whole    *)
(* and in their order, however write, the socket and read cut them.        *)
THEOREM LinesAreNotTorn == Spec => []LinesArriveWhole
<1>1. ASSUME SessionInv PROVE LinesArriveWhole
  <2> SUFFICES ASSUME NEW c \in Conns
               PROVE  IsPrefix(ran[c], SubSeq(script, 1, at[c]))
    BY DEF LinesArriveWhole
  <2>1. BytesOK /\ Stream(c)
    BY <1>1 DEF SessionInv, TypeOK, Streams
  <2>2. PICK s, t, n : s = ran[c] /\ t = SubSeq(script, 1, at[c]) /\ n = Len(s)
    OBVIOUS
  <2>3. s \in Seq(Seq(Bytes)) /\ script \in Seq(Seq(Chars)) /\ at[c] \in 0 .. Len(script)
    BY <2>1, <2>2 DEF BytesOK
  <2>4. /\ Len(t) = at[c] /\ \A k \in 1 .. at[c] : t[k] = script[k]
        /\ t \in Seq(Seq(Chars))
    BY <2>2, <2>3, Halves
  <2>5. n \in Nat /\ Len(script) \in Nat /\ n <= at[c] /\ at[c] \in Nat
    BY <2>1, <2>2, StreamTypes DEF Stream
  <2>6. \A k \in 1 .. n : s[k] = t[k]
    BY <2>1, <2>2, <2>4, <2>5 DEF Stream
  <2>7. SubSeq(s, 1, n) = SubSeq(t, 1, n)
    <3>1. n \in 0 .. Len(s) /\ n \in 0 .. Len(t)
      BY <2>2, <2>4, <2>5
    <3>2. PICK a, b : a = SubSeq(s, 1, n) /\ b = SubSeq(t, 1, n)
      OBVIOUS
    <3>3. a \in Seq(Seq(Bytes)) /\ Len(a) = n /\ \A k \in 1 .. n : a[k] = s[k]
      BY <2>3, <3>1, <3>2, Halves
    <3>4. b \in Seq(Seq(Chars)) /\ Len(b) = n /\ \A k \in 1 .. n : b[k] = t[k]
      BY <2>4, <3>1, <3>2, Halves
    <3> QED
      BY <2>6, <3>2, <3>3, <3>4, SeqEqual
  <2> QED
    BY <2>2, <2>4, <2>5, <2>7 DEF IsPrefix
<1> QED
  BY <1>1, SessionInductive, PTL

(* A command thread ends for a quit, a client that hung up, or a line that *)
(* fills its buffer, and for nothing else.                                 *)
THEOREM ReaderHasCause == Spec => []ReaderEndsForCause
<1>1. SessionInv => ReaderEndsForCause
  BY DEF SessionInv
<1> QED
  BY <1>1, SessionInductive, PTL

(* receiver_thread prints no answer a second time, whoever reads and       *)
(* whatever ends it; alone on its socket it prints them in order and       *)
(* leaves none out as long as no command is invalid.                       *)
THEOREM NoAnswerTwice == Spec => []AnswersPrintedOnce
<1>1. ASSUME SessionInv PROVE AnswersPrintedOnce
  <2> SUFFICES ASSUME NEW c \in Conns, NEW i \in DOMAIN printed[c], NEW j \in DOMAIN printed[c]
               PROVE  /\ printed[c][i] = printed[c][j] => i = j
                      /\ ~interactive /\ i < j => printed[c][i] < printed[c][j]
                      /\ ~interactive /\ (\A n \in 1 .. printed[c][i] - 1 : ~Invalid(ran[c][n]))
                           => printed[c][i] = i
    BY DEF AnswersPrintedOnce
  <2>1. PICK p : p = printed[c]
    OBVIOUS
  <2>2. /\ p \in Seq(Nat) /\ NoNul(p) /\ Once(p)
        /\ ~interactive => Rising(p) /\ Numbered(p, ran[c])
    BY <1>1, <2>1 DEF SessionInv, AllAccounted, Accounted, Unique, Single
  <2>3. /\ Len(p) \in Nat /\ i \in 1 .. Len(p) /\ j \in 1 .. Len(p)
        /\ p[i] \in Nat /\ p[i] # 0 /\ p[j] # 0
    BY <2>1, <2>2, LenProperties, ShownIs DEF NoNul, NUL
  <2>4. p[i] = p[j] => i = j
    BY <2>2, <2>3 DEF Once
  <2>5. ~interactive /\ i < j => p[i] < p[j]
    BY <2>2, <2>3 DEF Rising, NUL
  <2>6. ASSUME ~interactive, Good(p[i] - 1, ran[c])
        PROVE  p[i] = i
    <3>1. CASE i <= p[i]
      <4>1. i - 1 \in Nat /\ p[i] - 1 \in Nat /\ i - 1 <= p[i] - 1
        BY <2>3, <3>1
      <4>2. Good(i - 1, ran[c])
        BY <2>6, <4>1, GoodLess
      <4> QED
        BY <2>2, <2>3, <2>6, <4>2 DEF Numbered
    <3>2. CASE p[i] < i
      <4>1. PICK n \in Nat : n = p[i]
        BY <2>3
      <4>2. n \in 1 .. Len(p)
        BY <2>3, <3>2, <4>1
      <4>3. p[n] = n
        BY <2>2, <2>6, <4>1, <4>2 DEF Numbered
      <4> QED
        BY <2>2, <2>3, <4>1, <4>2, <4>3 DEF Once
    <3> QED
      BY <2>3, <3>1, <3>2
  <2>7. (\A n \in 1 .. p[i] - 1 : ~Invalid(ran[c][n])) => Good(p[i] - 1, ran[c])
    BY DEF Good
  <2> QED
    BY <2>1, <2>4, <2>5, <2>6, <2>7
<1> QED
  BY <1>1, SessionInductive, PTL

=============================================================================
