-------------------------- MODULE CheckAddrProofs --------------------------
(***************************************************************************)
(* What check_addr answers is the map of one moment, for every set of      *)
(* layouts, addresses and threads.                                         *)
(***************************************************************************)
EXTENDS CheckAddr, FiniteSetTheorems, WellFoundedInduction, TLAPS

-----------------------------------------------------------------------------
(* find_vma and the test after it.                                         *)

(* Of the areas that end above an address one ends first.                  *)
LEMMA FirstAbove ==
  ASSUME areas \in Layouts, NEW a, Above(a) # {}
  PROVE  /\ FindVma(a) \in Above(a)
         /\ \A w \in Above(a) : FindVma(a).end <= w.end
<1> DEFINE Ends == {v.end : v \in Above(a)}
<1>1. \A v \in Above(a) : v.end \in Nat
  BY CheckAddrAssumption DEF Above
<1>2. Ends \subseteq Nat /\ Ends # {}
  BY <1>1
<1>3. PICK e \in Ends : \A f \in Ends : ~(<<f, e>> \in OpToRel(<, Nat))
  <2> HIDE DEF Ends
  <2> QED
    BY <1>2, WFMin, NatLessThanWellFounded, Zenon
<1>4. \A f \in Ends : ~(f < e)
  BY <1>2, <1>3 DEF OpToRel
<1>5. PICK v \in Above(a) : v.end = e
  OBVIOUS
<1>6. \A w \in Above(a) : v.end <= w.end
  BY <1>1, <1>2, <1>4, <1>5
<1> QED
  BY <1>5, <1>6 DEF FindVma

(* The test tells rightly whether an area covers the address, and the area *)
(* found is that one.                                                      *)
LEMMA FoundCovers ==
  ASSUME areas \in Layouts, NEW a \in Int, ~NotMapped(a)
  PROVE  FindVma(a) \in areas /\ Covers(FindVma(a), a)
<1>1. Above(a) # {} /\ ~(a < FindVma(a).start)
  BY DEF NotMapped
<1>2. FindVma(a) \in areas /\ FindVma(a).end > a
  BY <1>1, FirstAbove DEF Above
<1> QED
  BY <1>1, <1>2, CheckAddrAssumption DEF Covers

LEMMA NothingCovers ==
  ASSUME areas \in Layouts, NEW a \in Int, NotMapped(a), NEW v \in areas
  PROVE  ~Covers(v, a)
<1> SUFFICES ASSUME Covers(v, a) PROVE FALSE
  OBVIOUS
<1> DEFINE f == FindVma(a)
<1>1. v \in Above(a) /\ v.start <= a /\ a < v.end
  BY CheckAddrAssumption DEF Covers, Above
<1>2. f \in areas /\ f.end <= v.end /\ a < f.start
  BY <1>1, FirstAbove DEF NotMapped, Above
<1> HIDE DEF f
<1>3. /\ v.start \in Nat /\ v.end \in Nat /\ f.start \in Nat /\ f.end \in Nat
      /\ f.start < f.end
      /\ v # f => v.end <= f.start \/ f.end <= v.start
  BY <1>2, CheckAddrAssumption
<1> QED
  BY <1>1, <1>2, <1>3

-----------------------------------------------------------------------------
(* A record with the fields of struct vma_info.                            *)
IsInfo(rec) ==
  rec = [start |-> rec.start, end |-> rec.end, vmpages |-> rec.vmpages,
         vmresanon |-> rec.vmresanon, vmresfile |-> rec.vmresfile, vmref |-> rec.vmref]

LEMMA FieldsAll ==
  /\ Len(Fields) = 6
  /\ DOMAIN Zeroed = {"start", "end", "vmpages", "vmresanon", "vmresfile", "vmref"}
  /\ \A f \in DOMAIN Zeroed : \E i \in 1 .. 6 : Fields[i] = f
  /\ \A i \in 1 .. 6 : Fields[i] \in DOMAIN Zeroed
<1>1. /\ Fields[1] = "start" /\ Fields[2] = "end" /\ Fields[3] = "vmpages"
      /\ Fields[4] = "vmresanon" /\ Fields[5] = "vmresfile" /\ Fields[6] = "vmref"
      /\ Len(Fields) = 6
  BY DEF Fields
<1>2. DOMAIN Zeroed = {"start", "end", "vmpages", "vmresanon", "vmresfile", "vmref"}
  BY DEF Zeroed
<1>3. \A i \in 1 .. 6 : i = 1 \/ i = 2 \/ i = 3 \/ i = 4 \/ i = 5 \/ i = 6
  OBVIOUS
<1> QED
  BY <1>1, <1>2, <1>3

(* A copy up to the last field is the record.                              *)
LEMMA UptoAll ==
  ASSUME NEW rec, IsInfo(rec), NEW old, DOMAIN old = DOMAIN Zeroed
  PROVE  Upto(rec, old, Len(Fields)) = rec
<1>1. Upto(rec, old, 6) = [f \in DOMAIN Zeroed |-> rec[f]]
  BY FieldsAll DEF Upto
<1>2. rec = [f \in DOMAIN Zeroed |-> rec[f]]
  BY FieldsAll DEF IsInfo
<1> QED
  BY <1>1, <1>2, FieldsAll

(* The shapes of the variables, as far as the rest needs them.             *)
Shapes ==
  /\ areas \in Layouts
  /\ writer \in {"idle", "waits", "areas", "counters"}
  /\ place \in [Threads -> {"lock", "find_vma", "path", "counters", "resident",
                            "unlock", "copy", "fault", "return"}]
  /\ page \in [Threads -> BOOLEAN]
  /\ addr \in [Threads -> Addrs]
  /\ answer \in [Threads -> {"none", "ok", "EINVAL", "EFAULT"}]
  /\ kinfo = [t \in Threads |-> kinfo[t]] /\ DOMAIN kinfo = Threads
  /\ info = [t \in Threads |-> info[t]] /\ DOMAIN info = Threads
  /\ seen = [t \in Threads |-> seen[t]] /\ DOMAIN seen = Threads

Records ==
  \A t \in Threads : IsInfo(kinfo[t]) /\ DOMAIN info[t] = DOMAIN Zeroed

(* A copy that is not done has fields left to write.                       *)
CopyProgress ==
  /\ copied \in [Threads -> 0 .. 6]
  /\ \A t \in Threads : place[t] = "fault" => copied[t] < 6

(* A call holds the read lock exactly from mmap_read_lock to the unlock,   *)
(* the writer has it alone, and a page is in use only for the path.        *)
LockDiscipline ==
  /\ \A t \in Threads :
       /\ t \in readers <=>
            place[t] \in {"find_vma", "path", "counters", "resident", "unlock"}
       /\ page[t] => place[t] = "path"
  /\ writer \in {"areas", "counters"} => readers = {}

(* The counters agree with the areas unless a writer is between the two.   *)
CountersAgree ==
  writer # "counters" => total_vm = Pages(areas) /\ map_count = Cardinality(areas)

(* What a reader saw when it got the lock is still there.                  *)
StillThere ==
  \A t \in Threads : t \in readers => seen[t] = areas

HasArea(rec, v) == rec.start = v.start /\ rec.end = v.end

(* How far the answer is filled in.                                        *)
Filled ==
  \A t \in Threads :
    /\ place[t] \in {"path", "counters", "resident"} =>
         \E v \in seen[t] : Covers(v, addr[t]) /\ HasArea(kinfo[t], v)
    /\ place[t] = "resident" => kinfo[t].vmpages = Pages(seen[t])
    /\ place[t] \in {"unlock", "copy", "fault"} =>
         \E v \in seen[t] : Covers(v, addr[t]) /\ Describes(kinfo[t], v, seen[t])
    /\ answer[t] # "none" => place[t] = "return"

CallInv ==
  /\ Shapes /\ Records /\ CopyProgress /\ LockDiscipline /\ CountersAgree
  /\ StillThere /\ Filled /\ AnswerOfOneMoment

(* Each conjunct is kept by every step, with the conjuncts it names.       *)
LEMMA ShapesStep == Shapes /\ [Next]_vars => Shapes'
<1> SUFFICES ASSUME Shapes, [Next]_vars PROVE Shapes'
  OBVIOUS
<1> USE DEF Shapes, mm, calls, user
<1>1. CASE UNCHANGED vars
  BY <1>1 DEF vars
<1>2. CASE write_lock
  BY <1>2 DEF write_lock
<1>3. CASE write_areas
  BY <1>3 DEF write_areas
<1>4. CASE write_counters
  BY <1>4 DEF write_counters
<1>5. CASE resident
  BY <1>5 DEF resident
<1>6. ASSUME NEW t \in Threads, mmap_read_lock(t) PROVE Shapes'
  BY <1>6 DEF mmap_read_lock, Goto
<1>7. ASSUME NEW t \in Threads, not_mapped(t) PROVE Shapes'
  BY <1>7 DEF not_mapped, Goto, Unlocked
<1>8. ASSUME NEW t \in Threads, fill_area(t) PROVE Shapes'
  BY <1>8 DEF fill_area, Goto
<1>9. ASSUME NEW t \in Threads, get_free_page(t) PROVE Shapes'
  BY <1>9 DEF get_free_page, Goto
<1>10. ASSUME NEW t \in Threads, free_page(t) PROVE Shapes'
  BY <1>10 DEF free_page, Goto
<1>11. ASSUME NEW t \in Threads, counters(t) PROVE Shapes'
  BY <1>11 DEF counters, Goto
<1>12. ASSUME NEW t \in Threads, more_counters(t) PROVE Shapes'
  BY <1>12 DEF more_counters, Goto, After
<1>13. ASSUME NEW t \in Threads, mmap_read_unlock(t) PROVE Shapes'
  BY <1>13 DEF mmap_read_unlock, Goto, Unlocked, After
<1>14. ASSUME NEW t \in Threads, copy_to_user(t) PROVE Shapes'
  BY <1>14 DEF copy_to_user, Goto, Return, After
<1>15. ASSUME NEW t \in Threads, page_fault(t) PROVE Shapes'
  BY <1>15 DEF page_fault, Goto, Return, After
<1> QED
  BY <1>1, <1>2, <1>3, <1>4, <1>5, <1>6, <1>7, <1>8, <1>9, <1>10, <1>11, <1>12, <1>13, <1>14, <1>15
  DEF Next, Writer, Call

LEMMA RecordsStep == Shapes /\ Records /\ [Next]_vars => Records'
<1> SUFFICES ASSUME Shapes, Records, [Next]_vars PROVE Records'
  OBVIOUS
<1> USE DEF Records, mm, calls, user
<1>1. CASE UNCHANGED vars
  BY <1>1 DEF vars
<1>2. CASE write_lock
  BY <1>2 DEF write_lock
<1>3. CASE write_areas
  BY <1>3 DEF write_areas
<1>4. CASE write_counters
  BY <1>4 DEF write_counters
<1>5. CASE resident
  BY <1>5 DEF resident
<1>6. ASSUME NEW t \in Threads, mmap_read_lock(t) PROVE Records'
  BY <1>6 DEF mmap_read_lock, Goto
<1>7. ASSUME NEW t \in Threads, not_mapped(t) PROVE Records'
  BY <1>7 DEF not_mapped, Goto, Unlocked
<1>8. ASSUME NEW t \in Threads, fill_area(t) PROVE Records'
  <2>1. \A u \in Threads : u # t => kinfo'[u] = kinfo[u]
    BY <1>8 DEF fill_area, Shapes
  <2>2. kinfo'[t] = [kinfo[t] EXCEPT !.start = FindVma(addr[t]).start,
                                   !.end = FindVma(addr[t]).end]
    BY <1>8 DEF fill_area, Shapes
  <2>3. IsInfo(kinfo[t])
    OBVIOUS
  <2>4. IsInfo(kinfo'[t])
    BY <2>2, <2>3 DEF IsInfo
  <2> QED
    BY <1>8, <2>1, <2>4 DEF fill_area
<1>9. ASSUME NEW t \in Threads, get_free_page(t) PROVE Records'
  BY <1>9 DEF get_free_page, Goto
<1>10. ASSUME NEW t \in Threads, free_page(t) PROVE Records'
  BY <1>10 DEF free_page, Goto
<1>11. ASSUME NEW t \in Threads, counters(t) PROVE Records'
  <2>1. \A u \in Threads : u # t => kinfo'[u] = kinfo[u]
    BY <1>11 DEF counters, Shapes
  <2>2. kinfo'[t] = [kinfo[t] EXCEPT !.vmpages = total_vm, !.vmresanon = rss_stat]
    BY <1>11 DEF counters, Shapes
  <2>3. IsInfo(kinfo[t])
    OBVIOUS
  <2>4. IsInfo(kinfo'[t])
    BY <2>2, <2>3 DEF IsInfo
  <2> QED
    BY <1>11, <2>1, <2>4 DEF counters
<1>12. ASSUME NEW t \in Threads, more_counters(t) PROVE Records'
  <2>1. \A u \in Threads : u # t => kinfo'[u] = kinfo[u]
    BY <1>12 DEF more_counters, Shapes
  <2>2. kinfo'[t] = [kinfo[t] EXCEPT !.vmresfile = rss_stat, !.vmref = map_count]
    BY <1>12 DEF more_counters, Shapes
  <2>3. IsInfo(kinfo[t])
    OBVIOUS
  <2>4. IsInfo(kinfo'[t])
    BY <2>2, <2>3 DEF IsInfo
  <2> QED
    BY <1>12, <2>1, <2>4 DEF more_counters
<1>13. ASSUME NEW t \in Threads, mmap_read_unlock(t) PROVE Records'
  BY <1>13 DEF mmap_read_unlock, Goto, Unlocked, After
<1>14. ASSUME NEW t \in Threads, copy_to_user(t) PROVE Records'
  <2>1. \A u \in Threads : u # t => info'[u] = info[u]
    BY <1>14 DEF copy_to_user, Return, Shapes
  <2>2. DOMAIN info'[t] = DOMAIN Zeroed
    BY <1>14 DEF copy_to_user, Return, Upto, Shapes
  <2> QED
    BY <1>14, <2>1, <2>2 DEF copy_to_user
<1>15. ASSUME NEW t \in Threads, page_fault(t) PROVE Records'
  <2>1. \A u \in Threads : u # t => info'[u] = info[u]
    BY <1>15 DEF page_fault, Return, Shapes
  <2>2. DOMAIN info'[t] = DOMAIN Zeroed
    BY <1>15 DEF page_fault, Return, Upto, Shapes
  <2> QED
    BY <1>15, <2>1, <2>2 DEF page_fault
<1> QED
  BY <1>1, <1>2, <1>3, <1>4, <1>5, <1>6, <1>7, <1>8, <1>9, <1>10, <1>11, <1>12, <1>13, <1>14, <1>15
  DEF Next, Writer, Call

LEMMA CopyProgressStep == Shapes /\ CopyProgress /\ [Next]_vars => CopyProgress'
<1> SUFFICES ASSUME Shapes, CopyProgress, [Next]_vars PROVE CopyProgress'
  OBVIOUS
<1> USE DEF Shapes, CopyProgress, mm, calls, user
<1>1. CASE UNCHANGED vars
  BY <1>1 DEF vars
<1>2. CASE write_lock
  BY <1>2 DEF write_lock
<1>3. CASE write_areas
  BY <1>3 DEF write_areas
<1>4. CASE write_counters
  BY <1>4 DEF write_counters
<1>5. CASE resident
  BY <1>5 DEF resident
<1>6. ASSUME NEW t \in Threads, mmap_read_lock(t) PROVE CopyProgress'
  BY <1>6 DEF mmap_read_lock, Goto
<1>7. ASSUME NEW t \in Threads, not_mapped(t) PROVE CopyProgress'
  BY <1>7 DEF not_mapped, Goto, Unlocked
<1>8. ASSUME NEW t \in Threads, fill_area(t) PROVE CopyProgress'
  BY <1>8 DEF fill_area, Goto
<1>9. ASSUME NEW t \in Threads, get_free_page(t) PROVE CopyProgress'
  BY <1>9 DEF get_free_page, Goto
<1>10. ASSUME NEW t \in Threads, free_page(t) PROVE CopyProgress'
  BY <1>10 DEF free_page, Goto
<1>11. ASSUME NEW t \in Threads, counters(t) PROVE CopyProgress'
  BY <1>11 DEF counters, Goto
<1>12. ASSUME NEW t \in Threads, more_counters(t) PROVE CopyProgress'
  BY <1>12 DEF more_counters, Goto, After
<1>13. ASSUME NEW t \in Threads, mmap_read_unlock(t) PROVE CopyProgress'
  BY <1>13 DEF mmap_read_unlock, Goto, Unlocked, After
<1>14. ASSUME NEW t \in Threads, copy_to_user(t) PROVE CopyProgress'
  BY <1>14, FieldsAll DEF copy_to_user, Goto, Return, After
<1>15. ASSUME NEW t \in Threads, page_fault(t) PROVE CopyProgress'
  BY <1>15 DEF page_fault, Goto, Return, After
<1> QED
  BY <1>1, <1>2, <1>3, <1>4, <1>5, <1>6, <1>7, <1>8, <1>9, <1>10, <1>11, <1>12, <1>13, <1>14, <1>15
  DEF Next, Writer, Call

LEMMA LockStep == Shapes /\ LockDiscipline /\ [Next]_vars => LockDiscipline'
<1> SUFFICES ASSUME Shapes, LockDiscipline, [Next]_vars PROVE LockDiscipline'
  OBVIOUS
<1> USE DEF Shapes, LockDiscipline, mm, calls, user
<1>1. CASE UNCHANGED vars
  BY <1>1 DEF vars
<1>2. CASE write_lock
  BY <1>2 DEF write_lock
<1>3. CASE write_areas
  BY <1>3 DEF write_areas
<1>4. CASE write_counters
  BY <1>4 DEF write_counters
<1>5. CASE resident
  BY <1>5 DEF resident
<1>6. ASSUME NEW t \in Threads, mmap_read_lock(t) PROVE LockDiscipline'
  BY <1>6 DEF mmap_read_lock, Goto
<1>7. ASSUME NEW t \in Threads, not_mapped(t) PROVE LockDiscipline'
  BY <1>7 DEF not_mapped, Goto, Unlocked
<1>8. ASSUME NEW t \in Threads, fill_area(t) PROVE LockDiscipline'
  BY <1>8 DEF fill_area, Goto
<1>9. ASSUME NEW t \in Threads, get_free_page(t) PROVE LockDiscipline'
  BY <1>9 DEF get_free_page, Goto
<1>10. ASSUME NEW t \in Threads, free_page(t) PROVE LockDiscipline'
  BY <1>10 DEF free_page, Goto
<1>11. ASSUME NEW t \in Threads, counters(t) PROVE LockDiscipline'
  BY <1>11 DEF counters, Goto
<1>12. ASSUME NEW t \in Threads, more_counters(t) PROVE LockDiscipline'
  BY <1>12 DEF more_counters, Goto, After
<1>13. ASSUME NEW t \in Threads, mmap_read_unlock(t) PROVE LockDiscipline'
  BY <1>13 DEF mmap_read_unlock, Goto, Unlocked, After
<1>14. ASSUME NEW t \in Threads, copy_to_user(t) PROVE LockDiscipline'
  BY <1>14 DEF copy_to_user, Goto, Return, After
<1>15. ASSUME NEW t \in Threads, page_fault(t) PROVE LockDiscipline'
  BY <1>15 DEF page_fault, Goto, Return, After
<1> QED
  BY <1>1, <1>2, <1>3, <1>4, <1>5, <1>6, <1>7, <1>8, <1>9, <1>10, <1>11, <1>12, <1>13, <1>14, <1>15
  DEF Next, Writer, Call

LEMMA CountersStep == Shapes /\ CountersAgree /\ [Next]_vars => CountersAgree'
<1> SUFFICES ASSUME Shapes, CountersAgree, [Next]_vars PROVE CountersAgree'
  OBVIOUS
<1> USE DEF Shapes, CountersAgree, mm, calls, user
<1>1. CASE UNCHANGED vars
  BY <1>1 DEF vars
<1>2. CASE write_lock
  BY <1>2 DEF write_lock
<1>3. CASE write_areas
  BY <1>3 DEF write_areas
<1>4. CASE write_counters
  BY <1>4 DEF write_counters
<1>5. CASE resident
  BY <1>5 DEF resident
<1>6. ASSUME NEW t \in Threads, mmap_read_lock(t) PROVE CountersAgree'
  BY <1>6 DEF mmap_read_lock, Goto
<1>7. ASSUME NEW t \in Threads, not_mapped(t) PROVE CountersAgree'
  BY <1>7 DEF not_mapped, Goto, Unlocked
<1>8. ASSUME NEW t \in Threads, fill_area(t) PROVE CountersAgree'
  BY <1>8 DEF fill_area, Goto
<1>9. ASSUME NEW t \in Threads, get_free_page(t) PROVE CountersAgree'
  BY <1>9 DEF get_free_page, Goto
<1>10. ASSUME NEW t \in Threads, free_page(t) PROVE CountersAgree'
  BY <1>10 DEF free_page, Goto
<1>11. ASSUME NEW t \in Threads, counters(t) PROVE CountersAgree'
  BY <1>11 DEF counters, Goto
<1>12. ASSUME NEW t \in Threads, more_counters(t) PROVE CountersAgree'
  BY <1>12 DEF more_counters, Goto, After
<1>13. ASSUME NEW t \in Threads, mmap_read_unlock(t) PROVE CountersAgree'
  BY <1>13 DEF mmap_read_unlock, Goto, Unlocked, After
<1>14. ASSUME NEW t \in Threads, copy_to_user(t) PROVE CountersAgree'
  BY <1>14 DEF copy_to_user, Goto, Return, After
<1>15. ASSUME NEW t \in Threads, page_fault(t) PROVE CountersAgree'
  BY <1>15 DEF page_fault, Goto, Return, After
<1> QED
  BY <1>1, <1>2, <1>3, <1>4, <1>5, <1>6, <1>7, <1>8, <1>9, <1>10, <1>11, <1>12, <1>13, <1>14, <1>15
  DEF Next, Writer, Call

LEMMA StillStep == Shapes /\ LockDiscipline /\ StillThere /\ [Next]_vars => StillThere'
<1> SUFFICES ASSUME Shapes, LockDiscipline, StillThere, [Next]_vars PROVE StillThere'
  OBVIOUS
<1> USE DEF Shapes, LockDiscipline, StillThere, mm, calls, user
<1>1. CASE UNCHANGED vars
  BY <1>1 DEF vars
<1>2. CASE write_lock
  BY <1>2 DEF write_lock
<1>3. CASE write_areas
  BY <1>3 DEF write_areas
<1>4. CASE write_counters
  BY <1>4 DEF write_counters
<1>5. CASE resident
  BY <1>5 DEF resident
<1>6. ASSUME NEW t \in Threads, mmap_read_lock(t) PROVE StillThere'
  BY <1>6 DEF mmap_read_lock, Goto
<1>7. ASSUME NEW t \in Threads, not_mapped(t) PROVE StillThere'
  BY <1>7 DEF not_mapped, Goto, Unlocked
<1>8. ASSUME NEW t \in Threads, fill_area(t) PROVE StillThere'
  BY <1>8 DEF fill_area, Goto
<1>9. ASSUME NEW t \in Threads, get_free_page(t) PROVE StillThere'
  BY <1>9 DEF get_free_page, Goto
<1>10. ASSUME NEW t \in Threads, free_page(t) PROVE StillThere'
  BY <1>10 DEF free_page, Goto
<1>11. ASSUME NEW t \in Threads, counters(t) PROVE StillThere'
  BY <1>11 DEF counters, Goto
<1>12. ASSUME NEW t \in Threads, more_counters(t) PROVE StillThere'
  BY <1>12 DEF more_counters, Goto, After
<1>13. ASSUME NEW t \in Threads, mmap_read_unlock(t) PROVE StillThere'
  BY <1>13 DEF mmap_read_unlock, Goto, Unlocked, After
<1>14. ASSUME NEW t \in Threads, copy_to_user(t) PROVE StillThere'
  BY <1>14 DEF copy_to_user, Goto, Return, After
<1>15. ASSUME NEW t \in Threads, page_fault(t) PROVE StillThere'
  BY <1>15 DEF page_fault, Goto, Return, After
<1> QED
  BY <1>1, <1>2, <1>3, <1>4, <1>5, <1>6, <1>7, <1>8, <1>9, <1>10, <1>11, <1>12, <1>13, <1>14, <1>15
  DEF Next, Writer, Call

FilledFor(t) ==
  /\ place[t] \in {"path", "counters", "resident"} =>
       \E v \in seen[t] : Covers(v, addr[t]) /\ HasArea(kinfo[t], v)
  /\ place[t] = "resident" => kinfo[t].vmpages = Pages(seen[t])
  /\ place[t] \in {"unlock", "copy", "fault"} =>
       \E v \in seen[t] : Covers(v, addr[t]) /\ Describes(kinfo[t], v, seen[t])
  /\ answer[t] # "none" => place[t] = "return"

LEMMA FilledKept ==
  ASSUME Filled, NEW u \in Threads, addr' = addr,
         place'[u] = place[u], kinfo'[u] = kinfo[u], seen'[u] = seen[u],
         answer'[u] = answer[u]
  PROVE  FilledFor(u)'
<1>1. FilledFor(u)
  BY DEF Filled, FilledFor
<1> QED
  BY ONLY <1>1, addr' = addr, place'[u] = place[u], kinfo'[u] = kinfo[u],
          seen'[u] = seen[u], answer'[u] = answer[u]
  DEF FilledFor, HasArea, Describes

LEMMA FilledAll == (\A u \in Threads : FilledFor(u)') => Filled'
  BY DEF Filled, FilledFor

(* The steps of one call leave the others as filled as they were.          *)
LEMMA OthersFilled ==
  ASSUME Shapes, Filled, addr' = addr, NEW t \in Threads, FilledFor(t)',
         \A u \in Threads : u # t => /\ place'[u] = place[u] /\ kinfo'[u] = kinfo[u]
                                    /\ seen'[u] = seen[u] /\ answer'[u] = answer[u]
  PROVE  Filled'
<1>1. ASSUME NEW u \in Threads PROVE FilledFor(u)'
  <2>1. CASE u = t
    BY <2>1
  <2>2. CASE u # t
    BY <2>2, FilledKept
  <2> QED
    BY <2>1, <2>2
<1> QED
  BY <1>1, FilledAll

(* Only the steps that write kinfo, or give an answer, are more than moves *)
(* between places that ask the same of the record.                         *)
LEMMA FilledStep ==
  ASSUME Shapes, Records, LockDiscipline, CountersAgree, StillThere, Filled, [Next]_vars
  PROVE  Filled'
<1> USE DEF mm, calls, user
<1> DEFINE Kept(t) ==
      /\ addr' = addr
      /\ \A u \in Threads : u # t => /\ place'[u] = place[u] /\ kinfo'[u] = kinfo[u]
                                    /\ seen'[u] = seen[u] /\ answer'[u] = answer[u]
<1>1. CASE UNCHANGED calls
  BY <1>1, FilledKept, FilledAll
<1>2. ASSUME NEW t \in Threads, mmap_read_lock(t) PROVE Filled'
  <2>1. Kept(t) /\ place[t] = "lock" /\ place'[t] = "find_vma" /\ answer'[t] = answer[t]
    BY <1>2 DEF mmap_read_lock, Goto, Shapes
  <2>2. FilledFor(t)'
    BY <2>1 DEF FilledFor, Filled
  <2> QED
    BY <2>1, <2>2, OthersFilled
<1>3. ASSUME NEW t \in Threads, not_mapped(t) PROVE Filled'
  <2>1. Kept(t) /\ place'[t] = "return"
    BY <1>3 DEF not_mapped, Goto, Shapes
  <2>2. FilledFor(t)'
    BY <2>1 DEF FilledFor
  <2> QED
    BY <2>1, <2>2, OthersFilled
<1>4. ASSUME NEW t \in Threads, fill_area(t) PROVE Filled'
  <2> PICK v : v = FindVma(addr[t])
    OBVIOUS
  <2>1. addr[t] \in Int
    BY CheckAddrAssumption DEF Shapes
  <2>2. v \in areas /\ Covers(v, addr[t])
    BY <1>4, <2>1, FoundCovers DEF fill_area, Shapes
  <2>3. seen[t] = areas
    BY <1>4 DEF fill_area, LockDiscipline, StillThere
  <2>4. /\ Kept(t) /\ seen'[t] = seen[t] /\ answer'[t] = answer[t]
        /\ place[t] = "find_vma" /\ place'[t] \in {"path", "counters"}
        /\ kinfo'[t] = [kinfo[t] EXCEPT !.start = v.start, !.end = v.end]
    BY <1>4 DEF fill_area, Goto, Shapes
  <2>5. IsInfo(kinfo[t])
    BY DEF Records
  <2>6. HasArea(kinfo'[t], v)
    BY <2>4, <2>5 DEF IsInfo, HasArea
  <2>7. v \in seen'[t] /\ Covers(v, addr'[t])
    BY <2>2, <2>3, <2>4
  <2>8. answer'[t] = "none"
    BY <2>4 DEF Filled
  <2>9. FilledFor(t)'
    BY <2>4, <2>6, <2>7, <2>8 DEF FilledFor
  <2> QED
    BY <2>4, <2>9, OthersFilled
<1>5. ASSUME NEW t \in Threads, get_free_page(t) \/ free_page(t) PROVE Filled'
  <2>1. /\ Kept(t) /\ place[t] = "path" /\ place'[t] \in {"path", "counters"}
        /\ kinfo'[t] = kinfo[t] /\ seen'[t] = seen[t] /\ answer'[t] = answer[t]
    BY <1>5 DEF get_free_page, free_page, Goto, Shapes
  <2>2. FilledFor(t)
    BY DEF Filled, FilledFor
  <2>3. FilledFor(t)'
    BY ONLY <2>1, <2>2 DEF FilledFor, HasArea, Describes
  <2> QED
    BY <2>1, <2>3, OthersFilled
<1>6. ASSUME NEW t \in Threads, counters(t) PROVE Filled'
  <2>1. /\ Kept(t) /\ place[t] = "counters" /\ place'[t] = "resident"
        /\ seen'[t] = seen[t] /\ answer'[t] = answer[t]
        /\ kinfo'[t] = [kinfo[t] EXCEPT !.vmpages = total_vm, !.vmresanon = rss_stat]
    BY <1>6 DEF counters, Goto, Shapes
  <2>2. total_vm = Pages(seen[t])
    BY <2>1 DEF LockDiscipline, StillThere, CountersAgree
  <2>3. PICK v \in seen[t] : Covers(v, addr[t]) /\ HasArea(kinfo[t], v)
    BY <2>1 DEF Filled
  <2>4. IsInfo(kinfo[t])
    BY DEF Records
  <2>5. HasArea(kinfo'[t], v) /\ kinfo'[t].vmpages = total_vm
    BY <2>1, <2>3, <2>4 DEF IsInfo, HasArea
  <2>6. answer'[t] = "none"
    BY <2>1 DEF Filled
  <2>7. kinfo'[t].vmpages = Pages(seen'[t])
    BY <2>1, <2>2, <2>5
  <2>8. FilledFor(t)'
    BY <2>1, <2>3, <2>5, <2>6, <2>7 DEF FilledFor
  <2> QED
    BY <2>1, <2>8, OthersFilled
<1>7. ASSUME NEW t \in Threads, more_counters(t) PROVE Filled'
  <2>1. /\ Kept(t) /\ place[t] = "resident" /\ place'[t] = "unlock"
        /\ seen'[t] = seen[t] /\ answer'[t] = answer[t]
        /\ kinfo'[t] = [kinfo[t] EXCEPT !.vmresfile = rss_stat, !.vmref = map_count]
    BY <1>7 DEF more_counters, Goto, After, Shapes
  <2>2. map_count = Cardinality(seen[t])
    BY <2>1 DEF LockDiscipline, StillThere, CountersAgree
  <2>3. PICK v \in seen[t] : Covers(v, addr[t]) /\ HasArea(kinfo[t], v)
    BY <2>1 DEF Filled
  <2>4. IsInfo(kinfo[t]) /\ kinfo[t].vmpages = Pages(seen[t])
    BY <2>1 DEF Records, Filled
  <2>5. Describes(kinfo'[t], v, seen[t])
    BY <2>1, <2>2, <2>3, <2>4 DEF IsInfo, HasArea, Describes
  <2>6. answer'[t] = "none"
    BY <2>1 DEF Filled
  <2>7. FilledFor(t)'
    BY <2>1, <2>3, <2>5, <2>6 DEF FilledFor
  <2> QED
    BY <2>1, <2>7, OthersFilled
<1>8. ASSUME NEW t \in Threads, mmap_read_unlock(t) PROVE Filled'
  <2>1. /\ Kept(t) /\ place[t] = "unlock" /\ place'[t] = "copy"
        /\ kinfo'[t] = kinfo[t] /\ seen'[t] = seen[t] /\ answer'[t] = answer[t]
    BY <1>8 DEF mmap_read_unlock, Goto, After, Shapes
  <2>2. FilledFor(t)
    BY DEF Filled, FilledFor
  <2>3. FilledFor(t)'
    BY ONLY <2>1, <2>2 DEF FilledFor, HasArea, Describes
  <2> QED
    BY <2>1, <2>3, OthersFilled
<1>9. ASSUME NEW t \in Threads, copy_to_user(t) \/ page_fault(t) PROVE Filled'
  <2>1. /\ Kept(t) /\ place[t] \in {"copy", "fault"}
        /\ \/ place'[t] \in {"copy", "fault"} /\ answer'[t] = answer[t]
           \/ place'[t] = "return"
        /\ kinfo'[t] = kinfo[t] /\ seen'[t] = seen[t]
    BY <1>9 DEF copy_to_user, page_fault, Return, Goto, After, Shapes
  <2>2. FilledFor(t)
    BY DEF Filled, FilledFor
  <2>3. FilledFor(t)'
    BY ONLY <2>1, <2>2 DEF FilledFor, HasArea, Describes
  <2> QED
    BY <2>1, <2>3, OthersFilled
<1> QED
  BY <1>1, <1>2, <1>3, <1>4, <1>5, <1>6, <1>7, <1>8, <1>9
  DEF vars, Next, Writer, Call, write_lock, write_areas, write_counters, resident

LEMMA AnswerStep == Shapes /\ Records /\ LockDiscipline /\ StillThere /\ Filled /\ AnswerOfOneMoment /\ [Next]_vars => AnswerOfOneMoment'
<1> SUFFICES ASSUME Shapes, Records, LockDiscipline, StillThere, Filled, AnswerOfOneMoment, [Next]_vars PROVE AnswerOfOneMoment'
  OBVIOUS
<1> USE DEF Shapes, LockDiscipline, StillThere, Filled, AnswerOfOneMoment, Describes, mm, calls, user
<1>1. CASE UNCHANGED vars
  BY <1>1 DEF vars
<1>2. CASE write_lock
  BY <1>2 DEF write_lock
<1>3. CASE write_areas
  BY <1>3 DEF write_areas
<1>4. CASE write_counters
  BY <1>4 DEF write_counters
<1>5. CASE resident
  BY <1>5 DEF resident
<1>6. ASSUME NEW t \in Threads, mmap_read_lock(t) PROVE AnswerOfOneMoment'
  BY <1>6 DEF mmap_read_lock, Goto
<1>7. ASSUME NEW t \in Threads, not_mapped(t) PROVE AnswerOfOneMoment'
  <2>1. \A v \in areas : ~Covers(v, addr[t])
    BY <1>7, CheckAddrAssumption, NothingCovers DEF not_mapped
  <2>2. seen[t] = areas
    BY <1>7 DEF not_mapped
  <2> QED
    BY <1>7, <2>1, <2>2 DEF not_mapped
<1>8. ASSUME NEW t \in Threads, fill_area(t) PROVE AnswerOfOneMoment'
  BY <1>8 DEF fill_area, Goto
<1>9. ASSUME NEW t \in Threads, get_free_page(t) PROVE AnswerOfOneMoment'
  BY <1>9 DEF get_free_page, Goto
<1>10. ASSUME NEW t \in Threads, free_page(t) PROVE AnswerOfOneMoment'
  BY <1>10 DEF free_page, Goto
<1>11. ASSUME NEW t \in Threads, counters(t) PROVE AnswerOfOneMoment'
  BY <1>11 DEF counters, Goto
<1>12. ASSUME NEW t \in Threads, more_counters(t) PROVE AnswerOfOneMoment'
  BY <1>12 DEF more_counters, Goto, After
<1>13. ASSUME NEW t \in Threads, mmap_read_unlock(t) PROVE AnswerOfOneMoment'
  BY <1>13 DEF mmap_read_unlock, Goto, Unlocked, After
<1>14. ASSUME NEW t \in Threads, copy_to_user(t) PROVE AnswerOfOneMoment'
  <2>1. /\ place[t] = "copy" /\ UNCHANGED <<addr, kinfo, seen>>
        /\ \A u \in Threads : u # t => info'[u] = info[u] /\ answer'[u] = answer[u]
    BY <1>14 DEF copy_to_user, Return
  <2>2. /\ answer'[t] # "EINVAL"
        /\ answer'[t] = "ok" => info'[t] = Upto(kinfo[t], info[t], Len(Fields))
    BY <1>14, <2>1 DEF copy_to_user, Return, Filled
  <2>3. answer'[t] = "ok" => info'[t] = kinfo[t]
    BY <2>2, UptoAll DEF Records
  <2>4. \E v \in seen[t] : Covers(v, addr[t]) /\ Describes(kinfo[t], v, seen[t])
    BY <2>1 DEF Filled
  <2> QED
    BY <2>1, <2>2, <2>3, <2>4
<1>15. ASSUME NEW t \in Threads, page_fault(t) PROVE AnswerOfOneMoment'
  <2>1. /\ place[t] = "fault" /\ UNCHANGED <<addr, kinfo, seen>>
        /\ \A u \in Threads : u # t => info'[u] = info[u] /\ answer'[u] = answer[u]
    BY <1>15 DEF page_fault, Return
  <2>2. answer'[t] \in {"none", "EFAULT"}
    BY <1>15, <2>1 DEF page_fault, Return, Filled
  <2> QED
    BY <2>1, <2>2
<1> QED
  BY <1>1, <1>2, <1>3, <1>4, <1>5, <1>6, <1>7, <1>8, <1>9, <1>10, <1>11, <1>12, <1>13, <1>14, <1>15
  DEF Next, Writer, Call

LEMMA CallInit == Init => CallInv
<1>1. Init => Records
  BY DEF Init, Records, IsInfo, Zeroed, Untouched
<1> QED
  BY <1>1 DEF Init, CallInv, Shapes, CopyProgress, LockDiscipline, CountersAgree,
              StillThere, Filled, AnswerOfOneMoment

LEMMA CallInvariant == Spec => []CallInv
<1>1. CallInv /\ [Next]_vars => CallInv'
  BY ShapesStep, RecordsStep, CopyProgressStep, LockStep, CountersStep, StillStep,
     FilledStep, AnswerStep
  DEF CallInv
<1> QED
  BY <1>1, CallInit, PTL DEF Spec

-----------------------------------------------------------------------------
(* Whatever the layouts and however many threads map and unmap meanwhile,  *)
(* check_addr answers for the areas of the moment it got the lock: EINVAL  *)
(* if none covered the address, else the one that did, with the counters   *)
(* that belong to that layout.                                             *)
THEOREM AnswerIsASnapshot == Spec => []AnswerOfOneMoment
<1>1. CallInv => AnswerOfOneMoment
  BY DEF CallInv
<1> QED
  BY <1>1, CallInvariant, PTL

(* Every path out of check_addr has given back the mmap lock and the page. *)
THEOREM LockAndPageReturned == Spec => []NothingLeftBehind
<1>1. CallInv => NothingLeftBehind
  BY DEF CallInv, LockDiscipline, NothingLeftBehind
<1> QED
  BY <1>1, CallInvariant, PTL

-----------------------------------------------------------------------------
(* The call takes effect in one step: in more_counters, the area and the   *)
(* counters being of one layout by then, or in not_mapped.                 *)

Noted == <<Sampled, TakenDown>>

Inside == {"unlock", "copy", "fault"}

(* What is taken down changes only with the call's own place and kinfo.    *)
LEMMA NotedStep ==
  ASSUME NEW t \in Threads,
         \A u \in Threads : u # t => place'[u] = place[u] /\ kinfo'[u] = kinfo[u]
  PROVE  /\ Sampled' = [Sampled EXCEPT ![t] =
              IF place'[t] = "resident" THEN {kinfo'[t].vmresanon} ELSE {}]
         /\ TakenDown' = [TakenDown EXCEPT ![t] =
              IF place'[t] \in Inside THEN {kinfo'[t]} ELSE {}]
<1>1. Sampled' = [Sampled EXCEPT ![t] =
         IF place'[t] = "resident" THEN {kinfo'[t].vmresanon} ELSE {}]
  BY DEF Sampled
<1>2. TakenDown' = [TakenDown EXCEPT ![t] = IF place'[t] \in Inside THEN {kinfo'[t]} ELSE {}]
  BY DEF TakenDown, Inside
<1> QED
  BY <1>1, <1>2

LEMMA NotedSame ==
  ASSUME NEW t \in Threads,
         \A u \in Threads : u # t => place'[u] = place[u] /\ kinfo'[u] = kinfo[u],
         place[t] # "resident", place'[t] # "resident",
         place[t] \in Inside <=> place'[t] \in Inside,
         place[t] \in Inside => kinfo'[t] = kinfo[t]
  PROVE  UNCHANGED Noted
<1>1. Sampled' = Sampled
  BY DEF Sampled
<1>2. TakenDown' = TakenDown
  BY DEF TakenDown, Inside
<1> QED
  BY <1>1, <1>2 DEF Noted

LEMMA AtomicInit == Init => Atomic!Init
BY DEF Init, Atomic!Init, TakenDown, Sampled

(* The abstract specification counts as the code does.                     *)
LEMMA SameOperators ==
  /\ Pages(areas) = Atomic!Pages(areas)
  /\ Cardinality(areas) = Atomic!Cardinality(areas)
  /\ \A v, a : Covers(v, a) = Atomic!Covers(v, a)
  /\ \A new, old, n : Upto(new, old, n) = Atomic!Upto(new, old, n)
<1>1. Pages(areas) = Atomic!Pages(areas)
  BY Zenon DEF Pages, Atomic!Pages, MapThenSumSet, MapThenFoldSet,
               Atomic!MapThenSumSet, Atomic!MapThenFoldSet
<1>2. Cardinality(areas) = Atomic!Cardinality(areas)
  BY Zenon DEF Cardinality, Atomic!Cardinality
<1>3. \A v, a : Covers(v, a) = Atomic!Covers(v, a)
  BY DEF Covers, Atomic!Covers
<1>4. \A new, old, n : Upto(new, old, n) = Atomic!Upto(new, old, n)
  BY Zenon DEF Upto, Atomic!Upto
<1> QED
  BY <1>1, <1>2, <1>3, <1>4

(* counters is where the first resident counter is read.                   *)
LEMMA CountersSample ==
  ASSUME CallInv, NEW t \in Threads, counters(t)
  PROVE  Atomic!Sample(t)
<1>1. /\ place[t] = "counters" /\ place'[t] = "resident"
      /\ \A u \in Threads : u # t => place'[u] = place[u] /\ kinfo'[u] = kinfo[u]
      /\ UNCHANGED <<areas, rss_stat, addr, info, answer>>
      /\ kinfo'[t] = [kinfo[t] EXCEPT !.vmpages = total_vm, !.vmresanon = rss_stat]
  BY DEF counters, Goto, mm, user, CallInv, Shapes
<1>2. IsInfo(kinfo[t])
  BY DEF CallInv, Records
<1>3. kinfo'[t].vmresanon = rss_stat
  BY <1>1, <1>2 DEF IsInfo
<1>4. /\ Sampled' = [Sampled EXCEPT ![t] = {rss_stat}]
      /\ TakenDown' = [TakenDown EXCEPT ![t] = {}]
  BY <1>1, <1>3, NotedStep DEF Inside
<1>5. TakenDown[t] = {} /\ Sampled[t] = {} /\ answer[t] = "none"
  BY <1>1 DEF TakenDown, Sampled, CallInv, Filled
<1>6. TakenDown' = TakenDown
  BY <1>4, <1>5 DEF TakenDown
<1> QED
  BY <1>1, <1>4, <1>5, <1>6 DEF Atomic!Sample, Atomic!Undecided

(* more_counters is where a call that finds an area takes effect.          *)
LEMMA CountersFind ==
  ASSUME CallInv, NEW t \in Threads, more_counters(t)
  PROVE  Atomic!Find(t)
<1>1. /\ place[t] = "resident" /\ place'[t] = "unlock"
      /\ \A u \in Threads : u # t => place'[u] = place[u] /\ kinfo'[u] = kinfo[u]
      /\ UNCHANGED <<areas, rss_stat, addr, info, answer>>
      /\ kinfo'[t] = [kinfo[t] EXCEPT !.vmresfile = rss_stat, !.vmref = map_count]
  BY DEF more_counters, Goto, After, mm, user, CallInv, Shapes
<1>2. seen[t] = areas /\ writer # "counters"
  BY <1>1 DEF CallInv, LockDiscipline, StillThere
<1>3. map_count = Cardinality(areas) /\ kinfo[t].vmpages = Pages(areas)
  BY <1>1, <1>2 DEF CallInv, CountersAgree, Filled
<1>4. PICK v \in areas : Covers(v, addr[t]) /\ HasArea(kinfo[t], v)
  BY <1>1, <1>2 DEF CallInv, Filled
<1>5. IsInfo(kinfo[t])
  BY DEF CallInv, Records
<1>6. kinfo'[t] = [start |-> v.start, end |-> v.end, vmpages |-> Pages(areas),
                   vmresanon |-> kinfo[t].vmresanon, vmresfile |-> rss_stat,
                   vmref |-> Cardinality(areas)]
  BY <1>1, <1>3, <1>4, <1>5 DEF IsInfo, HasArea
<1>7. /\ Sampled' = [Sampled EXCEPT ![t] = {}]
      /\ TakenDown' = [TakenDown EXCEPT ![t] = {kinfo'[t]}]
  BY <1>1, NotedStep DEF Inside
<1>8. TakenDown[t] = {} /\ Sampled[t] = {kinfo[t].vmresanon} /\ answer[t] = "none"
  BY <1>1 DEF TakenDown, Sampled, CallInv, Filled
<1> DEFINE sample == kinfo[t].vmresanon
<1>9. TakenDown' = [TakenDown EXCEPT ![t] =
        {[start |-> v.start, end |-> v.end, vmpages |-> Atomic!Pages(areas),
          vmresanon |-> sample, vmresfile |-> rss_stat,
          vmref |-> Atomic!Cardinality(areas)]}]
  BY <1>6, <1>7, SameOperators
<1>10. sample \in Sampled[t] /\ Atomic!Covers(v, addr[t])
  BY <1>4, <1>8, SameOperators
<1> HIDE DEF sample
<1>11. \E w \in areas, x \in Sampled[t] :
        /\ Atomic!Covers(w, addr[t])
        /\ TakenDown' = [TakenDown EXCEPT ![t] =
             {[start |-> w.start, end |-> w.end, vmpages |-> Atomic!Pages(areas),
               vmresanon |-> x, vmresfile |-> rss_stat,
               vmref |-> Atomic!Cardinality(areas)]}]
  BY <1>9, <1>10
<1> QED
  BY <1>1, <1>7, <1>8, <1>11, Zenon DEF Atomic!Find, Atomic!Undecided

(* not_mapped is where a call that finds none does.                        *)
LEMMA NotMappedMisses ==
  ASSUME CallInv, NEW t \in Threads, not_mapped(t)
  PROVE  Atomic!Miss(t)
<1>1. /\ place[t] = "find_vma" /\ place'[t] = "return"
      /\ \A u \in Threads : u # t => place'[u] = place[u] /\ kinfo'[u] = kinfo[u]
      /\ answer' = [answer EXCEPT ![t] = "EINVAL"]
      /\ UNCHANGED <<areas, rss_stat, addr, kinfo, info>>
  BY DEF not_mapped, Goto, mm, user, CallInv, Shapes
<1>2. UNCHANGED Noted
  BY <1>1, NotedSame DEF Inside
<1>3. TakenDown[t] = {} /\ Sampled[t] = {} /\ answer[t] = "none"
  BY <1>1 DEF TakenDown, Sampled, CallInv, Filled
<1>4. \A v \in areas : ~Covers(v, addr[t])
  BY NothingCovers, CheckAddrAssumption DEF not_mapped, CallInv, Shapes
<1> QED
  BY <1>1, <1>2, <1>3, <1>4, SameOperators DEF Noted, Atomic!Miss, Atomic!Undecided

(* The copy writes the record from the front: to its end and the call      *)
(* answers 0, or to the field that faults.                                 *)
LEMMA CopyDelivers ==
  ASSUME CallInv, NEW t \in Threads, copy_to_user(t)
  PROVE  Atomic!Write(t) \/ Atomic!Deliver(t) \/ Atomic!Fail(t)
<1>1. /\ place[t] = "copy" /\ UNCHANGED <<areas, rss_stat, addr, kinfo>>
      /\ \A u \in Threads : u # t => place'[u] = place[u] /\ kinfo'[u] = kinfo[u]
  BY DEF copy_to_user, Goto, Return, mm, CallInv, Shapes
<1>2. TakenDown[t] = {kinfo[t]} /\ Sampled[t] = {}
  BY <1>1 DEF TakenDown, Sampled
<1>3. CASE \E n \in 0 .. Len(Fields) :
             /\ info' = [info EXCEPT ![t] = Upto(kinfo[t], info[t], n)]
             /\ Goto(t, "fault") /\ UNCHANGED answer
  <2>1. place'[t] = "fault"
    BY <1>3 DEF Goto, CallInv, Shapes
  <2>2. UNCHANGED Noted
    BY <1>1, <2>1, NotedSame DEF Inside
  <2> QED
    BY <1>1, <1>2, <1>3, <2>2, SameOperators DEF Noted, Atomic!Write
<1>4. CASE /\ info' = [info EXCEPT ![t] = Upto(kinfo[t], info[t], Len(Fields))]
           /\ Return(t, "ok")
  <2>1. place'[t] = "return" /\ answer' = [answer EXCEPT ![t] = "ok"]
    BY <1>4 DEF Return, Goto, After, CallInv, Shapes
  <2>2. Upto(kinfo[t], info[t], Len(Fields)) = kinfo[t]
    BY UptoAll DEF CallInv, Records
  <2>3. TakenDown' = [TakenDown EXCEPT ![t] = {}] /\ Sampled' = Sampled
    BY <1>1, <1>2, <2>1, NotedStep DEF Inside, Sampled
  <2> QED
    BY <1>1, <1>2, <1>4, <2>1, <2>2, <2>3 DEF Atomic!Deliver
<1>5. CASE Return(t, "EFAULT") /\ UNCHANGED user
  <2>1. place'[t] = "return" /\ answer' = [answer EXCEPT ![t] = "EFAULT"]
    BY <1>5 DEF Return, Goto, After, CallInv, Shapes
  <2>2. TakenDown' = [TakenDown EXCEPT ![t] = {}] /\ Sampled' = Sampled
    BY <1>1, <1>2, <2>1, NotedStep DEF Inside, Sampled
  <2> QED
    BY <1>1, <1>2, <1>5, <2>1, <2>2 DEF Atomic!Fail, user
<1>6. copied[t] \in 0 .. 6
  BY DEF CallInv, CopyProgress
<1> QED
  BY <1>3, <1>4, <1>5, <1>6, FieldsAll DEF copy_to_user

LEMMA FaultDelivers ==
  ASSUME CallInv, NEW t \in Threads, page_fault(t)
  PROVE  Atomic!Write(t) \/ Atomic!Fail(t)
<1>1. /\ place[t] = "fault" /\ UNCHANGED <<areas, rss_stat, addr, kinfo>>
      /\ \A u \in Threads : u # t => place'[u] = place[u] /\ kinfo'[u] = kinfo[u]
  BY DEF page_fault, Goto, Return, mm, CallInv, Shapes
<1>2. TakenDown[t] = {kinfo[t]} /\ Sampled[t] = {}
  BY <1>1 DEF TakenDown, Sampled
<1>3. CASE /\ info' = [info EXCEPT ![t] = Upto(kinfo[t], info[t], copied[t] + 1)]
           /\ Goto(t, "copy") /\ UNCHANGED answer
  <2>1. place'[t] = "copy"
    BY <1>3 DEF Goto, CallInv, Shapes
  <2>2. UNCHANGED Noted
    BY <1>1, <2>1, NotedSame DEF Inside
  <2>3. copied[t] + 1 \in 0 .. Len(Fields)
    BY <1>1, FieldsAll DEF CallInv, CopyProgress
  <2> QED
    BY <1>1, <1>2, <1>3, <2>2, <2>3, SameOperators DEF Noted, Atomic!Write
<1>4. CASE Return(t, "EFAULT") /\ UNCHANGED user
  <2>1. place'[t] = "return" /\ answer' = [answer EXCEPT ![t] = "EFAULT"]
    BY <1>4 DEF Return, Goto, After, CallInv, Shapes
  <2>2. TakenDown' = [TakenDown EXCEPT ![t] = {}] /\ Sampled' = Sampled
    BY <1>1, <1>2, <2>1, NotedStep DEF Inside, Sampled
  <2> QED
    BY <1>1, <1>2, <1>4, <2>1, <2>2 DEF Atomic!Fail, user
<1> QED
  BY <1>3, <1>4 DEF page_fault

Seen == <<areas, rss_stat, addr, Noted, info, answer>>

(* The other steps of a call are not seen; a change of the areas is, and   *)
(* one of the resident counters.                                           *)
LEMMA AtomicStep ==
  ASSUME CallInv, [Next]_vars
  PROVE  [Atomic!Next]_Seen
<1> USE DEF mm, calls, user
<1>1. CASE UNCHANGED vars
  BY <1>1 DEF vars, Noted, TakenDown, Sampled, Seen
<1>2. CASE write_lock \/ write_counters
  BY <1>2 DEF write_lock, write_counters, Noted, TakenDown, Sampled, Seen
<1>3. CASE write_areas
  <2>1. areas' \in Layouts /\ UNCHANGED <<rss_stat, addr, place, kinfo, info, answer>>
    BY <1>3 DEF write_areas
  <2> QED
    BY <2>1 DEF TakenDown, Sampled, Atomic!Next, Atomic!Change
<1>4. CASE resident
  <2>1. rss_stat' \in Versions /\ UNCHANGED <<areas, addr, place, kinfo, info, answer>>
    BY <1>4 DEF resident
  <2> QED
    BY <2>1 DEF TakenDown, Sampled, Atomic!Next, Atomic!Page
<1>5. ASSUME NEW t \in Threads, mmap_read_lock(t)
      PROVE  UNCHANGED Seen
  BY <1>5, NotedSame DEF mmap_read_lock, Goto, CallInv, Shapes, Inside, Seen
<1>6. ASSUME NEW t \in Threads, fill_area(t)
      PROVE  UNCHANGED Seen
  BY <1>6, NotedSame DEF fill_area, Goto, CallInv, Shapes, Inside, Seen
<1>7. ASSUME NEW t \in Threads, get_free_page(t) \/ free_page(t)
      PROVE  UNCHANGED Seen
  BY <1>7, NotedSame DEF get_free_page, free_page, Goto, CallInv, Shapes, Inside, Seen
<1>8. ASSUME NEW t \in Threads, mmap_read_unlock(t)
      PROVE  UNCHANGED Seen
  BY <1>8, NotedSame DEF mmap_read_unlock, Goto, After, CallInv, Shapes, Inside, Seen
<1> QED
  BY <1>1, <1>2, <1>3, <1>4, <1>5, <1>6, <1>7, <1>8,
     CountersSample, CountersFind, NotMappedMisses, CopyDelivers, FaultDelivers
  DEF Next, Writer, Call, Atomic!Next

(* For every set of layouts and any number of threads a call of check_addr *)
(* is one step on the address space, although the code reads the area and  *)
(* the counters one by one and copies after the unlock: its caller gets    *)
(* EINVAL of one moment, or area, pages and count of one moment together   *)
(* with resident counters each of its own, whole or, with EFAULT, only the *)
(* front of it.                                                            *)
THEOREM CheckAddrIsAtomic == Spec => CallIsAtomic
<1>1. Init => Atomic!Init
  BY AtomicInit
<1>2. CallInv /\ [Next]_vars => [Atomic!Next]_Atomic!vars
  BY AtomicStep DEF Seen, Noted, Atomic!vars
<1> QED
  BY <1>1, <1>2, CallInvariant, PTL DEF Spec, CallIsAtomic, Atomic!Spec

-----------------------------------------------------------------------------
(* Types: the counters are numbers, and an answer has the fields that the  *)
(* steps behind it have filled in.                                         *)

(* A set of numbers that is not empty has a least one.                     *)
LEMMA LeastNumber ==
  ASSUME NEW S \in SUBSET Nat, S # {}
  PROVE  \E x \in S : \A y \in S : x <= y
<1>1. PICK e \in S : \A f \in S : ~(<<f, e>> \in OpToRel(<, Nat))
  BY WFMin, NatLessThanWellFounded, Zenon
<1>2. \A f \in S : ~(f < e)
  BY <1>1 DEF OpToRel
<1> QED
  BY <1>2

(* total_vm is a sum over the areas, in the order in which CHOOSE picks    *)
(* them.                                                                   *)
First(s) == CHOOSE x \in s : TRUE
Weight(s) == First(s).end - First(s).start
(* g sums the sets of D: the function by which the library defines a fold. *)
SumOver(layout, D, g) ==
  g = [s \in D |-> IF s = {} THEN 0 ELSE Weight(s) + g[s \ {First(s)}]]

LEMMA PagesUnfold ==
  ASSUME NEW layout
  PROVE Pages(layout) = (CHOOSE g : SumOver(layout, SUBSET layout, g))[layout]
BY Zenon DEF Pages, MapThenSumSet, MapThenFoldSet, SumOver, Weight, First

(* The sets of at most n areas, and that there is a sum on them.           *)
Small(layout, n) == {s \in SUBSET layout : Cardinality(s) <= n}
Sums(layout, n) ==
  \E g \in [Small(layout, n) -> Nat] : SumOver(layout, Small(layout, n), g)

(* An area has its length.                                                 *)
LEMMA WeightNat ==
  ASSUME NEW layout \in Layouts, NEW s \in SUBSET layout, s # {}
  PROVE  First(s) \in s /\ Weight(s) \in Nat
<1>1. First(s) \in s
  BY DEF First
<1>2. /\ First(s).start \in Nat /\ First(s).end \in Nat /\ First(s).start < First(s).end
  BY <1>1, CheckAddrAssumption
<1> QED
  BY <1>1, <1>2 DEF Weight

(* Without one of its areas a set has one less.                            *)
LEMMA Smaller ==
  ASSUME NEW layout, IsFiniteSet(layout), NEW s \in SUBSET layout, NEW x \in s
  PROVE  /\ Cardinality(s) \in Nat /\ Cardinality(s \ {x}) \in Nat
         /\ Cardinality(s \ {x}) = Cardinality(s) - 1
  BY FS_Subset, FS_CardinalityType, FS_RemoveElement

(* The empty set has the sum 0.                                            *)
LEMMA SumsZero == ASSUME NEW layout, IsFiniteSet(layout) PROVE Sums(layout, 0)
<1> DEFINE g == [s \in Small(layout, 0) |-> 0]
<1>1. ASSUME NEW s \in Small(layout, 0) PROVE s = {}
  <2>1. s \in SUBSET layout /\ Cardinality(s) <= 0
    BY DEF Small
  <2>2. IsFiniteSet(s) /\ Cardinality(s) \in Nat
    BY <2>1, FS_Subset, FS_CardinalityType
  <2> QED
    BY <2>1, <2>2, FS_EmptySet
<1>2. g = [s \in Small(layout, 0) |-> IF s = {} THEN 0 ELSE Weight(s) + g[s \ {First(s)}]]
  BY <1>1
<1>3. g \in [Small(layout, 0) -> Nat]
  OBVIOUS
<1> QED
  BY <1>2, <1>3 DEF Sums, SumOver

(* A sum on the smaller sets extends to those of one more.                 *)
LEMMA SumsNext ==
  ASSUME NEW layout \in Layouts, IsFiniteSet(layout), NEW n \in Nat, Sums(layout, n)
  PROVE  Sums(layout, n + 1)
<1>1. PICK g \in [Small(layout, n) -> Nat] : SumOver(layout, Small(layout, n), g)
  BY DEF Sums
<1> DEFINE h == [s \in Small(layout, n + 1) |->
                   IF s = {} THEN 0 ELSE Weight(s) + g[s \ {First(s)}]]
<1>2. ASSUME NEW s \in Small(layout, n + 1), s # {}
      PROVE  s \ {First(s)} \in Small(layout, n) /\ Weight(s) \in Nat
  <2>1. s \in SUBSET layout /\ Cardinality(s) <= n + 1
    BY DEF Small
  <2>2. First(s) \in s /\ Weight(s) \in Nat
    BY <1>2, <2>1, WeightNat
  <2>3. Cardinality(s) \in Nat /\ Cardinality(s \ {First(s)}) = Cardinality(s) - 1
    BY <2>1, <2>2, Smaller
  <2>4. Cardinality(s \ {First(s)}) <= n
    BY <2>1, <2>3
  <2> QED
    BY <2>1, <2>2, <2>4 DEF Small
<1>3. h \in [Small(layout, n + 1) -> Nat]
  <2>1. ASSUME NEW s \in Small(layout, n + 1)
        PROVE  (IF s = {} THEN 0 ELSE Weight(s) + g[s \ {First(s)}]) \in Nat
    <3>1. CASE s = {}
      BY <3>1
    <3>2. CASE s # {}
      <4>1. Weight(s) \in Nat /\ g[s \ {First(s)}] \in Nat
        BY <1>2, <3>2
      <4> QED
        BY <3>2, <4>1
    <3> QED
      BY <3>1, <3>2
  <2> QED
    BY <2>1
<1>4. \A s \in Small(layout, n) : s \in Small(layout, n + 1) /\ h[s] = g[s]
  <2>1. ASSUME NEW s \in Small(layout, n)
        PROVE  s \in Small(layout, n + 1) /\ h[s] = g[s]
    <3>1. s \in SUBSET layout /\ Cardinality(s) <= n
      BY DEF Small
    <3>2. Cardinality(s) \in Nat
      BY <3>1, FS_Subset, FS_CardinalityType
    <3>3. s \in Small(layout, n + 1)
      BY <3>1, <3>2 DEF Small
    <3>4. g[s] = IF s = {} THEN 0 ELSE Weight(s) + g[s \ {First(s)}]
      BY <1>1, Zenon DEF SumOver
    <3> QED
      BY <3>3, <3>4
  <2> QED
    BY <2>1
<1>5. ASSUME NEW s \in Small(layout, n + 1)
      PROVE  h[s] = IF s = {} THEN 0 ELSE Weight(s) + h[s \ {First(s)}]
  <2>1. CASE s = {}
    BY <2>1
  <2>2. CASE s # {}
    <3>1. h[s \ {First(s)}] = g[s \ {First(s)}]
      BY <1>2, <1>4, <2>2
    <3>2. h[s] = Weight(s) + g[s \ {First(s)}]
      BY <2>2
    <3> HIDE DEF h
    <3> QED
      BY <2>2, <3>1, <3>2
  <2> QED
    BY <2>1, <2>2
<1>6. h = [s \in Small(layout, n + 1) |-> IF s = {} THEN 0 ELSE Weight(s) + h[s \ {First(s)}]]
  <2>1. h = [s \in Small(layout, n + 1) |-> h[s]]
    OBVIOUS
  <2> HIDE DEF h
  <2> QED
    BY <1>5, <2>1
<1>7. SumOver(layout, Small(layout, n + 1), h)
  BY <1>6, Zenon DEF SumOver
<1> QED
  BY <1>3, <1>7 DEF Sums

(* There is no least n without one.                                        *)
LEMMA SumsAlways ==
  ASSUME NEW layout \in Layouts, IsFiniteSet(layout), NEW m \in Nat
  PROVE  Sums(layout, m)
<1> DEFINE Bad == {n \in Nat : ~Sums(layout, n)}
<1> SUFFICES ASSUME Bad # {} PROVE FALSE
  OBVIOUS
<1>1. PICK n \in Bad : \A k \in Bad : n <= k
  <2> HIDE DEF Bad
  <2>1. Bad \in SUBSET Nat
    BY DEF Bad
  <2> QED
    BY <2>1, LeastNumber
<1>2. n \in Nat /\ n # 0
  BY SumsZero
<1>3. n - 1 \in Nat /\ n - 1 \notin Bad /\ (n - 1) + 1 = n
  BY <1>1, <1>2
<1>4. Sums(layout, (n - 1) + 1)
  BY <1>3, SumsNext
<1> QED
  BY <1>3, <1>4

(* So the sum is defined on all sets of areas, and none is the smallest    *)
(* whose sum is not a number.                                              *)
LEMMA PagesType ==
  ASSUME NEW layout \in Layouts, IsFiniteSet(layout)
  PROVE  Pages(layout) \in Nat
<1> DEFINE f == CHOOSE g : SumOver(layout, SUBSET layout, g)
<1>1. SUBSET layout = Small(layout, Cardinality(layout))
  BY FS_Subset, FS_CardinalityType DEF Small
<1>2. \E g : SumOver(layout, SUBSET layout, g)
  <2>1. Sums(layout, Cardinality(layout))
    BY SumsAlways, FS_CardinalityType
  <2> QED
    BY <1>1, <2>1, Zenon DEF Sums
<1>3. SumOver(layout, SUBSET layout, f)
  <2> HIDE DEF f
  <2> QED
    BY <1>2, Zenon DEF f
<1> HIDE DEF f
<1>4. \A s \in SUBSET layout : f[s] = IF s = {} THEN 0 ELSE Weight(s) + f[s \ {First(s)}]
  BY <1>3, Zenon DEF SumOver
<1> DEFINE Bad == {Cardinality(s) : s \in {t \in SUBSET layout : f[t] \notin Nat}}
<1>5. Bad = {}
  <2> SUFFICES ASSUME Bad # {} PROVE FALSE
    OBVIOUS
  <2>1. Bad \in SUBSET Nat
    BY FS_Subset, FS_CardinalityType
  <2>2. PICK n \in Bad : \A k \in Bad : n <= k
    <3> HIDE DEF Bad
    <3> QED
      BY <2>1, LeastNumber
  <2>3. PICK s \in SUBSET layout : f[s] \notin Nat /\ n = Cardinality(s)
    OBVIOUS
  <2>4. s # {}
    <3>1. f[{}] = 0
      BY <1>4
    <3> QED
      BY <2>3, <3>1
  <2>5. First(s) \in s /\ Weight(s) \in Nat
    BY <2>4, WeightNat
  <2>6. /\ n \in Nat /\ s \ {First(s)} \in SUBSET layout
        /\ Cardinality(s \ {First(s)}) = n - 1
    BY <2>3, <2>5, Smaller
  <2>7. n - 1 \notin Bad
    BY <2>2, <2>6
  <2>8. f[s \ {First(s)}] \in Nat
    BY <2>6, <2>7
  <2>9. f[s] = Weight(s) + f[s \ {First(s)}]
    BY <1>4, <2>4
  <2> QED
    BY <2>3, <2>5, <2>8, <2>9
<1>6. f[layout] \in Nat
  BY <1>5
<1> QED
  BY <1>6, PagesUnfold, Zenon DEF f

-----------------------------------------------------------------------------
Counted ==
  /\ total_vm \in Nat /\ map_count \in Nat /\ rss_stat \in Versions
  /\ readers \subseteq Threads /\ changes \in 0 .. CHANGES

Copied ==
  /\ kinfo \in [Threads -> Information]
  /\ info \in [Threads -> [DOMAIN Zeroed -> Int]]

LEMMA LayoutType ==
  ASSUME areas \in Layouts PROVE Pages(areas) \in Nat /\ Cardinality(areas) \in Nat
  BY PagesType, FS_CardinalityType, CheckAddrAssumption

LEMMA CountedStep == Shapes /\ Counted /\ [Next]_vars => Counted'
<1> SUFFICES ASSUME Shapes, Counted, [Next]_vars PROVE Counted'
  OBVIOUS
<1> USE DEF Counted, mm, calls, user
<1>0. areas \in Layouts /\ CHANGES \in Nat
  BY CheckAddrAssumption DEF Shapes
<1>1. CASE UNCHANGED vars
  BY <1>1 DEF vars
<1>2. CASE write_lock
  BY <1>0, <1>2 DEF write_lock
<1>3. CASE write_areas
  BY <1>0, <1>3 DEF write_areas
<1>4. CASE write_counters
  BY <1>0, <1>4, LayoutType DEF write_counters
<1>5. CASE resident
  BY <1>5 DEF resident
<1>6. ASSUME NEW t \in Threads, Call(t) PROVE Counted'
  BY <1>6 DEF Call, mmap_read_lock, not_mapped, fill_area, get_free_page, free_page,
     counters, more_counters, mmap_read_unlock, copy_to_user, page_fault, Unlocked
<1> QED
  BY <1>1, <1>2, <1>3, <1>4, <1>5, <1>6 DEF Next, Writer

LEMMA UptoType ==
  ASSUME NEW rec \in Information, NEW old \in [DOMAIN Zeroed -> Int], NEW n
  PROVE  Upto(rec, old, n) \in [DOMAIN Zeroed -> Int]
<1>1. \A f \in DOMAIN Zeroed : rec[f] \in Int
  BY FieldsAll DEF Information
<1> QED
  BY <1>1 DEF Upto

LEMMA CopiedStep == Shapes /\ Counted /\ Copied /\ [Next]_vars => Copied'
<1> SUFFICES ASSUME Shapes, Counted, Copied, [Next]_vars PROVE Copied'
  OBVIOUS
<1> USE DEF Copied, mm, calls, user
<1>1. CASE UNCHANGED <<kinfo, info>>
  BY <1>1
<1>2. ASSUME NEW t \in Threads, fill_area(t) PROVE Copied'
  <2>1. addr[t] \in Int
    BY CheckAddrAssumption DEF Shapes
  <2>2. FindVma(addr[t]).start \in Nat /\ FindVma(addr[t]).end \in Nat
    BY <1>2, <2>1, FoundCovers, CheckAddrAssumption DEF fill_area, Shapes
  <2> QED
    BY <1>2, <2>2 DEF fill_area, Information
<1>3. ASSUME NEW t \in Threads, counters(t) \/ more_counters(t) PROVE Copied'
  <2>1. total_vm \in Nat /\ map_count \in Nat /\ rss_stat \in Nat
    BY CheckAddrAssumption DEF Counted
  <2>2. \/ kinfo' = [kinfo EXCEPT ![t] =
             [kinfo[t] EXCEPT !.vmpages = total_vm, !.vmresanon = rss_stat]]
        \/ kinfo' = [kinfo EXCEPT ![t] =
             [kinfo[t] EXCEPT !.vmresfile = rss_stat, !.vmref = map_count]]
    BY <1>3 DEF counters, more_counters
  <2>3. kinfo[t] \in Information
    OBVIOUS
  <2>4. /\ [kinfo[t] EXCEPT !.vmpages = total_vm, !.vmresanon = rss_stat] \in Information
        /\ [kinfo[t] EXCEPT !.vmresfile = rss_stat, !.vmref = map_count] \in Information
    BY <2>1, <2>3 DEF Information
  <2>5. kinfo' \in [Threads -> Information]
    BY <2>2, <2>4
  <2> QED
    BY <1>3, <2>5 DEF counters, more_counters
<1>4. ASSUME NEW t \in Threads, copy_to_user(t) \/ page_fault(t) PROVE Copied'
  <2>1. \/ info' = info
        \/ \E n : info' = [info EXCEPT ![t] = Upto(kinfo[t], info[t], n)]
    BY <1>4 DEF copy_to_user, page_fault
  <2>2. info' \in [Threads -> [DOMAIN Zeroed -> Int]]
    BY <2>1, UptoType
  <2> QED
    BY <1>4, <2>2 DEF copy_to_user, page_fault
<1> QED
  BY <1>1, <1>2, <1>3, <1>4
  DEF vars, Next, Writer, Call, write_lock, write_areas, write_counters, resident,
      mmap_read_lock, not_mapped, get_free_page, free_page, mmap_read_unlock

(* Types of the mm's counters, of the lock and of every check_addr call,   *)
(* for every number of threads and every set of layouts.                   *)
THEOREM CallsTypeCorrect == Spec => []TypeOK
<1>1. Init => Counted /\ Copied
  BY LayoutType, CheckAddrAssumption
     DEF Init, Counted, Copied, Information, Zeroed, Untouched
<1>2. Shapes /\ Counted /\ Copied /\ [Next]_vars => (Counted /\ Copied)'
  BY CountedStep, CopiedStep
<1>3. CallInv => Shapes /\ CopyProgress
  BY DEF CallInv
<1>4. Shapes /\ CopyProgress /\ Counted /\ Copied => TypeOK
  BY FieldsAll DEF Shapes, CopyProgress, Counted, Copied, TypeOK
<1> QED
  BY <1>1, <1>2, <1>3, <1>4, CallInvariant, PTL DEF Spec

=============================================================================
