------------------------------ MODULE CheckAddr ------------------------------
(***************************************************************************)
(* The check_addr system call of hw2/mm536.c, called by threads that share *)
(* one mm, while other threads map and unmap areas.  Addresses are page    *)
(* numbers.  Of the kernel (external) there is the mmap lock, the areas    *)
(* and counters it protects, the resident counters it does not, pages for  *)
(* the path, and copy_to_user, which may fault on the way; the fault takes *)
(* the mmap lock itself.                                                   *)
(***************************************************************************)
EXTENDS Integers, Sequences, FiniteSets, FiniteSetsExt

CONSTANTS
  Threads,
  Layouts,    \* sets of areas that do not overlap; file is 1 if one maps a file
  Addrs,
  Versions,   \* of the resident counters: only when one is read matters
  CHANGES     \* bound on mmap and munmap calls

(* Areas are finitely many, are not empty and do not overlap.              *)
ASSUME CheckAddrAssumption ==
  /\ CHANGES \in Nat /\ Addrs \subseteq Nat /\ Versions \subseteq Nat
  /\ \A layout \in Layouts :
       /\ IsFiniteSet(layout)
       /\ layout \subseteq [start : Nat, end : Nat, file : 0 .. 1]
       /\ \A v, w \in layout :
            /\ v.start < v.end
            /\ v # w => v.end <= w.start \/ w.end <= v.start

VARIABLES
  areas, total_vm, map_count,   \* current->mm
  rss_stat,                     \* its resident counters, by version
  readers, writer, changes,     \* its lock; writer: what an mmap call does
  place, addr, kinfo, page,     \* of each check_addr call
  copied,                       \* fields that copy_to_user has written
  info, answer,                 \* the caller's structure, and the result
  seen                          \* history: the areas when it got the lock

mm == <<areas, total_vm, map_count, writer, changes>>
user == <<copied, info>>
calls == <<place, addr, kinfo, page, user, answer, seen>>
vars == <<mm, rss_stat, readers, calls>>

(* The fields of struct vma_info in their order, those that are not told   *)
(* apart here left out.                                                    *)
Fields == <<"start", "end", "vmpages", "vmresanon", "vmresfile", "vmref">>

(* Mutant: no initialiser.                                                *)
Uninitialised == [start |-> -1, end |-> -1, vmpages |-> -1,
                  vmresanon |-> -1, vmresfile |-> -1, vmref |-> -1]

Zeroed == [start |-> 0, end |-> 0, vmpages |-> 0,
           vmresanon |-> 0, vmresfile |-> 0, vmref |-> 0]

(* What the caller had in its structure.                                   *)
Untouched == [f \in DOMAIN Zeroed |-> -1]

(* The structure old with the first n fields of new written over it.       *)
Upto(new, old, n) ==
  [f \in DOMAIN old |-> IF \E i \in 1 .. n : Fields[i] = f THEN new[f] ELSE old[f]]

Pages(layout) == MapThenSumSet(LAMBDA v : v.end - v.start, layout)
Covers(v, a) == v.start <= a /\ a < v.end

Init ==
  /\ areas \in Layouts /\ total_vm = Pages(areas) /\ map_count = Cardinality(areas)
  /\ rss_stat \in Versions
  /\ readers = {} /\ writer = "idle" /\ changes = 0
  /\ place = [t \in Threads |-> "lock"]
  /\ addr \in [Threads -> Addrs]
  /\ kinfo = [t \in Threads |-> Zeroed]
  /\ page = [t \in Threads |-> FALSE]
  /\ copied = [t \in Threads |-> 0]
  /\ info = [t \in Threads |-> Untouched]
  /\ answer = [t \in Threads |-> "none"]
  /\ seen = [t \in Threads |-> {}]

-----------------------------------------------------------------------------
(* mmap and munmap: the lock is asked for, which holds back new readers,   *)
(* then taken, then the areas are changed before the counters.             *)
write_lock ==
  /\ \/ writer = "idle" /\ changes < CHANGES /\ writer' = "waits"
     \/ writer = "waits" /\ readers = {} /\ writer' = "areas"
  /\ changes' = IF writer = "idle" THEN changes + 1 ELSE changes
  /\ UNCHANGED <<areas, total_vm, map_count, rss_stat, readers, calls>>

write_areas ==
  /\ writer = "areas"
  /\ areas' \in Layouts
  /\ writer' = "counters"
  /\ UNCHANGED <<total_vm, map_count, changes, rss_stat, readers, calls>>

write_counters ==
  /\ writer = "counters"
  /\ total_vm' = Pages(areas)
  /\ map_count' = Cardinality(areas)
  /\ writer' = "idle"
  /\ UNCHANGED <<areas, changes, rss_stat, readers, calls>>

(* Pages come in and go out at any time: the mmap lock holds none back.    *)
resident ==
  /\ rss_stat' \in Versions
  /\ UNCHANGED <<mm, readers, calls>>

-----------------------------------------------------------------------------
Goto(t, where) == place' = [place EXCEPT ![t] = where]

(* Mutant: the lock is not taken.                                          *)
LockForgotten(t) ==
  /\ place[t] = "lock"
  /\ seen' = [seen EXCEPT ![t] = areas]
  /\ Goto(t, "find_vma")
  /\ UNCHANGED <<mm, rss_stat, readers, addr, kinfo, page, user, answer>>

mmap_read_lock(t) ==
  /\ place[t] = "lock"
  /\ writer = "idle"
  /\ readers' = readers \cup {t}
  /\ seen' = [seen EXCEPT ![t] = areas]
  /\ Goto(t, "find_vma")
  /\ UNCHANGED <<mm, rss_stat, addr, kinfo, page, user, answer>>

Above(a) == {v \in areas : v.end > a}

(* The first area that ends above the address.                             *)
FindVma(a) == CHOOSE v \in Above(a) : \A w \in Above(a) : v.end <= w.end

NotMapped(a) == Above(a) # {} => a < FindVma(a).start

(* Mutant: the early return forgets the lock.                              *)
StillLocked(t) == readers

Unlocked(t) == readers \ {t}

not_mapped(t) ==
  /\ place[t] = "find_vma"
  /\ NotMapped(addr[t])
  /\ readers' = Unlocked(t)
  /\ answer' = [answer EXCEPT ![t] = "EINVAL"]
  /\ Goto(t, "return")
  /\ UNCHANGED <<mm, rss_stat, addr, kinfo, page, user, seen>>

fill_area(t) ==
  /\ place[t] = "find_vma"
  /\ ~NotMapped(addr[t])
  /\ LET v == FindVma(addr[t]) IN
       /\ kinfo' = [kinfo EXCEPT ![t].start = v.start, ![t].end = v.end]
       /\ Goto(t, IF v.file = 1 THEN "path" ELSE "counters")
  /\ UNCHANGED <<mm, rss_stat, readers, addr, page, user, answer, seen>>

(* A page for d_path; without one the path stays empty.                    *)
get_free_page(t) ==
  /\ place[t] = "path" /\ ~page[t]
  /\ \/ page' = [page EXCEPT ![t] = TRUE] /\ UNCHANGED place
     \/ Goto(t, "counters") /\ UNCHANGED page
  /\ UNCHANGED <<mm, rss_stat, readers, addr, kinfo, user, answer, seen>>

free_page(t) ==
  /\ place[t] = "path" /\ page[t]
  /\ page' = [page EXCEPT ![t] = FALSE]
  /\ Goto(t, "counters")
  /\ UNCHANGED <<mm, rss_stat, readers, addr, kinfo, user, answer, seen>>

(* Mutant: the copy is made before the unlock.                             *)
CopiesLocked == [counters |-> "copy", copy |-> "unlock", unlock |-> "return"]

After == [counters |-> "unlock", unlock |-> "copy", copy |-> "return"]

(* The counters of the map; total_vm stands for the other three, too.      *)
counters(t) ==
  /\ place[t] = "counters"
  /\ kinfo' = [kinfo EXCEPT ![t].vmpages = total_vm, ![t].vmresanon = rss_stat]
  /\ Goto(t, "resident")
  /\ UNCHANGED <<mm, rss_stat, readers, addr, page, user, answer, seen>>

(* The second resident counter is read after the first.                    *)
more_counters(t) ==
  /\ place[t] = "resident"
  /\ kinfo' = [kinfo EXCEPT ![t].vmresfile = rss_stat, ![t].vmref = map_count]
  /\ Goto(t, After["counters"])
  /\ UNCHANGED <<mm, rss_stat, readers, addr, page, user, answer, seen>>

mmap_read_unlock(t) ==
  /\ place[t] = "unlock"
  /\ readers' = Unlocked(t)
  /\ Goto(t, After["unlock"])
  /\ UNCHANGED <<mm, rss_stat, addr, kinfo, page, user, answer, seen>>

Return(t, result) ==
  /\ answer' = [answer EXCEPT ![t] = result]
  /\ Goto(t, After["copy"])

(* The fields are written one after the other, up to the last or to one    *)
(* that faults.  An address outside user space fails before the first.     *)
copy_to_user(t) ==
  /\ place[t] = "copy"
  /\ \/ \E n \in copied[t] .. Len(Fields) :
          /\ copied' = [copied EXCEPT ![t] = n]
          /\ info' = [info EXCEPT ![t] = Upto(kinfo[t], @, n)]
          /\ \/ n = Len(Fields) /\ Return(t, "ok")
             \/ n < Len(Fields) /\ Goto(t, "fault") /\ UNCHANGED answer
     \/ copied[t] = 0 /\ Return(t, "EFAULT") /\ UNCHANGED user
  /\ UNCHANGED <<mm, rss_stat, readers, addr, kinfo, page, seen>>

(* The fault waits for the mmap lock.  Either the page comes in and the    *)
(* copy goes on, or the call fails with what is copied so far.             *)
page_fault(t) ==
  /\ place[t] = "fault"
  /\ writer = "idle"
  /\ \/ /\ copied' = [copied EXCEPT ![t] = @ + 1]
        /\ info' = [info EXCEPT ![t] = Upto(kinfo[t], @, copied[t] + 1)]
        /\ Goto(t, "copy")
        /\ UNCHANGED answer
     \/ Return(t, "EFAULT") /\ UNCHANGED user
  /\ UNCHANGED <<mm, rss_stat, readers, addr, kinfo, page, seen>>

-----------------------------------------------------------------------------
Writer == write_lock \/ write_areas \/ write_counters

Call(t) ==
  \/ mmap_read_lock(t) \/ not_mapped(t) \/ fill_area(t) \/ get_free_page(t)
  \/ free_page(t) \/ counters(t) \/ more_counters(t) \/ mmap_read_unlock(t)
  \/ copy_to_user(t) \/ page_fault(t)

Next == Writer \/ resident \/ \E t \in Threads : Call(t)

Spec == Init /\ [][Next]_vars

(* The mmap lock queues its waiters, so that none is passed over for ever. *)
FairSpec ==
  /\ Spec
  /\ WF_vars(Writer)
  /\ \A t \in Threads : SF_vars(Call(t))

-----------------------------------------------------------------------------
Information ==
  [start : Nat, end : Nat, vmpages : Nat,
   vmresanon : Nat, vmresfile : Nat, vmref : Nat]

TypeOK ==
  /\ areas \in Layouts /\ total_vm \in Nat /\ map_count \in Nat
  /\ rss_stat \in Versions
  /\ readers \subseteq Threads /\ changes \in 0 .. CHANGES
  /\ writer \in {"idle", "waits", "areas", "counters"}
  /\ place \in [Threads -> {"lock", "find_vma", "path", "counters", "resident",
                            "unlock", "copy", "fault", "return"}]
  /\ kinfo \in [Threads -> Information]
  /\ copied \in [Threads -> 0 .. Len(Fields)]
  /\ info \in [Threads -> [DOMAIN Zeroed -> Int]]
  /\ page \in [Threads -> BOOLEAN]
  /\ answer \in [Threads -> {"none", "ok", "EINVAL", "EFAULT"}]

Describes(record, v, layout) ==
  /\ record.start = v.start /\ record.end = v.end
  /\ record.vmpages = Pages(layout) /\ record.vmref = Cardinality(layout)

(* What a call answers is the map of the moment it got the lock: the area  *)
(* that covered the address, with the counters of the same layout; or none *)
(* did, and it is EINVAL.  A change made before the copy does not show.    *)
AnswerOfOneMoment ==
  \A t \in Threads :
    /\ answer[t] = "EINVAL" => \A v \in seen[t] : ~Covers(v, addr[t])
    /\ answer[t] = "ok" =>
         \E v \in seen[t] : Covers(v, addr[t]) /\ Describes(info[t], v, seen[t])

(* What a call has taken down for its caller: the first resident counter   *)
(* alone, then the whole record, and nothing is left when it returns.      *)
Sampled ==
  [t \in Threads |-> IF place[t] = "resident" THEN {kinfo[t].vmresanon} ELSE {}]

TakenDown ==
  [t \in Threads |-> IF place[t] \in {"unlock", "copy", "fault"} THEN {kinfo[t]} ELSE {}]

Atomic == INSTANCE AddressCall WITH
  Blank   <- Untouched,
  sampled <- Sampled,
  found   <- TakenDown

(* Although the area and the counters are read in separate steps, mmap and *)
(* munmap change them in separate steps, and the copy is made without the  *)
(* lock and in pieces, every call takes effect in one step: area, pages    *)
(* and count are of one layout, only the resident counters, which the lock *)
(* does not protect, each of a moment of its own.  A caller gets all of it *)
(* or, with EFAULT, the front of it.                                       *)
CallIsAtomic == Atomic!Spec

(* On every path out of the call the lock and the page are given back.     *)
NothingLeftBehind ==
  \A t \in Threads :
    place[t] \in {"lock", "return"} => t \notin readers /\ ~page[t]

(* Every call returns, although the copy at its end may need the lock and  *)
(* a writer may be in front of it.                                         *)
EveryCallReturns == <>(\A t \in Threads : place[t] = "return")

=============================================================================
