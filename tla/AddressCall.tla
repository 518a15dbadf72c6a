---------------------------- MODULE AddressCall ----------------------------
(***************************************************************************)
(* What check_addr promises its caller: that it takes effect at one moment *)
(* between its start and its end.  At that moment it either finds that no  *)
(* area covers the address, or takes down the one that does together with  *)
(* the counters of the whole address space.  Of the two resident counters  *)
(* it promises less: each was so at some moment of the call, the first one *)
(* earlier.  The caller's structure gets the record from the front to the  *)
(* back and unchanged: the whole of it, or what was written before the     *)
(* caller's memory failed.  There is no lock here, and no counter of the   *)
(* layout kept apart from the areas.                                       *)
(***************************************************************************)
EXTENDS Integers, Sequences, FiniteSets, FiniteSetsExt

CONSTANTS Threads, Layouts, Addrs, Versions, Fields, Blank

VARIABLES
  areas,       \* the address space
  rss_stat,    \* its resident counters, by version
  addr,        \* what each thread asks about
  sampled,     \* the resident counter its call took down first, or nothing
  found,       \* what its call has taken down: nothing yet, or one record
  info,        \* the caller's structure
  answer

vars == <<areas, rss_stat, addr, sampled, found, info, answer>>

Pages(layout) == MapThenSumSet(LAMBDA v : v.end - v.start, layout)
Covers(v, a) == v.start <= a /\ a < v.end

(* The structure old with the first n fields of new written over it.       *)
Upto(new, old, n) ==
  [f \in DOMAIN old |-> IF \E i \in 1 .. n : Fields[i] = f THEN new[f] ELSE old[f]]

Init ==
  /\ areas \in Layouts
  /\ rss_stat \in Versions
  /\ addr \in [Threads -> Addrs]
  /\ sampled = [t \in Threads |-> {}]
  /\ found = [t \in Threads |-> {}]
  /\ info = [t \in Threads |-> Blank]
  /\ answer = [t \in Threads |-> "none"]

Change ==
  /\ areas' \in Layouts
  /\ UNCHANGED <<rss_stat, addr, sampled, found, info, answer>>

Page ==
  /\ rss_stat' \in Versions
  /\ UNCHANGED <<areas, addr, sampled, found, info, answer>>

Undecided(t) == found[t] = {} /\ answer[t] = "none"

Sample(t) ==
  /\ Undecided(t) /\ sampled[t] = {}
  /\ sampled' = [sampled EXCEPT ![t] = {rss_stat}]
  /\ UNCHANGED <<areas, rss_stat, addr, found, info, answer>>

Find(t) ==
  /\ Undecided(t)
  /\ \E v \in areas, sample \in sampled[t] :
       /\ Covers(v, addr[t])
       /\ found' = [found EXCEPT ![t] =
            {[start |-> v.start, end |-> v.end,
              vmpages |-> Pages(areas), vmresanon |-> sample,
              vmresfile |-> rss_stat, vmref |-> Cardinality(areas)]}]
  /\ sampled' = [sampled EXCEPT ![t] = {}]
  /\ UNCHANGED <<areas, rss_stat, addr, info, answer>>

Miss(t) ==
  /\ Undecided(t) /\ sampled[t] = {}
  /\ \A v \in areas : ~Covers(v, addr[t])
  /\ answer' = [answer EXCEPT ![t] = "EINVAL"]
  /\ UNCHANGED <<areas, rss_stat, addr, sampled, found, info>>

(* A part of the record, from its front, is in the caller's structure.     *)
Write(t) ==
  /\ \E record \in found[t], n \in 0 .. Len(Fields) :
       info' = [info EXCEPT ![t] = Upto(record, @, n)]
  /\ UNCHANGED <<areas, rss_stat, addr, sampled, found, answer>>

Deliver(t) ==
  /\ \E record \in found[t] : info' = [info EXCEPT ![t] = record]
  /\ answer' = [answer EXCEPT ![t] = "ok"]
  /\ found' = [found EXCEPT ![t] = {}]
  /\ UNCHANGED <<areas, rss_stat, addr, sampled>>

Fail(t) ==
  /\ found[t] # {}
  /\ answer' = [answer EXCEPT ![t] = "EFAULT"]
  /\ found' = [found EXCEPT ![t] = {}]
  /\ UNCHANGED <<areas, rss_stat, addr, sampled, info>>

Next ==
  \/ Change \/ Page
  \/ \E t \in Threads :
       Sample(t) \/ Find(t) \/ Miss(t) \/ Write(t) \/ Deliver(t) \/ Fail(t)

Spec == Init /\ [][Next]_vars

=============================================================================
