------------------------------ MODULE Listing ------------------------------
(***************************************************************************)
(* listsupplies, listdemands, mysupplies and mydemands beside the commands *)
(* of SupDemMap.  A listing counts its rows, writes the header with the    *)
(* count, then goes through the table again and writes a row per record;   *)
(* shm->mutex is held from the count to the last row.                      *)
(***************************************************************************)
EXTENDS SupDemMap

VARIABLE
  listing   \* the listing under way: who asked for what, the count in its
            \* header, the next cell to look at, and the rows written so far

NoListing == [by |-> -1]

lvars == <<vars, listing>>

(* The cells a listing is about: all in use, or those of the asker.        *)
Wanted(table, mine, c) ==
  {i \in DOMAIN table : IF mine THEN table[i].client_id = c ELSE Used(table, i)}

Counted(table, mine, c) == Cardinality(Wanted(table, mine, c))

TableOf(l) == IF l.kind = "supplies" THEN supplies ELSE demands

(* The cells still to come.                                                *)
Ahead(l) == {i \in Wanted(TableOf(l), l.mine, l.by) : i >= l.at}

LInit == Init /\ listing = NoListing

(* Mutant: the mutex is given back before the rows are written.            *)
LeaveMutex == UNCHANGED pc

HoldMutex == pc' = "list"

start_listing(c, kind, mine) ==
  /\ pc = "free"
  /\ c \in live
  /\ listing = NoListing
  /\ HoldMutex
  /\ LET table == IF kind = "supplies" THEN supplies ELSE demands
     IN listing' = [by |-> c, kind |-> kind, mine |-> mine, at |-> 0,
                    count |-> Counted(table, mine, c), rows |-> <<>>]
  /\ UNCHANGED <<tables, live, pos, cur, row, fresh, out>>

(* One line of the listing.                                                *)
write_row ==
  /\ listing # NoListing
  /\ \E i \in Ahead(listing) :
       /\ \A k \in Ahead(listing) : i <= k
       /\ listing' = [by |-> listing.by, kind |-> listing.kind, mine |-> listing.mine,
                      at |-> i + 1, count |-> listing.count,
                      rows |-> Append(listing.rows, TableOf(listing)[i])]
  /\ UNCHANGED vars

end_listing ==
  /\ listing # NoListing
  /\ Ahead(listing) = {}
  /\ listing' = NoListing
  /\ pc' = "free"
  /\ UNCHANGED <<tables, live, pos, cur, row, fresh, out>>

LNext ==
  \/ Next /\ UNCHANGED listing
  \/ \E c \in Slots, kind \in {"supplies", "demands"}, mine \in BOOLEAN :
       start_listing(c, kind, mine)
  \/ write_row
  \/ end_listing

LSpec == LInit /\ [][LNext]_lvars

(* The header promises as many rows as follow, and each row is a record    *)
(* that is on the map (and the asker's, if it asked for its own) when the  *)
(* listing ends: the answer is a picture of the map at one moment, however *)
(* many commands the other clients have waiting.                           *)
ListingIsSnapshot ==
  listing # NoListing =>
    /\ listing.count = Len(listing.rows) + Cardinality(Ahead(listing))
    /\ \A n \in DOMAIN listing.rows :
         \E i \in Wanted(TableOf(listing), listing.mine, listing.by) :
           TableOf(listing)[i] = listing.rows[n]

=============================================================================
