--------------------------- MODULE ListingProofs ---------------------------
(***************************************************************************)
(* What a listing writes is the map of one moment, and to everybody else   *)
(* it is as if there were no listings: the steps of Listing are steps of   *)
(* SupDemMap with a mutex that is taken now and then, so that everything   *)
(* proved of the map holds beside listings too.                            *)
(***************************************************************************)
EXTENDS Listing, FiniteSetTheorems, SequenceTheorems, TLAPS

-----------------------------------------------------------------------------
(* The listing itself.                                                     *)

RowsOf(l) == {TableOf(l)[i] : i \in Wanted(TableOf(l), l.mine, l.by)}

UnderWay ==
  [by : Slots, kind : {"supplies", "demands"}, mine : BOOLEAN, at : Nat,
   count : Nat, rows : Seq(RowsOf(listing))]

(* The mutex is held while there is a listing, which keeps both tables as  *)
(* they were, and the rows still to come are those it has not counted off. *)
ListInv ==
  /\ DOMAIN supplies = SupplyIdx /\ DOMAIN demands = DemandIdx
  /\ pc = "list" <=> listing # NoListing
  /\ listing # NoListing =>
       /\ listing \in UnderWay
       /\ listing.count = Len(listing.rows) + Cardinality(Ahead(listing))

LEMMA AheadIsFinite ==
  ASSUME DOMAIN supplies = SupplyIdx, DOMAIN demands = DemandIdx, NEW l
  PROVE  IsFiniteSet(Ahead(l)) /\ Cardinality(Ahead(l)) \in Nat /\ Ahead(l) \subseteq Nat
<1>1. IsFiniteSet(SupplyIdx) /\ IsFiniteSet(DemandIdx)
  BY FS_Interval, SizesAssumption DEF SupplyIdx, DemandIdx
<1>2. Ahead(l) \subseteq SupplyIdx \/ Ahead(l) \subseteq DemandIdx
  BY DEF Ahead, Wanted, TableOf
<1>3. IsFiniteSet(Ahead(l))
  BY <1>1, <1>2, FS_Subset
<1>4. Ahead(l) \subseteq Nat
  BY <1>2, SizesAssumption DEF SupplyIdx, DemandIdx
<1> QED
  BY <1>3, <1>4, FS_CardinalityType

LEMMA ListInit == LInit => ListInv
  BY DEF LInit, Init, ListInv

(* The commands of SupDemMap wait for the mutex.                           *)
LEMMA NextKeeps ==
  ASSUME ListInv, Next, UNCHANGED listing
  PROVE  ListInv'
<1>1. pc # "list"
  BY DEF Next, register_client, remove_client_resources, move_client, add_new_watch,
         remove_watch, add_new_demand, add_new_supply, check_for_match, end_command
<1>2. listing = NoListing
  BY <1>1 DEF ListInv
<1>3. pc' # "list"
  BY <1>1 DEF Next, register_client, remove_client_resources, move_client,
         add_new_watch, remove_watch, add_new_demand, add_new_supply, StartScan,
         check_for_match, end_command
<1>4. DOMAIN supplies' = SupplyIdx /\ DOMAIN demands' = DemandIdx
  BY DEF ListInv, Next, register_client, remove_client_resources, move_client,
         add_new_watch, remove_watch, add_new_demand, add_new_supply, StartScan,
         check_for_match, match_demand_and_supply, end_command, WithoutDemandsOf, tables
<1> QED
  BY <1>2, <1>3, <1>4 DEF ListInv

LEMMA StartKeeps ==
  ASSUME ListInv, NEW c \in Slots, NEW kind \in {"supplies", "demands"},
         NEW mine \in BOOLEAN, start_listing(c, kind, mine)
  PROVE  ListInv'
<1> DEFINE table == IF kind = "supplies" THEN supplies ELSE demands
           new == [by |-> c, kind |-> kind, mine |-> mine, at |-> 0,
                   count |-> Counted(table, mine, c), rows |-> <<>>]
<1>1. listing' = new /\ pc' = "list" /\ UNCHANGED <<supplies, demands>>
  BY DEF start_listing, HoldMutex, tables
<1>2. TableOf(new) = table /\ Wanted(table, mine, c) \subseteq Nat
  BY SizesAssumption DEF TableOf, Wanted, ListInv, SupplyIdx, DemandIdx
<1>3. Ahead(new) = Wanted(table, mine, c)
  BY <1>2 DEF Ahead
<1>4. Cardinality(Ahead(new)) \in Nat
  <2> HIDE DEF new
  <2> QED
    BY AheadIsFinite DEF ListInv
<1>5. new.count = Len(new.rows) + Cardinality(Ahead(new))
  BY <1>3, <1>4 DEF Counted
<1>6. new \in [by : Slots, kind : {"supplies", "demands"}, mine : BOOLEAN, at : Nat,
               count : Nat, rows : Seq(RowsOf(new))]
  BY <1>3, <1>4 DEF Counted
<1>7. new # NoListing
  BY SizesAssumption DEF NoListing, Slots
<1> HIDE DEF new
<1>8. Ahead(listing)' = Ahead(new) /\ RowsOf(listing)' = RowsOf(new)
  BY <1>1 DEF Ahead, RowsOf, TableOf, Wanted, Used
<1> QED
  BY <1>1, <1>5, <1>6, <1>7, <1>8 DEF ListInv, UnderWay

LEMMA RowKeeps ==
  ASSUME ListInv, write_row
  PROVE  ListInv'
<1> DEFINE S == RowsOf(listing)
<1>1. PICK i \in Ahead(listing) :
        /\ \A k \in Ahead(listing) : i <= k
        /\ listing' = [by |-> listing.by, kind |-> listing.kind, mine |-> listing.mine,
                       at |-> i + 1, count |-> listing.count,
                       rows |-> Append(listing.rows, TableOf(listing)[i])]
  BY DEF write_row
<1>2. listing # NoListing /\ UNCHANGED <<supplies, demands, pc>>
  BY DEF write_row, vars
<1>3. /\ listing.by \in Slots /\ listing.kind \in {"supplies", "demands"}
      /\ listing.mine \in BOOLEAN /\ listing.at \in Nat /\ listing.count \in Nat
      /\ listing.rows \in Seq(S)
      /\ listing.count = Len(listing.rows) + Cardinality(Ahead(listing))
  BY <1>2 DEF ListInv, UnderWay
<1>4. PICK elem : elem = TableOf(listing)[i]
  OBVIOUS
<1>5. elem \in S
  BY <1>1, <1>4 DEF RowsOf, Ahead
<1>6. PICK rows : rows = Append(listing.rows, elem)
  OBVIOUS
<1>7. rows \in Seq(S) /\ Len(rows) = Len(listing.rows) + 1 /\ Len(listing.rows) \in Nat
  <2> HIDE DEF S
  <2> QED
    BY <1>3, <1>5, <1>6, AppendProperties, LenProperties
<1>8. /\ listing'.by = listing.by /\ listing'.kind = listing.kind
      /\ listing'.mine = listing.mine /\ listing'.at = i + 1
      /\ listing'.count = listing.count /\ listing'.rows = rows
      /\ listing' = [by |-> listing.by, kind |-> listing.kind, mine |-> listing.mine,
                     at |-> i + 1, count |-> listing.count, rows |-> rows]
  BY <1>1, <1>4, <1>6
<1>9. TableOf(listing)' = TableOf(listing) /\ RowsOf(listing)' = S
  BY <1>2, <1>8 DEF TableOf, RowsOf, Wanted, Used
<1>10. /\ IsFiniteSet(Ahead(listing)) /\ Ahead(listing) \subseteq Nat
       /\ Cardinality(Ahead(listing)) \in Nat
  BY AheadIsFinite DEF ListInv
<1>11. Ahead(listing)' = Ahead(listing) \ {i}
  <2>1. \A k \in Wanted(TableOf(listing), listing.mine, listing.by) :
           k >= i + 1 <=> k >= listing.at /\ k # i
    <3>1. \A k \in Wanted(TableOf(listing), listing.mine, listing.by) : k \in Nat
      BY SizesAssumption DEF Wanted, TableOf, ListInv, SupplyIdx, DemandIdx
    <3>2. i \in Nat /\ i >= listing.at
      BY <1>10 DEF Ahead
    <3> QED
      BY <1>1, <1>3, <3>1, <3>2 DEF Ahead
  <2>2. Ahead(listing)' = {k \in Wanted(TableOf(listing), listing.mine, listing.by) : k >= i + 1}
    BY <1>2, <1>8 DEF Ahead, TableOf, Wanted, Used
  <2> QED
    BY <2>1, <2>2 DEF Ahead
<1>12. Cardinality(Ahead(listing)') = Cardinality(Ahead(listing)) - 1
  BY <1>10, <1>11, FS_RemoveElement
<1>13. listing'.count = Len(listing'.rows) + Cardinality(Ahead(listing)')
  BY <1>3, <1>7, <1>8, <1>10, <1>12
<1>14. listing' \in UnderWay'
  BY <1>1, <1>3, <1>7, <1>8, <1>9, <1>10 DEF UnderWay
<1>15. listing' # NoListing
  BY <1>3, <1>8, SizesAssumption DEF NoListing, Slots
<1> QED
  BY <1>2, <1>13, <1>14, <1>15 DEF ListInv

LEMMA ListStep == ListInv /\ [LNext]_lvars => ListInv'
<1> SUFFICES ASSUME ListInv, [LNext]_lvars PROVE ListInv'
  OBVIOUS
<1>1. CASE end_listing
  BY <1>1 DEF end_listing, tables, ListInv
<1>2. CASE UNCHANGED lvars
  BY <1>2 DEF lvars, vars, ListInv, UnderWay, Ahead, RowsOf, TableOf, Wanted, Used
<1> QED
  BY <1>1, <1>2, NextKeeps, StartKeeps, RowKeeps DEF LNext

LEMMA ListInvariant == LSpec => []ListInv
  BY ListInit, ListStep, PTL DEF LSpec

(* However large the tables and however many commands wait for the mutex,  *)
(* the header of a listing counts the rows that follow it, and each row is *)
(* on the map, and the asker's if it asked for its own, when the listing   *)
(* ends.                                                                   *)
THEOREM ListingShowsOneMoment == LSpec => []ListingIsSnapshot
<1>1. ListInv => ListingIsSnapshot
  <2> SUFFICES ASSUME ListInv, listing # NoListing
               PROVE  \A n \in DOMAIN listing.rows : listing.rows[n] \in RowsOf(listing)
    BY DEF ListingIsSnapshot, ListInv, RowsOf
  <2>1. listing.rows \in Seq(RowsOf(listing))
    BY DEF ListInv, UnderWay
  <2> QED
    BY <2>1, LenProperties, ElementOfSeq
<1> QED
  BY <1>1, ListInvariant, PTL

-----------------------------------------------------------------------------
(* The map beside listings.                                                *)

(* The mutex as the other commands see it: taken or not.                   *)
ShownPc == IF pc = "list" THEN "free" ELSE pc

Quiet == INSTANCE OwnershipProofs WITH pc <- ShownPc

LEMMA SameConstants ==
  /\ Quiet!Items = Items /\ Quiet!Origin = Origin /\ Quiet!Slots = Slots
  /\ Quiet!SupplyIdx = SupplyIdx /\ Quiet!DemandIdx = DemandIdx
  /\ Quiet!WatchIdx = WatchIdx
  BY DEF Quiet!Items, Items, Quiet!Origin, Origin, Quiet!Slots, Slots,
         Quiet!SupplyIdx, SupplyIdx, Quiet!DemandIdx, DemandIdx, Quiet!WatchIdx, WatchIdx

LEMMA QuietInit == LInit => Quiet!Init
  BY SameConstants
  DEF LInit, Init, Quiet!Init, ShownPc, NoAmount, Quiet!NoAmount, FreeSupply,
      Quiet!FreeSupply, FreeDemand, Quiet!FreeDemand, FreeWatch, Quiet!FreeWatch

LEMMA SameCardinality == \A S : Quiet!Cardinality(S) = Cardinality(S)
  BY Zenon DEF Quiet!Cardinality, Cardinality

LEMMA SameWatchEvents ==
  ASSUME NEW i
  PROVE  check_for_watch_events_on_new_supply(i) =>
           Quiet!check_for_watch_events_on_new_supply(i)
<1>1. /\ Quiet!Told(i) = Told(i)
      /\ \A j : Quiet!Used(supplies, j) <=> Used(supplies, j)
  BY SameConstants DEF Told, Quiet!Told, Used, Quiet!Used, manhattan_distance,
     Quiet!manhattan_distance, abs, Quiet!abs
<1>2. \A ws, s : Quiet!InTableOrder(ws, s) <=> InTableOrder(ws, s)
  BY SameCardinality, Zenon DEF InTableOrder, Quiet!InTableOrder
<1>3. \A k, kind, v : Quiet!Note(k, kind, v) = Note(k, kind, v)
  BY DEF Note, Quiet!Note
<1>4. CASE Used(supplies, i)
  <2> SUFFICES ASSUME check_for_watch_events_on_new_supply(i)
               PROVE  Quiet!check_for_watch_events_on_new_supply(i)
    OBVIOUS
  <2>1. PICK order \in [1 .. Cardinality(Told(i)) -> WatchIdx] :
          /\ InTableOrder(Told(i), order)
          /\ out' = [n \in DOMAIN order |->
                       Note(watches[order[n]].client_id, "inserted", supplies[i].amount)]
    BY <1>4, Zenon DEF check_for_watch_events_on_new_supply, StillThere
  <2>2. out' = [n \in DOMAIN order |->
                  Quiet!Note(watches[order[n]].client_id, "inserted", supplies[i].amount)]
    BY <1>3, <2>1, Zenon
  <2>3. order \in [1 .. Quiet!Cardinality(Quiet!Told(i)) -> Quiet!WatchIdx]
    BY <1>1, <2>1, SameConstants, SameCardinality
  <2>4. Quiet!InTableOrder(Quiet!Told(i), order) /\ Quiet!Used(supplies, i)
    BY <1>1, <1>2, <1>4, <2>1, Zenon
  <2> QED
    BY <2>2, <2>3, <2>4 DEF Quiet!check_for_watch_events_on_new_supply, Quiet!StillThere
<1>5. CASE ~Used(supplies, i)
  BY <1>1, <1>5, Zenon
  DEF check_for_watch_events_on_new_supply, Quiet!check_for_watch_events_on_new_supply, StillThere,
      Quiet!StillThere
<1> QED
  BY <1>4, <1>5

(* A listing begins and ends between two commands of others, and neither   *)
(* its beginning, nor a row of it, nor its end is seen on the map.         *)
LEMMA QuietStep == ListInv /\ [LNext]_lvars => [Quiet!Next]_(Quiet!vars)
<1> SUFFICES ASSUME ListInv, [LNext]_lvars PROVE [Quiet!Next]_(Quiet!vars)
  OBVIOUS
<1> USE SameConstants DEF tables, Quiet!tables, ShownPc
<1>1. ASSUME NEW c \in Slots, register_client(c)
      PROVE  Quiet!register_client(c)
  BY <1>1
  DEF register_client, Quiet!register_client
<1>2. ASSUME NEW c \in Slots, remove_client_resources(c)
      PROVE  Quiet!remove_client_resources(c)
  BY <1>2
  DEF remove_client_resources, Quiet!remove_client_resources,
           WithoutWatchOf, Quiet!WithoutWatchOf, WithoutDemandsOf,
           Quiet!WithoutDemandsOf, FreeSupply, Quiet!FreeSupply, FreeDemand,
           Quiet!FreeDemand, NoAmount, Quiet!NoAmount
<1>3. ASSUME NEW c \in Slots, NEW p \in Points, move_client(c, p)
      PROVE  Quiet!move_client(c, p)
  BY <1>3
  DEF move_client, Quiet!move_client
<1>4. ASSUME NEW c \in Slots, NEW d \in WatchDistances, add_new_watch(c, d)
      PROVE  Quiet!add_new_watch(c, d)
  BY <1>4
  DEF add_new_watch, Quiet!add_new_watch, WithoutWatchOf,
           Quiet!WithoutWatchOf, FirstFree, Quiet!FirstFree, Full, Quiet!Full,
           Used, Quiet!Used
<1>5. ASSUME NEW c \in Slots, remove_watch(c)
      PROVE  Quiet!remove_watch(c)
  BY <1>5
  DEF remove_watch, Quiet!remove_watch, WithoutWatchOf, Quiet!WithoutWatchOf
<1>6. ASSUME NEW c \in Slots, NEW v \in DemandAmounts, add_new_demand(c, v)
      PROVE  Quiet!add_new_demand(c, v)
  BY <1>6
  DEF add_new_demand, Quiet!add_new_demand, FirstFree, Quiet!FirstFree,
           Full, Quiet!Full, Used, Quiet!Used, StartScan, Quiet!StartScan,
           FirstRow, Quiet!FirstRow, NoNewSupply, Quiet!NoNewSupply
<1>7. ASSUME NEW c \in Slots, NEW d \in SupplyDistances, NEW v \in SupplyAmounts, add_new_supply(c, d, v)
      PROVE  Quiet!add_new_supply(c, d, v)
  BY <1>7
  DEF add_new_supply, Quiet!add_new_supply, FirstFree, Quiet!FirstFree,
           Full, Quiet!Full, Used, Quiet!Used, StartScan, Quiet!StartScan,
           FirstRow, Quiet!FirstRow
<1>8. ASSUME check_for_match
      PROVE  Quiet!check_for_match
  BY <1>8
  DEF check_for_match, Quiet!check_for_match, FirstMatch, Quiet!FirstMatch,
           match_demand_and_supply, Quiet!match_demand_and_supply,
           check_case_match, Quiet!check_case_match, Used, Quiet!Used, Left,
           Quiet!Left, Exhausted, Quiet!Exhausted, Note, Quiet!Note,
           manhattan_distance, Quiet!manhattan_distance, abs, Quiet!abs,
           FreeSupply, Quiet!FreeSupply, FreeDemand, Quiet!FreeDemand, NoAmount,
           Quiet!NoAmount
<1>9. ASSUME end_command PROVE Quiet!end_command
  <2>1. fresh # -1 => Quiet!check_for_watch_events_on_new_supply(fresh)
    BY <1>9, SameWatchEvents DEF end_command
  <2> QED
    BY <1>9, <2>1 DEF end_command, Quiet!end_command
<1>10. CASE UNCHANGED lvars
  BY <1>10 DEF lvars, vars, Quiet!vars
<1>11. ASSUME NEW c \in Slots, NEW kind, NEW mine, start_listing(c, kind, mine)
       PROVE  UNCHANGED Quiet!vars
  BY <1>11 DEF start_listing, HoldMutex, Quiet!vars
<1>12. CASE write_row
  BY <1>12 DEF write_row, vars, Quiet!vars
<1>13. CASE end_listing
  BY <1>13 DEF end_listing, ListInv, Quiet!vars
<1>14. Next => Quiet!Next
  BY <1>1, <1>2, <1>3, <1>4, <1>5, <1>6, <1>7, <1>8, <1>9 DEF Next, Quiet!Next
<1> QED
  BY <1>10, <1>11, <1>12, <1>13, <1>14 DEF LNext

(* To the map listings are nothing but times when the mutex is not free:   *)
(* Listing implements SupDemMap.                                           *)
THEOREM ListingsLeaveTheMapAlone == LSpec => Quiet!Spec
  BY QuietInit, QuietStep, ListInvariant, PTL DEF LSpec, Quiet!Spec

(* Beside listings too, nothing on the map belongs to a slot without a     *)
(* client.                                                                 *)
THEOREM NoOrphansBesideListings == LSpec => []NoOrphanRecords
<1>1. Quiet!Spec => []Quiet!NoOrphanRecords
  BY Quiet!NoOrphans, SameConstants, SizesAssumption, WatchRoomAssumption, InputsAssumption
<1>2. Quiet!NoOrphanRecords <=> NoOrphanRecords
  BY SameConstants DEF Quiet!NoOrphanRecords, NoOrphanRecords, Quiet!Used, Used
<1> QED
  BY <1>1, <1>2, ListingsLeaveTheMapAlone, PTL

(* Beside listings too, only clients that are there are notified.          *)
THEOREM NoNoticeToTheDepartedBesideListings == LSpec => []OnlyLiveAreNotified
<1>1. Quiet!Spec => []Quiet!OnlyLiveAreNotified
  BY Quiet!NoNoticeToTheDeparted, SameConstants, SizesAssumption, WatchRoomAssumption,
     InputsAssumption
<1>2. Quiet!OnlyLiveAreNotified <=> OnlyLiveAreNotified
  BY DEF Quiet!OnlyLiveAreNotified, OnlyLiveAreNotified
<1> QED
  BY <1>1, <1>2, ListingsLeaveTheMapAlone, PTL

(* Beside listings too, watchers are told of the supply of the running     *)
(* command as the scan has left it, and of nothing else.                   *)
THEOREM WatchersToldTheTruthBesideListings == LSpec => ToldOfTheNewSupply
<1> DEFINE True == \A n \in DOMAIN out' :
                     /\ Used(supplies, fresh)
                     /\ supplies[fresh].client_id = cur /\ supplies[fresh].at = pos[cur]
                     /\ out'[n].kind = "inserted" /\ out'[n].amount = supplies[fresh].amount
<1>1. Quiet!Spec => Quiet!ToldOfTheNewSupply
  BY Quiet!WatchersToldTheTruth, SameConstants, SizesAssumption, WatchRoomAssumption,
     InputsAssumption
<1>2. ASSUME end_command PROVE Quiet!end_command /\ (UNCHANGED Quiet!vars => UNCHANGED vars)
  <2>1. fresh # -1 => Quiet!check_for_watch_events_on_new_supply(fresh)
    BY <1>2, SameWatchEvents DEF end_command
  <2> QED
    BY <1>2, <2>1, SameConstants DEF end_command, Quiet!end_command, tables, Quiet!tables, ShownPc, vars, Quiet!vars
<1>3. [Quiet!end_command =>
         \A n \in DOMAIN out' :
           /\ Quiet!Used(supplies, fresh)
           /\ supplies[fresh].client_id = cur /\ supplies[fresh].at = pos[cur]
           /\ out'[n].kind = "inserted" /\ out'[n].amount = supplies[fresh].amount]_(Quiet!vars)
      => [end_command => True]_vars
  BY <1>2 DEF Used, Quiet!Used
<1> QED
  BY <1>1, <1>3, ListingsLeaveTheMapAlone, PTL DEF ToldOfTheNewSupply, Quiet!ToldOfTheNewSupply

(* Beside listings too, nobody is told twice of the same new supply.       *)
THEOREM NoSupplyToldTwiceBesideListings == LSpec => []EachHearsOnce
<1>1. Quiet!Spec => []Quiet!EachHearsOnce
  BY Quiet!NoSupplyToldTwice, SameConstants, SizesAssumption, WatchRoomAssumption,
     InputsAssumption
<1>2. Quiet!EachHearsOnce <=> EachHearsOnce
  BY DEF Quiet!EachHearsOnce, EachHearsOnce
<1> QED
  BY <1>1, <1>2, ListingsLeaveTheMapAlone, PTL

(* Beside listings too, a watch command always finds room.                 *)
THEOREM WatchIsNeverDroppedBesideListings == LSpec => WatchCommandTakesEffect
<1> DEFINE Effect == \A c \in Slots, d \in WatchDistances :
                       add_new_watch(c, d) =>
                         \E w \in WatchIdx :
                           watches'[w] = [client_id |-> c, at |-> pos[c], watch_id |-> d]
<1>1. Quiet!Spec => Quiet!WatchCommandTakesEffect
  BY Quiet!WatchIsNeverDropped, SameConstants, SizesAssumption, WatchRoomAssumption,
     InputsAssumption
<1>2. ASSUME NEW c \in Slots, NEW d \in WatchDistances, add_new_watch(c, d)
      PROVE  Quiet!add_new_watch(c, d) /\ (UNCHANGED Quiet!vars => UNCHANGED vars)
  BY <1>2, SameConstants
  DEF add_new_watch, Quiet!add_new_watch, WithoutWatchOf, Quiet!WithoutWatchOf, FirstFree,
      Quiet!FirstFree, Full, Quiet!Full, Used, Quiet!Used, ShownPc, vars, Quiet!vars
<1>3. [\A c \in Quiet!Slots, d \in WatchDistances :
         Quiet!add_new_watch(c, d) =>
           \E w \in Quiet!WatchIdx :
             watches'[w] = [client_id |-> c, at |-> pos[c], watch_id |-> d]]_(Quiet!vars)
      => [Effect]_vars
  BY <1>2, SameConstants
<1> QED
  BY <1>1, <1>3, ListingsLeaveTheMapAlone, PTL DEF WatchCommandTakesEffect, Quiet!WatchCommandTakesEffect

=============================================================================
