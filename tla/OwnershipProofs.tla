-------------------------- MODULE OwnershipProofs --------------------------
(***************************************************************************)
(* Who owns what on the map of SupDemMap: records only of clients that are *)
(* there, notices only to them, and one watch each, for which there is     *)
(* always room.                                                            *)
(***************************************************************************)
EXTENDS SupDemMapProofs

OwnInv == NoOrphanRecords /\ OneWatchPerClient /\ OnlyLiveAreNotified

LEMMA OwnInit == Init => OwnInv
  BY CellFacts
  DEF Init, OwnInv, NoOrphanRecords, OneWatchPerClient, OnlyLiveAreNotified,
      Used, FreeSupply, FreeDemand, FreeWatch

(* After the first loop of add_new_watch the client has no watch.          *)
LEMMA Cleared ==
  ASSUME NEW c \in Slots, NEW w \in WatchIdx
  PROVE  /\ watches[w].client_id = c => WithoutWatchOf(c)[w].client_id = -1
         /\ watches[w].client_id # c => WithoutWatchOf(c)[w] = watches[w]
         /\ WithoutWatchOf(c)[w].client_id # c
  BY CellFacts DEF WithoutWatchOf

LEMMA WatchersOwn ==
  ASSUME TypeOK, OneWatchPerClient, NoOrphanRecords,
         NEW c \in live, NEW d \in WatchDistances, add_new_watch(c, d)
  PROVE  /\ OneWatchPerClient'
         /\ \A w \in WatchIdx : Used(watches, w)' => watches'[w].client_id \in live
<1> DEFINE cleared == WithoutWatchOf(c)
<1>1. c \in Slots /\ cleared \in [WatchIdx -> WatchCell]
  BY WithoutWatchType DEF TypeOK
<1>2. CASE Full(cleared) /\ watches' = cleared
  BY <1>1, <1>2, Cleared DEF OneWatchPerClient, NoOrphanRecords, Used
<1>3. ASSUME NEW n \in WatchIdx, FirstFree(cleared, n),
             watches' = [cleared EXCEPT ![n] =
                           [client_id |-> c, at |-> pos[c], watch_id |-> d]]
      PROVE  /\ OneWatchPerClient'
             /\ \A w \in WatchIdx : Used(watches, w)' => watches'[w].client_id \in live
  <2>1. watches'[n].client_id = c
    BY <1>1, <1>3
  <2>2. \A w \in WatchIdx : w # n => watches'[w] = cleared[w]
    BY <1>1, <1>3
  <2>3. \A w \in WatchIdx : w # n => watches'[w].client_id # c
    BY <1>1, <2>2, Cleared
  <2>4. \A w \in WatchIdx : w # n /\ watches'[w].client_id # -1
                              => watches'[w] = watches[w]
    BY <1>1, <2>2, Cleared
  <2>5. QED
    BY <2>1, <2>3, <2>4 DEF OneWatchPerClient, NoOrphanRecords, Used
<1>4. QED
  BY <1>2, <1>3 DEF add_new_watch

LEMMA MatchOwn ==
  ASSUME TypeOK, NoOrphanRecords, NEW j \in DemandIdx, NEW i \in SupplyIdx,
         check_case_match(j, i), match_demand_and_supply(j, i)
  PROVE  /\ \A k \in SupplyIdx : Used(supplies, k)' => supplies'[k].client_id \in live
         /\ \A l \in DemandIdx : Used(demands, l)' => demands'[l].client_id \in live
         /\ \A n \in DOMAIN out' : out'[n].to \in live
<1>1. /\ demands[j] \in DemandCell
      /\ supplies[i] \in SupplyCell
      /\ demands[j].client_id \in live
      /\ supplies[i].client_id \in live
  BY LeftType DEF NoOrphanRecords, check_case_match
<1>2. \A l \in DemandIdx : Used(demands, l)' => demands'[l].client_id \in live
  BY CellFacts DEF match_demand_and_supply, NoOrphanRecords, Used, TypeOK
<1>3. \A k \in SupplyIdx : Used(supplies, k)' => supplies'[k].client_id \in live
  <2>1. CASE Exhausted(Left(j, i))
    BY <2>1, CellFacts DEF match_demand_and_supply, NoOrphanRecords, Used, TypeOK
  <2>2. CASE ~Exhausted(Left(j, i))
    <3>1. supplies' = [supplies EXCEPT ![i].amount = Left(j, i)]
      BY <2>2 DEF match_demand_and_supply
    <3>2. supplies'[i].client_id = supplies[i].client_id
      BY <1>1, <3>1 DEF TypeOK, SupplyCell
    <3>3. \A k \in SupplyIdx : k # i => supplies'[k] = supplies[k]
      BY <3>1 DEF TypeOK
    <3>4. QED
      BY <1>1, <3>2, <3>3 DEF NoOrphanRecords, Used
  <2>3. QED
    BY <2>1, <2>2
<1>4. \A n \in DOMAIN out' : out'[n].to \in live
  <2> DEFINE m1 == Note(demands[j].client_id, "fulfilled", demands[j].amount)
             m2 == Note(supplies[i].client_id, "delivered", supplies[i].amount)
             m3 == Note(supplies[i].client_id, "removed", NoAmount)
  <2>1. m1.to \in live /\ m2.to \in live /\ m3.to \in live
    BY <1>1 DEF Note
  <2>2. out' = <<m1, m2>> \/ out' = <<m1, m2, m3>>
    BY DEF match_demand_and_supply
  <2> HIDE DEF m1, m2, m3
  <2>3. QED
    BY <2>1, <2>2
<1>5. QED
  BY <1>2, <1>3, <1>4

LEMMA OwnStep == TypeOK /\ OwnInv /\ [Next]_vars => OwnInv'
<1> SUFFICES ASSUME TypeOK, OwnInv, [Next]_vars
             PROVE  OwnInv'
  OBVIOUS
<1>1. ASSUME NEW c \in Slots, register_client(c)
      PROVE  OwnInv'
  BY <1>1 DEF register_client, tables, OwnInv, NoOrphanRecords, OneWatchPerClient,
              OnlyLiveAreNotified, Used
<1>2. ASSUME NEW c \in Slots, remove_client_resources(c)
      PROVE  OwnInv'
  <2>1. NoOrphanRecords'
    <3>1. \A i \in SupplyIdx : Used(supplies, i)' =>
            supplies'[i] = supplies[i] /\ supplies[i].client_id # c
      BY <1>2, CellFacts DEF remove_client_resources, WithoutDemandsOf, Used
    <3>2. \A j \in DemandIdx : Used(demands, j)' =>
            demands'[j] = demands[j] /\ demands[j].client_id # c
      BY <1>2, CellFacts DEF remove_client_resources, WithoutDemandsOf, Used
    <3>3. \A w \in WatchIdx : Used(watches, w)' =>
            watches'[w] = watches[w] /\ watches[w].client_id # c
      BY <1>2, Cleared DEF remove_client_resources, WithoutDemandsOf, Used
    <3>4. QED
      BY <1>2, <3>1, <3>2, <3>3
      DEF remove_client_resources, WithoutDemandsOf, OwnInv, NoOrphanRecords, Used
  <2>2. OneWatchPerClient'
    BY <1>2, Cleared DEF remove_client_resources, WithoutDemandsOf, OwnInv, OneWatchPerClient, Used
  <2>3. OnlyLiveAreNotified'
    BY <1>2 DEF remove_client_resources, WithoutDemandsOf, OnlyLiveAreNotified
  <2>4. QED
    BY <2>1, <2>2, <2>3 DEF OwnInv
<1>3. ASSUME NEW c \in Slots, NEW p \in Points, move_client(c, p)
      PROVE  OwnInv'
  BY <1>3 DEF move_client, tables, OwnInv, NoOrphanRecords, OneWatchPerClient,
              OnlyLiveAreNotified, Used
<1>4. ASSUME NEW c \in Slots, NEW d \in WatchDistances, add_new_watch(c, d)
      PROVE  OwnInv'
  <2>1. c \in live /\ UNCHANGED <<supplies, demands, live>> /\ out' = <<>>
    BY <1>4 DEF add_new_watch
  <2>2. QED
    BY <1>4, <2>1, WatchersOwn
    DEF OwnInv, NoOrphanRecords, OnlyLiveAreNotified, Used
<1>5. ASSUME NEW c \in Slots, remove_watch(c)
      PROVE  OwnInv'
  <2>1. /\ watches' = WithoutWatchOf(c)
        /\ UNCHANGED <<supplies, demands, live>>
        /\ out' = <<>>
    BY <1>5 DEF remove_watch
  <2>2. QED
    BY <2>1, Cleared
    DEF OwnInv, NoOrphanRecords, OneWatchPerClient, OnlyLiveAreNotified, Used
<1>6. ASSUME NEW c \in Slots, NEW v \in DemandAmounts, add_new_demand(c, v)
      PROVE  OwnInv'
  <2>1. c \in live /\ UNCHANGED <<supplies, watches, live>> /\ out' = <<>>
    BY <1>6 DEF add_new_demand, NoNewSupply, StartScan, FirstRow
  <2>2. \A j \in DemandIdx : demands'[j] = demands[j] \/ demands'[j].client_id = c
    BY <1>6 DEF add_new_demand, NoNewSupply, TypeOK
  <2>3. QED
    BY <2>1, <2>2
    DEF OwnInv, NoOrphanRecords, OneWatchPerClient, OnlyLiveAreNotified, Used
<1>7. ASSUME NEW c \in Slots, NEW d \in SupplyDistances, NEW v \in SupplyAmounts,
             add_new_supply(c, d, v)
      PROVE  OwnInv'
  <2>1. c \in live /\ UNCHANGED <<demands, watches, live>> /\ out' = <<>>
    BY <1>7 DEF add_new_supply, StartScan, FirstRow
  <2>2. \A i \in SupplyIdx : supplies'[i] = supplies[i] \/ supplies'[i].client_id = c
    BY <1>7 DEF add_new_supply, TypeOK
  <2>3. QED
    BY <2>1, <2>2
    DEF OwnInv, NoOrphanRecords, OneWatchPerClient, OnlyLiveAreNotified, Used
<1>8. CASE check_for_match
  <2>1. row \in DemandIdx /\ UNCHANGED <<watches, live>>
    BY <1>8, SizesAssumption DEF check_for_match, DemandIdx, TypeOK
  <2>2. ASSUME NEW i \in SupplyIdx, FirstMatch(row, i), match_demand_and_supply(row, i)
        PROVE  OwnInv'
    <3>1. check_case_match(row, i)
      BY <2>2 DEF FirstMatch
    <3>2. QED
      BY <2>1, <2>2, <3>1, MatchOwn
      DEF OwnInv, NoOrphanRecords, OneWatchPerClient, OnlyLiveAreNotified, Used
  <2>3. CASE out' = <<>> /\ UNCHANGED <<supplies, demands>>
    BY <2>1, <2>3
    DEF OwnInv, NoOrphanRecords, OneWatchPerClient, OnlyLiveAreNotified, Used
  <2>4. QED
    BY <1>8, <2>2, <2>3 DEF check_for_match
<1>9. CASE end_command
  <2>1. UNCHANGED <<tables, live>>
    BY <1>9 DEF end_command
  <2>2. \A n \in DOMAIN out' : out'[n].to \in live
    <3>1. CASE out' = <<>>
      BY <3>1
    <3>2. CASE fresh # -1 /\ Used(supplies, fresh)
      <4>1. PICK order \in [1 .. Cardinality(Told(fresh)) -> WatchIdx] :
              /\ InTableOrder(Told(fresh), order)
              /\ out' = [n \in DOMAIN order |->
                           Note(watches[order[n]].client_id, "inserted",
                                supplies[fresh].amount)]
        BY <1>9, <3>2 DEF end_command, check_for_watch_events_on_new_supply, StillThere
      <4>2. \A n \in DOMAIN order : order[n] \in Told(fresh)
        BY <4>1 DEF InTableOrder
      <4>3. \A n \in DOMAIN order : watches[order[n]].client_id \in live
        BY <4>2 DEF Told, OwnInv, NoOrphanRecords
      <4>4. QED
        BY <4>1, <4>3 DEF Note
    <3>3. QED
      BY <1>9, <3>1, <3>2 DEF end_command, check_for_watch_events_on_new_supply, StillThere
  <2>3. QED
    BY <2>1, <2>2
    DEF tables, OwnInv, NoOrphanRecords, OneWatchPerClient, OnlyLiveAreNotified, Used
<1>10. CASE UNCHANGED vars
  BY <1>10 DEF vars, tables, OwnInv, NoOrphanRecords, OneWatchPerClient,
               OnlyLiveAreNotified, Used
<1>11. QED
  BY <1>1, <1>2, <1>3, <1>4, <1>5, <1>6, <1>7, <1>8, <1>9, <1>10 DEF Next

-----------------------------------------------------------------------------
LEMMA OwnershipHolds == Spec => []OwnInv
  BY OwnInit, OwnStep, TypeCorrect, PTL DEF Spec

(* Every record on the map is of a client that is connected: whatever a    *)
(* departed client left is gone before its slot can be given away.         *)
THEOREM NoOrphans == Spec => []NoOrphanRecords
<1>1. OwnInv => NoOrphanRecords
  BY DEF OwnInv
<1>2. QED
  BY <1>1, OwnershipHolds, PTL

(* Notices are only put into the queues of connected clients.              *)
THEOREM NoNoticeToTheDeparted == Spec => []OnlyLiveAreNotified
<1>1. OwnInv => OnlyLiveAreNotified
  BY DEF OwnInv
<1>2. QED
  BY <1>1, OwnershipHolds, PTL

(* A client never has two watches.                                         *)
THEOREM AtMostOneWatch == Spec => []OneWatchPerClient
<1>1. OwnInv => OneWatchPerClient
  BY DEF OwnInv
<1>2. QED
  BY <1>1, OwnershipHolds, PTL

-----------------------------------------------------------------------------
(* The watch table has a cell for every slot, so once the client's own     *)
(* watch is cleared some cell is free: a full table would give MAX_WATCH   *)
(* cells to the MAX_CLIENTS - 1 other clients, one each.                   *)
LEMMA RoomForAWatch ==
  ASSUME TypeOK, OneWatchPerClient, NEW c \in Slots
  PROVE  ~Full(WithoutWatchOf(c))
<1> SUFFICES ASSUME Full(WithoutWatchOf(c))
             PROVE  FALSE
  OBVIOUS
<1> DEFINE others == Slots \ {c}
           holder == [w \in WatchIdx |-> watches[w].client_id]
<1>1. \A w \in WatchIdx : holder[w] \in others /\ Used(watches, w)
  <2>1. DOMAIN WithoutWatchOf(c) = WatchIdx
    BY DEF WithoutWatchOf
  <2>2. \A w \in WatchIdx : WithoutWatchOf(c)[w].client_id # -1
    BY <2>1 DEF Full, Used
  <2>3. \A w \in WatchIdx : watches[w].client_id # c /\ watches[w].client_id # -1
    BY <2>2, Cleared
  <2>4. QED
    BY <2>3 DEF TypeOK, WatchCell, Used
<1>2. holder \in [WatchIdx -> others]
  BY <1>1
<1>3. \A v, w \in WatchIdx : holder[v] = holder[w] => v = w
  BY <1>1 DEF OneWatchPerClient
<1>4. IsFiniteSet(WatchIdx) /\ Cardinality(WatchIdx) = MAX_WATCH
  BY FS_Interval, SizesAssumption DEF WatchIdx
<1>5. IsFiniteSet(others) /\ Cardinality(others) = MAX_CLIENTS - 1
  <2>1. IsFiniteSet(Slots) /\ Cardinality(Slots) = MAX_CLIENTS
    BY FS_Interval, SizesAssumption DEF Slots
  <2>2. QED
    BY <2>1, FS_RemoveElement
<1>6. Cardinality(others) < Cardinality(WatchIdx)
  BY <1>4, <1>5, SizesAssumption, WatchRoomAssumption
<1> HIDE DEF holder, others
<1>7. QED
  BY <1>2, <1>3, <1>4, <1>5, <1>6, FS_PigeonHole

(* A watch command is never dropped for want of room.                      *)
THEOREM WatchIsNeverDropped == Spec => WatchCommandTakesEffect
<1> DEFINE placed(c, d) == \E w \in WatchIdx :
                watches'[w] = [client_id |-> c, at |-> pos[c], watch_id |-> d]
           allPlaced == \A c \in Slots, d \in WatchDistances :
                          add_new_watch(c, d) => placed(c, d)
<1>1. TypeOK /\ OwnInv => allPlaced
  <2> SUFFICES ASSUME TypeOK, OwnInv, NEW c \in Slots, NEW d \in WatchDistances,
                      add_new_watch(c, d)
               PROVE  placed(c, d)
    OBVIOUS
  <2>1. ~Full(WithoutWatchOf(c)) /\ WithoutWatchOf(c) \in [WatchIdx -> WatchCell]
    BY RoomForAWatch, WithoutWatchType DEF OwnInv
  <2>2. PICK w \in WatchIdx :
          watches' = [WithoutWatchOf(c) EXCEPT ![w] =
                        [client_id |-> c, at |-> pos[c], watch_id |-> d]]
    BY <2>1 DEF add_new_watch
  <2>3. QED
    BY <2>1, <2>2
<1>2. QED
  BY <1>1, TypeCorrect, OwnershipHolds, PTL DEF WatchCommandTakesEffect

-----------------------------------------------------------------------------
(* The index of the new supply is only kept while the command runs, and    *)
(* the cell it points to is the command's own or empty.                    *)
FreshIsOwnSupply ==
  fresh # -1 /\ Used(supplies, fresh) =>
    supplies[fresh].client_id = cur /\ supplies[fresh].at = pos[cur]

FreshInv == FreshIsOwnSupply /\ (pc = "free" => fresh = -1)

LEMMA FreshStep == TypeOK /\ FreshInv /\ [Next]_vars => FreshInv'
<1> SUFFICES ASSUME TypeOK, FreshInv, [Next]_vars
             PROVE  FreshInv'
  OBVIOUS
<1>1. ASSUME UNCHANGED <<pc, fresh>>, pc = "free"
      PROVE  FreshInv'
  BY <1>1 DEF FreshInv, FreshIsOwnSupply
<1>2. ASSUME NEW c \in Slots, NEW v \in DemandAmounts, add_new_demand(c, v)
      PROVE  FreshInv'
  BY <1>2 DEF add_new_demand, NoNewSupply, StartScan, FirstRow, FreshInv, FreshIsOwnSupply
<1>3. ASSUME NEW c \in Slots, NEW d \in SupplyDistances, NEW v \in SupplyAmounts,
             add_new_supply(c, d, v)
      PROVE  FreshInv'
  <2>1. cur' = c /\ pos' = pos /\ pc' = "match"
    BY <1>3 DEF add_new_supply, StartScan, FirstRow
  <2>2. fresh' # -1 => /\ supplies'[fresh'].client_id = c
                       /\ supplies'[fresh'].at = pos[c]
    BY <1>3 DEF add_new_supply, TypeOK
  <2>3. QED
    BY <2>1, <2>2 DEF FreshInv, FreshIsOwnSupply
<1>4. CASE check_for_match
  <2>1. UNCHANGED <<pc, cur, fresh, pos>> /\ pc = "match" /\ row \in DemandIdx
    BY <1>4, SizesAssumption DEF check_for_match, DemandIdx, TypeOK
  <2>2. ASSUME NEW i \in SupplyIdx, FirstMatch(row, i), match_demand_and_supply(row, i),
               NEW k \in SupplyIdx, Used(supplies, k)'
        PROVE  /\ Used(supplies, k)
               /\ supplies'[k].client_id = supplies[k].client_id
               /\ supplies'[k].at = supplies[k].at
    <3>1. supplies[i] \in SupplyCell
      BY <2>1, <2>2, LeftType DEF FirstMatch
    <3>2. CASE Exhausted(Left(row, i))
      BY <2>2, <3>2, CellFacts DEF match_demand_and_supply, Used, TypeOK
    <3>3. CASE ~Exhausted(Left(row, i))
      <4>1. supplies' = [supplies EXCEPT ![i].amount = Left(row, i)]
        BY <2>2, <3>3 DEF match_demand_and_supply
      <4>2. k # i => supplies'[k] = supplies[k]
        BY <4>1 DEF TypeOK
      <4>3. /\ supplies'[i].client_id = supplies[i].client_id
            /\ supplies'[i].at = supplies[i].at
        BY <3>1, <4>1 DEF TypeOK, SupplyCell
      <4>4. QED
        BY <2>2, <4>2, <4>3 DEF Used
    <3>4. QED
      BY <3>2, <3>3
  <2>3. ASSUME fresh # -1, Used(supplies, fresh)'
        PROVE  /\ Used(supplies, fresh)
               /\ supplies'[fresh].client_id = supplies[fresh].client_id
               /\ supplies'[fresh].at = supplies[fresh].at
    <3>1. fresh \in SupplyIdx
      BY <2>3 DEF TypeOK
    <3>2. CASE UNCHANGED supplies
      BY <2>1, <2>3, <3>2 DEF Used
    <3>3. QED
      BY <1>4, <2>1, <2>2, <2>3, <3>1, <3>2 DEF check_for_match
  <2>4. QED
    BY <2>1, <2>3 DEF FreshInv, FreshIsOwnSupply, Used
<1>5. CASE end_command
  BY <1>5 DEF end_command, FreshInv, FreshIsOwnSupply
<1>6. CASE UNCHANGED vars
  BY <1>6 DEF vars, tables, FreshInv, FreshIsOwnSupply, Used
<1>7. QED
  BY <1>1, <1>2, <1>3, <1>4, <1>5, <1>6
  DEF Next, register_client, remove_client_resources, WithoutDemandsOf, move_client, add_new_watch,
      remove_watch

LEMMA FreshInvariant == Spec => []FreshInv
<1>1. Init => FreshInv
  BY DEF Init, FreshInv, FreshIsOwnSupply
<1> QED
  BY <1>1, FreshStep, TypeCorrect, PTL DEF Spec

(* For all sizes and inputs: what check_for_watch_events_on_new_supply     *)
(* tells the watchers of is the supply of the running command as the scan  *)
(* has left it, never one the scan used up or one of another command.      *)
THEOREM WatchersToldTheTruth == Spec => ToldOfTheNewSupply
<1> DEFINE True == \A n \in DOMAIN out' :
                     /\ Used(supplies, fresh)
                     /\ supplies[fresh].client_id = cur /\ supplies[fresh].at = pos[cur]
                     /\ out'[n].kind = "inserted" /\ out'[n].amount = supplies[fresh].amount
<1>1. ASSUME FreshInv, end_command PROVE True
  <2>1. CASE out' = <<>>
    BY <2>1
  <2>2. CASE out' # <<>>
    <3>1. fresh # -1 /\ Used(supplies, fresh)
      BY <1>1, <2>2 DEF end_command, check_for_watch_events_on_new_supply, StillThere
    <3>2. PICK order \in [1 .. Cardinality(Told(fresh)) -> WatchIdx] :
            out' = [n \in DOMAIN order |->
                      Note(watches[order[n]].client_id, "inserted", supplies[fresh].amount)]
      BY <1>1, <3>1 DEF end_command, check_for_watch_events_on_new_supply, StillThere
    <3>3. \A n \in DOMAIN out' :
            out'[n].kind = "inserted" /\ out'[n].amount = supplies[fresh].amount
      BY <3>2 DEF Note
    <3> QED
      BY <1>1, <3>1, <3>3 DEF FreshInv, FreshIsOwnSupply
  <2> QED
    BY <2>1, <2>2
<1>2. FreshInv => (end_command => True)
  BY <1>1
<1> QED
  BY <1>2, FreshInvariant, PTL DEF ToldOfTheNewSupply

-----------------------------------------------------------------------------
LEMMA HearStep ==
  ASSUME TypeOK, OwnInv, EachHearsOnce, [Next]_vars
  PROVE  EachHearsOnce'
<1>1. CASE out' = <<>>
  BY <1>1 DEF EachHearsOnce
<1>2. CASE UNCHANGED vars
  BY <1>2 DEF vars, EachHearsOnce
<1>3. ASSUME NEW j, NEW i \in SupplyIdx, match_demand_and_supply(j, i)
      PROVE  EachHearsOnce'
  <2> DEFINE m1 == Note(demands[j].client_id, "fulfilled", demands[j].amount)
             m2 == Note(supplies[i].client_id, "delivered", supplies[i].amount)
             m3 == Note(supplies[i].client_id, "removed", NoAmount)
  <2>1. m1.kind # "inserted" /\ m2.kind # "inserted" /\ m3.kind # "inserted"
    BY DEF Note
  <2>2. out' = <<m1, m2>> \/ out' = <<m1, m2, m3>>
    BY <1>3 DEF match_demand_and_supply
  <2> HIDE DEF m1, m2, m3
  <2>3. \A n \in DOMAIN out' : out'[n].kind # "inserted"
    BY <2>1, <2>2
  <2>4. QED
    BY <2>3 DEF EachHearsOnce
<1>4. ASSUME check_for_watch_events_on_new_supply(fresh), Used(supplies, fresh)
      PROVE  EachHearsOnce'
  <2>1. PICK order \in [1 .. Cardinality(Told(fresh)) -> WatchIdx] :
          /\ InTableOrder(Told(fresh), order)
          /\ out' = [n \in DOMAIN order |->
                       Note(watches[order[n]].client_id, "inserted",
                            supplies[fresh].amount)]
    BY <1>4 DEF check_for_watch_events_on_new_supply, StillThere
  <2>2. ASSUME NEW m \in DOMAIN out', NEW n \in DOMAIN out', out'[m].to = out'[n].to
        PROVE  m = n
    <3>1. m \in DOMAIN order /\ n \in DOMAIN order
      BY <2>1, <2>2
    <3>2. order[m] \in Told(fresh) /\ order[n] \in Told(fresh)
      BY <2>1, <3>1 DEF InTableOrder
    <3>3. watches[order[m]].client_id = watches[order[n]].client_id
      BY <2>1, <2>2, <3>1 DEF Note
    <3>4. order[m] = order[n]
      BY <3>2, <3>3 DEF OwnInv, OneWatchPerClient, Told
    <3>5. ~(order[m] < order[n]) /\ ~(order[n] < order[m])
      BY <3>2, <3>4 DEF Told, WatchIdx
    <3>6. m \in Int /\ n \in Int
      BY <2>1, <3>1
    <3>7. QED
      BY <2>1, <3>1, <3>5, <3>6 DEF InTableOrder
  <2>3. QED
    BY <2>2 DEF EachHearsOnce
<1>5. CASE check_for_match
  BY <1>1, <1>3, <1>5 DEF check_for_match
<1>6. CASE end_command
  BY <1>1, <1>4, <1>6 DEF end_command, check_for_watch_events_on_new_supply, StillThere
<1>7. QED
  BY <1>1, <1>2, <1>5, <1>6
  DEF Next, register_client, remove_client_resources, WithoutDemandsOf, move_client, add_new_watch,
      remove_watch, add_new_demand, add_new_supply, StartScan, FirstRow

(* However often watches are set, moved and dropped, no client is told     *)
(* twice of one new supply.                                                *)
THEOREM NoSupplyToldTwice == Spec => []EachHearsOnce
<1>1. Init => EachHearsOnce
  BY DEF Init, EachHearsOnce
<1>2. QED
  BY <1>1, HearStep, TypeCorrect, OwnershipHolds, PTL DEF Spec

=============================================================================
