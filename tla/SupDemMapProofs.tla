-------------------------- MODULE SupDemMapProofs --------------------------
(***************************************************************************)
(* Proofs about SupDemMap, for every size of the tables and every set of   *)
(* inputs its assumptions allow.                                           *)
(***************************************************************************)
EXTENDS SupDemMap, FiniteSetTheorems, TLAPS

(* The index sets and free cells are what the types say.                   *)
LEMMA CellFacts ==
  /\ -1 \notin Slots
  /\ FreeSupply.client_id = -1
  /\ FreeDemand.client_id = -1
  /\ FreeWatch \in WatchCell
  /\ NoAmount \in [Items -> Nat]
  BY SizesAssumption, InputsAssumption
  DEF Slots, FreeSupply, FreeDemand, FreeWatch, WatchCell, NoAmount

LEMMA MessageType ==
  ASSUME NEW c \in Slots, NEW k \in Kinds, NEW v \in [Items -> Nat]
  PROVE  Note(c, k, v) \in Message
  BY DEF Note, Message

(* The watchers of a supply can be counted, so a list of them is a         *)
(* sequence.                                                               *)
LEMMA ToldIsFinite ==
  ASSUME NEW i
  PROVE  Cardinality(Told(i)) \in Nat
<1>1. IsFiniteSet(WatchIdx)
  BY FS_Interval, SizesAssumption DEF WatchIdx
<1>2. Told(i) \subseteq WatchIdx
  BY DEF Told
<1>3. QED
  BY <1>1, <1>2, FS_Subset, FS_CardinalityType

-----------------------------------------------------------------------------
(* One lemma per conjunct that an action disturbs.                         *)

LEMMA WithoutWatchType ==
  ASSUME TypeOK, NEW c \in Slots
  PROVE  WithoutWatchOf(c) \in [WatchIdx -> WatchCell]
  BY DEF WithoutWatchOf, TypeOK, WatchCell

LEMMA LeftType ==
  ASSUME TypeOK, NEW j \in DemandIdx, NEW i \in SupplyIdx, check_case_match(j, i)
  PROVE  /\ demands[j] \in DemandCell
         /\ supplies[i] \in SupplyCell
         /\ Left(j, i) \in [Items -> Nat]
         /\ \A k \in Items : Left(j, i)[k] <= supplies[i].amount[k]
<1>1. demands[j] \in DemandCell /\ supplies[i] \in SupplyCell
  BY CellFacts DEF check_case_match, Used, TypeOK
<1>2. \A k \in Items : /\ demands[j].amount[k] \in Nat
                       /\ supplies[i].amount[k] \in Nat
                       /\ demands[j].amount[k] <= supplies[i].amount[k]
  BY <1>1 DEF check_case_match, DemandCell, SupplyCell
<1>3. QED
  BY <1>1, <1>2 DEF Left

LEMMA MatchType ==
  ASSUME TypeOK, NEW j \in DemandIdx, NEW i \in SupplyIdx,
         check_case_match(j, i), match_demand_and_supply(j, i)
  PROVE  /\ supplies' \in [SupplyIdx -> SupplyCell \cup {FreeSupply}]
         /\ demands' \in [DemandIdx -> DemandCell \cup {FreeDemand}]
         /\ out' \in Seq(Message)
<1>1. /\ demands[j] \in DemandCell
      /\ supplies[i] \in SupplyCell
      /\ Left(j, i) \in [Items -> Nat]
  BY LeftType
<1>2. demands' \in [DemandIdx -> DemandCell \cup {FreeDemand}]
  BY DEF match_demand_and_supply, TypeOK
<1>3. supplies' \in [SupplyIdx -> SupplyCell \cup {FreeSupply}]
  <2>1. CASE Exhausted(Left(j, i))
    BY <2>1 DEF match_demand_and_supply, TypeOK
  <2>2. CASE ~Exhausted(Left(j, i))
    <3>1. supplies' = [supplies EXCEPT ![i].amount = Left(j, i)]
      BY <2>2 DEF match_demand_and_supply
    <3>2. [supplies[i] EXCEPT !.amount = Left(j, i)] \in SupplyCell
      BY <1>1 DEF SupplyCell
    <3>3. QED
      BY <3>1, <3>2 DEF TypeOK
  <2>3. QED
    BY <2>1, <2>2
<1>4. out' \in Seq(Message)
  <2> DEFINE d == demands[j]
             s == supplies[i]
             m1 == Note(d.client_id, "fulfilled", d.amount)
             m2 == Note(s.client_id, "delivered", s.amount)
             m3 == Note(s.client_id, "removed", NoAmount)
  <2>1. m1 \in Message /\ m2 \in Message /\ m3 \in Message
    BY <1>1, MessageType, CellFacts DEF DemandCell, SupplyCell, Kinds
  <2>2. out' = <<m1, m2>> \/ out' = <<m1, m2, m3>>
    BY DEF match_demand_and_supply
  <2> HIDE DEF m1, m2, m3
  <2>3. <<m1, m2>> \in Seq(Message)
    BY <2>1
  <2>4. <<m1, m2, m3>> \in Seq(Message)
    BY <2>1
  <2>5. QED
    BY <2>2, <2>3, <2>4
<1>5. QED
  BY <1>2, <1>3, <1>4

LEMMA WatchEventsType ==
  ASSUME TypeOK, NEW i \in SupplyIdx,
         check_for_watch_events_on_new_supply(i)
  PROVE  out' \in Seq(Message)
<1>1. CASE ~Used(supplies, i)
  BY <1>1 DEF check_for_watch_events_on_new_supply, StillThere
<1>2. CASE Used(supplies, i)
  <2>1. PICK order \in [1 .. Cardinality(Told(i)) -> WatchIdx] :
          /\ InTableOrder(Told(i), order)
          /\ out' = [n \in DOMAIN order |->
                       Note(watches[order[n]].client_id, "inserted",
                            supplies[i].amount)]
    BY <1>2 DEF check_for_watch_events_on_new_supply, StillThere
  <2>2. Cardinality(Told(i)) \in Nat
    BY ToldIsFinite
  <2>3. supplies[i].amount \in [Items -> Nat]
    BY <1>2, CellFacts DEF TypeOK, Used, SupplyCell
  <2>4. \A n \in 1 .. Cardinality(Told(i)) : watches[order[n]].client_id \in Slots
    <3> SUFFICES ASSUME NEW n \in 1 .. Cardinality(Told(i))
                 PROVE  watches[order[n]].client_id \in Slots
      OBVIOUS
    <3>1. order[n] \in Told(i)
      BY <2>1 DEF InTableOrder
    <3>2. QED
      BY <3>1 DEF Told, Used, TypeOK, WatchCell
  <2>5. \A n \in 1 .. Cardinality(Told(i)) : out'[n] \in Message
    BY <2>1, <2>3, <2>4, MessageType DEF Kinds
  <2>6. out' \in [1 .. Cardinality(Told(i)) -> Message]
    BY <2>1, <2>5
  <2>7. QED
    BY <2>2, <2>6
<1>3. QED
  BY <1>1, <1>2

LEMMA InsertedTypes ==
  ASSUME TypeOK, NEW c \in Slots
  PROVE  /\ \A v \in DemandAmounts :
              [client_id |-> c, at |-> pos[c], amount |-> v] \in DemandCell
         /\ \A d \in SupplyDistances, v \in SupplyAmounts :
              [client_id |-> c, at |-> pos[c], amount |-> v, distance |-> d]
                \in SupplyCell
         /\ \A d \in WatchDistances :
              [client_id |-> c, at |-> pos[c], watch_id |-> d] \in WatchCell
  BY InputsAssumption DEF TypeOK, DemandCell, SupplyCell, WatchCell

-----------------------------------------------------------------------------
(* The tables, the slots, the positions and the scan's registers never     *)
(* hold anything their C objects could not.                                *)
LEMMA TypeInit == Init => TypeOK
  BY CellFacts, SizesAssumption, InputsAssumption
  DEF Init, TypeOK, Slots, SupplyIdx, DemandIdx, WatchIdx

LEMMA TypeStep == TypeOK /\ [Next]_vars => TypeOK'
<1> SUFFICES ASSUME TypeOK, [Next]_vars
             PROVE  TypeOK'
  OBVIOUS
<1> USE DEF TypeOK
<1>1. ASSUME NEW c \in Slots, register_client(c)
      PROVE  TypeOK'
  BY <1>1, InputsAssumption DEF register_client, tables
<1>2. ASSUME NEW c \in Slots, remove_client_resources(c)
      PROVE  TypeOK'
  <2>1. watches' \in [WatchIdx -> WatchCell]
    BY <1>2, WithoutWatchType DEF remove_client_resources, WithoutDemandsOf
  <2>2. QED
    BY <1>2, <2>1 DEF remove_client_resources, WithoutDemandsOf
<1>3. ASSUME NEW c \in Slots, NEW p \in Points, move_client(c, p)
      PROVE  TypeOK'
  BY <1>3 DEF move_client, tables
<1>4. ASSUME NEW c \in Slots, NEW d \in WatchDistances, add_new_watch(c, d)
      PROVE  TypeOK'
  <2>1. WithoutWatchOf(c) \in [WatchIdx -> WatchCell]
    BY WithoutWatchType
  <2>2. watches' \in [WatchIdx -> WatchCell]
    BY <1>4, <2>1, InsertedTypes DEF add_new_watch
  <2>3. QED
    BY <1>4, <2>2 DEF add_new_watch
<1>5. ASSUME NEW c \in Slots, remove_watch(c)
      PROVE  TypeOK'
  BY <1>5, WithoutWatchType DEF remove_watch
<1>6. ASSUME NEW c \in Slots, NEW v \in DemandAmounts, add_new_demand(c, v)
      PROVE  TypeOK'
  <2>1. demands' \in [DemandIdx -> DemandCell \cup {FreeDemand}]
    BY <1>6, InsertedTypes DEF add_new_demand, NoNewSupply
  <2>2. QED
    BY <1>6, <2>1, SizesAssumption DEF add_new_demand, NoNewSupply, StartScan, FirstRow
<1>7. ASSUME NEW c \in Slots, NEW d \in SupplyDistances, NEW v \in SupplyAmounts,
             add_new_supply(c, d, v)
      PROVE  TypeOK'
  <2>1. /\ supplies' \in [SupplyIdx -> SupplyCell \cup {FreeSupply}]
        /\ fresh' \in SupplyIdx \cup {-1}
    BY <1>7, InsertedTypes DEF add_new_supply
  <2>2. QED
    BY <1>7, <2>1, SizesAssumption DEF add_new_supply, StartScan, FirstRow
<1>8. CASE check_for_match
  <2>1. row \in DemandIdx /\ row' \in 0 .. MAX_DEMAND
    BY <1>8, SizesAssumption DEF check_for_match, DemandIdx
  <2>2. /\ supplies' \in [SupplyIdx -> SupplyCell \cup {FreeSupply}]
        /\ demands' \in [DemandIdx -> DemandCell \cup {FreeDemand}]
        /\ out' \in Seq(Message)
    <3>1. ASSUME NEW i \in SupplyIdx, FirstMatch(row, i),
                 match_demand_and_supply(row, i)
          PROVE  /\ supplies' \in [SupplyIdx -> SupplyCell \cup {FreeSupply}]
                 /\ demands' \in [DemandIdx -> DemandCell \cup {FreeDemand}]
                 /\ out' \in Seq(Message)
      <4> USE <3>1 DEF FirstMatch
      <4> HIDE DEF TypeOK
      <4> QED
        BY <2>1, MatchType
    <3>2. CASE \E i \in SupplyIdx : FirstMatch(row, i) /\ match_demand_and_supply(row, i)
      BY <3>1, <3>2
    <3>3. CASE out' = <<>> /\ UNCHANGED <<supplies, demands>>
      BY <3>3
    <3>4. QED
      BY <1>8, <3>2, <3>3 DEF check_for_match
  <2>3. QED
    BY <1>8, <2>1, <2>2 DEF check_for_match
<1>9. CASE end_command
  <2>1. out' \in Seq(Message)
    <3>1. CASE fresh = -1
      BY <1>9, <3>1 DEF end_command
    <3>2. CASE fresh # -1
      <4>1. fresh \in SupplyIdx /\ check_for_watch_events_on_new_supply(fresh)
        BY <1>9, <3>2 DEF end_command
      <4> HIDE DEF TypeOK
      <4>2. QED
        BY <4>1, WatchEventsType
    <3>3. QED
      BY <3>1, <3>2
  <2>2. QED
    BY <1>9, <2>1, SizesAssumption DEF end_command, tables
<1>10. CASE UNCHANGED vars
  BY <1>10 DEF vars, tables
<1>11. QED
  BY <1>1, <1>2, <1>3, <1>4, <1>5, <1>6, <1>7, <1>8, <1>9, <1>10 DEF Next

THEOREM TypeCorrect == Spec => []TypeOK
  BY TypeInit, TypeStep, PTL DEF Spec

-----------------------------------------------------------------------------
(* Serving a demand can only unmake matches: its own row matches nothing   *)
(* any more, and the supply has less than it had.                          *)
LEMMA MatchesShrink ==
  ASSUME TypeOK, NEW j \in DemandIdx, NEW i \in SupplyIdx,
         check_case_match(j, i), match_demand_and_supply(j, i),
         NEW l \in DemandIdx, NEW k \in SupplyIdx, check_case_match(l, k)'
  PROVE  l # j /\ check_case_match(l, k)
<1>1. /\ demands[j] \in DemandCell
      /\ supplies[i] \in SupplyCell
      /\ Left(j, i) \in [Items -> Nat]
      /\ \A x \in Items : Left(j, i)[x] <= supplies[i].amount[x]
  BY LeftType
<1>2. demands' = [demands EXCEPT ![j] = FreeDemand]
  BY DEF match_demand_and_supply
<1>3. l # j /\ demands'[l] = demands[l]
  BY <1>2, CellFacts DEF check_case_match, Used, TypeOK
<1>4. CASE k # i
  <2>1. supplies'[k] = supplies[k]
    BY <1>4 DEF match_demand_and_supply, TypeOK
  <2>2. QED
    BY <1>3, <2>1 DEF check_case_match, Used
<1>5. CASE k = i
  <2>1. ~Exhausted(Left(j, i))
    BY <1>5, CellFacts DEF match_demand_and_supply, TypeOK, check_case_match, Used
  <2>2. supplies' = [supplies EXCEPT ![i].amount = Left(j, i)]
    BY <2>1 DEF match_demand_and_supply
  <2>3. /\ supplies'[k].amount = Left(j, i)
        /\ supplies'[k].client_id = supplies[i].client_id
        /\ supplies'[k].at = supplies[i].at
        /\ supplies'[k].distance = supplies[i].distance
    BY <1>5, <1>1, <2>2 DEF TypeOK, SupplyCell
  <2>4. demands[l] \in DemandCell
    BY <1>3, CellFacts DEF check_case_match, Used, TypeOK
  <2>5. \A x \in Items : supplies[i].amount[x] >= demands[l].amount[x]
    <3>1. \A x \in Items : Left(j, i)[x] >= demands[l].amount[x]
      BY <1>3, <2>3 DEF check_case_match
    <3>2. \A x \in Items : /\ Left(j, i)[x] \in Nat
                           /\ demands[l].amount[x] \in Nat
                           /\ supplies[i].amount[x] \in Nat
      BY <1>1, <2>4 DEF SupplyCell, DemandCell
    <3>3. QED
      BY <1>1, <3>1, <3>2
  <2>6. QED
    BY <1>3, <1>5, <2>3, <2>5 DEF check_case_match, Used
<1>6. QED
  BY <1>4, <1>5

-----------------------------------------------------------------------------
(* A scan in progress has settled the rows behind it; a row it has passed  *)
(* cannot match again, because serving later rows only unmakes matches.    *)
RowsBehindSettled ==
  pc = "match" =>
    \A j \in DemandIdx, i \in SupplyIdx : j < row => ~check_case_match(j, i)

(* At most the newcomer can match, stated with the newcomer's row named.   *)
NewcomerNamed ==
  pc = "match" =>
    IF fresh # -1
    THEN \A j \in DemandIdx, i \in SupplyIdx : check_case_match(j, i) => i = fresh
    ELSE \E n \in DemandIdx : \A j \in DemandIdx, i \in SupplyIdx :
           check_case_match(j, i) => j = n

MatchInv == NoPendingMatch /\ RowsBehindSettled /\ NewcomerNamed

(* Nothing but the tables decides what matches.                            *)
LEMMA MatchesFromTables ==
  ASSUME UNCHANGED <<supplies, demands>>, NEW j \in DemandIdx, NEW i \in SupplyIdx
  PROVE  check_case_match(j, i)' <=> check_case_match(j, i)
  BY DEF check_case_match, Used

(* Emptying a cell can only unmake matches.                                *)
LEMMA RemovalShrinks ==
  ASSUME NEW j \in DemandIdx, NEW i \in SupplyIdx,
         supplies'[i] \in {supplies[i], FreeSupply},
         demands'[j] \in {demands[j], FreeDemand},
         check_case_match(j, i)'
  PROVE  check_case_match(j, i)
  BY CellFacts DEF check_case_match, Used

LEMMA MatchStep == TypeOK /\ MatchInv /\ [Next]_vars => MatchInv'
<1> SUFFICES ASSUME TypeOK, MatchInv, [Next]_vars
             PROVE  MatchInv'
  OBVIOUS
<1>a. ASSUME UNCHANGED <<supplies, demands, pc, row, fresh>>
      PROVE  MatchInv'
  <2>1. \A j \in DemandIdx, i \in SupplyIdx :
          check_case_match(j, i)' <=> check_case_match(j, i)
    BY <1>a, MatchesFromTables
  <2>2. QED
    BY <1>a, <2>1 DEF MatchInv, NoPendingMatch, RowsBehindSettled, NewcomerNamed
<1>1. ASSUME NEW c \in Slots, register_client(c)
      PROVE  MatchInv'
  BY <1>1, <1>a DEF register_client, tables
<1>2. ASSUME NEW c \in Slots, remove_client_resources(c)
      PROVE  MatchInv'
  <2>1. pc = "free" /\ pc' = "free"
    BY <1>2 DEF remove_client_resources, WithoutDemandsOf
  <2>2. \A j \in DemandIdx, i \in SupplyIdx :
          /\ supplies'[i] \in {supplies[i], FreeSupply}
          /\ demands'[j] \in {demands[j], FreeDemand}
    BY <1>2 DEF remove_client_resources, WithoutDemandsOf
  <2>3. \A j \in DemandIdx, i \in SupplyIdx : ~check_case_match(j, i)'
    BY <2>1, <2>2, RemovalShrinks DEF MatchInv, NoPendingMatch
  <2>4. QED
    BY <2>1, <2>3 DEF MatchInv, NoPendingMatch, RowsBehindSettled, NewcomerNamed
<1>3. ASSUME NEW c \in Slots, NEW p \in Points, move_client(c, p)
      PROVE  MatchInv'
  BY <1>3, <1>a DEF move_client, tables
<1>4. ASSUME NEW c \in Slots, NEW d \in WatchDistances, add_new_watch(c, d)
      PROVE  MatchInv'
  BY <1>4, <1>a DEF add_new_watch
<1>5. ASSUME NEW c \in Slots, remove_watch(c)
      PROVE  MatchInv'
  BY <1>5, <1>a DEF remove_watch
<1>6. ASSUME NEW c \in Slots, NEW v \in DemandAmounts, add_new_demand(c, v)
      PROVE  MatchInv'
  <2>1. pc = "free" /\ pc' = "match" /\ row' = 0 /\ fresh' = -1
    BY <1>6 DEF add_new_demand, NoNewSupply, StartScan, FirstRow
  <2>2. \A j \in DemandIdx, i \in SupplyIdx : ~check_case_match(j, i)
    BY <2>1 DEF MatchInv, NoPendingMatch
  <2>3. \E n \in DemandIdx : \A j \in DemandIdx, i \in SupplyIdx :
          check_case_match(j, i)' => j = n
    <3>1. PICK n \in DemandIdx : \A j \in DemandIdx : j # n => demands'[j] = demands[j]
      BY <1>6, SizesAssumption DEF add_new_demand, NoNewSupply, DemandIdx, TypeOK
    <3>2. supplies' = supplies
      BY <1>6 DEF add_new_demand, NoNewSupply
    <3>3. ASSUME NEW j \in DemandIdx, NEW i \in SupplyIdx,
                 check_case_match(j, i)', j # n
          PROVE  FALSE
      BY <2>2, <3>1, <3>2, <3>3, RemovalShrinks
    <3>4. QED
      BY <3>3
  <2>4. QED
    BY <2>1, <2>3 DEF MatchInv, NoPendingMatch, RowsBehindSettled, NewcomerNamed,
                      DemandIdx
<1>7. ASSUME NEW c \in Slots, NEW d \in SupplyDistances, NEW v \in SupplyAmounts,
             add_new_supply(c, d, v)
      PROVE  MatchInv'
  <2>1. pc = "free" /\ pc' = "match" /\ row' = 0 /\ demands' = demands
    BY <1>7 DEF add_new_supply, StartScan, FirstRow
  <2>2. \A j \in DemandIdx, i \in SupplyIdx : ~check_case_match(j, i)
    BY <2>1 DEF MatchInv, NoPendingMatch
  <2>3. \A i \in SupplyIdx : i # fresh' => supplies'[i] = supplies[i]
    BY <1>7 DEF add_new_supply, TypeOK
  <2>4. \A j \in DemandIdx, i \in SupplyIdx : check_case_match(j, i)' => i = fresh'
    BY <2>1, <2>2, <2>3, RemovalShrinks
  <2>5. fresh' = -1 => \A j \in DemandIdx, i \in SupplyIdx : ~check_case_match(j, i)'
    BY <2>4 DEF SupplyIdx
  <2>6. 0 \in DemandIdx
    BY SizesAssumption DEF DemandIdx
  <2>7. QED
    BY <2>1, <2>4, <2>5, <2>6
    DEF MatchInv, NoPendingMatch, RowsBehindSettled, NewcomerNamed, DemandIdx
<1>8. CASE check_for_match
  <2>1. /\ pc = "match" /\ pc' = "match" /\ fresh' = fresh
        /\ row \in DemandIdx /\ row' = row + 1
    BY <1>8, SizesAssumption DEF check_for_match, DemandIdx, TypeOK
  <2>2. ASSUME NEW j \in DemandIdx, NEW i \in SupplyIdx, check_case_match(j, i)'
        PROVE  j # row /\ check_case_match(j, i)
    <3>1. ASSUME NEW k \in SupplyIdx, FirstMatch(row, k),
                 match_demand_and_supply(row, k)
          PROVE  j # row /\ check_case_match(j, i)
      <4>1. check_case_match(row, k)
        BY <3>1 DEF FirstMatch
      <4>2. QED
        BY <2>1, <2>2, <3>1, <4>1, MatchesShrink
    <3>2. ASSUME \A k \in SupplyIdx : ~check_case_match(row, k),
                 UNCHANGED <<supplies, demands>>
          PROVE  j # row /\ check_case_match(j, i)
      <4>1. check_case_match(j, i)
        BY <2>2, <3>2, MatchesFromTables
      <4>2. QED
        BY <3>2, <4>1
    <3>3. QED
      BY <1>8, <3>1, <3>2 DEF check_for_match
  <2>3. RowsBehindSettled'
    <3>1. ASSUME NEW j \in DemandIdx, NEW i \in SupplyIdx, j < row + 1,
                 check_case_match(j, i)'
          PROVE  FALSE
      <4>1. j # row /\ check_case_match(j, i)
        BY <2>2, <3>1
      <4>2. j < row
        BY <2>1, <3>1, <4>1 DEF DemandIdx
      <4>3. QED
        BY <2>1, <4>1, <4>2 DEF MatchInv, RowsBehindSettled
    <3>2. QED
      BY <2>1, <3>1 DEF RowsBehindSettled
  <2>4. NewcomerNamed'
    BY <2>1, <2>2 DEF MatchInv, NewcomerNamed
  <2>5. QED
    BY <2>1, <2>3, <2>4 DEF MatchInv, NoPendingMatch
<1>9. CASE end_command
  <2>1. pc = "match" /\ pc' = "free" /\ row = MAX_DEMAND
    BY <1>9 DEF end_command
  <2>2. \A j \in DemandIdx, i \in SupplyIdx : ~check_case_match(j, i)
    BY <2>1, SizesAssumption DEF MatchInv, RowsBehindSettled, DemandIdx
  <2>3. UNCHANGED <<supplies, demands>>
    BY <1>9 DEF end_command, tables
  <2>4. QED
    BY <2>1, <2>2, <2>3, MatchesFromTables
    DEF MatchInv, NoPendingMatch, RowsBehindSettled, NewcomerNamed
<1>10. CASE UNCHANGED vars
  BY <1>10, <1>a DEF vars, tables
<1>11. QED
  BY <1>1, <1>2, <1>3, <1>4, <1>5, <1>6, <1>7, <1>8, <1>9, <1>10 DEF Next

LEMMA MatchInit == Init => MatchInv
  BY CellFacts
  DEF Init, MatchInv, NoPendingMatch, RowsBehindSettled, NewcomerNamed,
      check_case_match, Used

(* Between commands no demand on the map can be served: the scan each      *)
(* demand and supply command starts is complete.                           *)
THEOREM NoMatchLeftBehind == Spec => []NoPendingMatch
<1>1. MatchInv => NoPendingMatch
  BY DEF MatchInv
<1>2. QED
  BY <1>1, MatchInit, MatchStep, TypeCorrect, PTL DEF Spec

(* A scan serves only the demand or only from the supply that started it.  *)
THEOREM ScanServesTheNewcomer == Spec => []OnlyTheNewcomerMatches
<1>1. MatchInv => OnlyTheNewcomerMatches
  BY DEF MatchInv, NewcomerNamed, OnlyTheNewcomerMatches
<1>2. QED
  BY <1>1, MatchInit, MatchStep, TypeCorrect, PTL DEF Spec

-----------------------------------------------------------------------------
(* The refinement: for every choice of the constants, commands that post,  *)
(* the rows of a scan that serve and the departures are Market steps, and  *)
(* everything else leaves the market alone.                                *)

Offers == [i \in SupplyIdx |-> AsOffer(supplies[i])]
Wants  == [j \in DemandIdx |-> AsWant(demands[j])]

LEMMA EmptyCells ==
  /\ AsOffer(FreeSupply) = Map!None
  /\ AsWant(FreeDemand) = Map!None
  BY CellFacts DEF AsOffer, AsWant, Map!None

LEMMA SupplyShown ==
  ASSUME NEW s \in SupplyCell
  PROVE  AsOffer(s) = [owner |-> s.client_id, site |-> s.at, stock |-> s.amount,
                       reach |-> s.distance]
  BY CellFacts DEF AsOffer, SupplyCell

LEMMA DemandShown ==
  ASSUME NEW d \in DemandCell
  PROVE  AsWant(d) = [owner |-> d.client_id, site |-> d.at, stock |-> d.amount]
  BY CellFacts DEF AsWant, DemandCell

(* The comparisons of check_case_match are Market's.                       *)
LEMMA MatchFits ==
  ASSUME TypeOK, NEW j \in DemandIdx, NEW i \in SupplyIdx, check_case_match(j, i)
  PROVE  /\ Offers[i] # Map!None
         /\ Wants[j] # Map!None
         /\ Map!Fits(Wants[j], Offers[i])
<1>1. demands[j] \in DemandCell /\ supplies[i] \in SupplyCell
  BY LeftType
<1>2. Offers[i] = [owner |-> supplies[i].client_id, site |-> supplies[i].at,
                   stock |-> supplies[i].amount, reach |-> supplies[i].distance]
  BY <1>1, SupplyShown DEF Offers
<1>3. Wants[j] = [owner |-> demands[j].client_id, site |-> demands[j].at,
                  stock |-> demands[j].amount]
  BY <1>1, DemandShown DEF Wants
<1>4. Offers[i].owner # -1 /\ Wants[j].owner # -1
  BY <1>1, <1>2, <1>3, CellFacts DEF SupplyCell, DemandCell
<1>5. Map!Apart(demands[j].at, supplies[i].at)
        = manhattan_distance(demands[j].at, supplies[i].at)
  BY DEF Map!Apart, Map!Magnitude, manhattan_distance, abs
<1>6. \A k \in Items : demands[j].amount[k] <= supplies[i].amount[k]
  <2>1. \A k \in Items : demands[j].amount[k] \in Nat /\ supplies[i].amount[k] \in Nat
    BY <1>1 DEF DemandCell, SupplyCell
  <2>2. QED
    BY <2>1 DEF check_case_match
<1>7. Map!Fits(Wants[j], Offers[i])
  BY <1>2, <1>3, <1>5, <1>6 DEF Map!Fits, check_case_match
<1>8. QED
  BY <1>4, <1>7 DEF Map!None

(* One served row of the scan is one Serve.                                *)
LEMMA MatchServes ==
  ASSUME TypeOK, NEW j \in DemandIdx, NEW i \in SupplyIdx,
         check_case_match(j, i), match_demand_and_supply(j, i)
  PROVE  Map!Serve(j, i)
<1>1. /\ demands[j] \in DemandCell
      /\ supplies[i] \in SupplyCell
      /\ Left(j, i) \in [Items -> Nat]
  BY LeftType
<1>2. Wants' = [Wants EXCEPT ![j] = Map!None]
  BY EmptyCells DEF match_demand_and_supply, Wants, TypeOK
<1>3. Offers[i] = [owner |-> supplies[i].client_id, site |-> supplies[i].at,
                   stock |-> supplies[i].amount, reach |-> supplies[i].distance]
  BY <1>1, SupplyShown DEF Offers
<1>4. Wants[j].stock = demands[j].amount
  BY <1>1, DemandShown DEF Wants
<1>5. Map!Remainder(Offers[i], Wants[j])
        = IF Exhausted(Left(j, i)) THEN Map!None
          ELSE [Offers[i] EXCEPT !.stock = Left(j, i)]
  BY <1>3, <1>4 DEF Map!Remainder, Exhausted, Left
<1>6. Offers' = [Offers EXCEPT ![i] = Map!Remainder(Offers[i], Wants[j])]
  <2>1. CASE Exhausted(Left(j, i))
    <3>1. supplies' = [supplies EXCEPT ![i] = FreeSupply]
      BY <2>1 DEF match_demand_and_supply
    <3>2. QED
      BY <2>1, <3>1, <1>5, EmptyCells DEF Offers, TypeOK
  <2>2. CASE ~Exhausted(Left(j, i))
    <3>1. supplies' = [supplies EXCEPT ![i].amount = Left(j, i)]
      BY <2>2 DEF match_demand_and_supply
    <3>2. supplies'[i] = [client_id |-> supplies[i].client_id, at |-> supplies[i].at,
                          amount |-> Left(j, i), distance |-> supplies[i].distance]
      BY <1>1, <3>1 DEF TypeOK, SupplyCell
    <3>3. supplies'[i] \in SupplyCell
      BY <1>1, <3>2 DEF SupplyCell
    <3>4. AsOffer(supplies'[i]) = [Offers[i] EXCEPT !.stock = Left(j, i)]
      BY <1>3, <3>2, <3>3, SupplyShown
    <3>5. \A k \in SupplyIdx : k # i => supplies'[k] = supplies[k]
      BY <3>1 DEF TypeOK
    <3>6. QED
      BY <1>5, <2>2, <3>4, <3>5 DEF Offers
  <2>3. QED
    BY <2>1, <2>2
<1>7. QED
  BY <1>2, <1>6, MatchFits DEF Map!Serve, Offers, Wants

LEMMA DepartureLeaves ==
  ASSUME TypeOK, NEW c \in Slots, remove_client_resources(c)
  PROVE  Map!Leave(c)
<1>1. \A i \in SupplyIdx : Offers[i].owner = supplies[i].client_id
  BY DEF Offers, AsOffer
<1>2. \A j \in DemandIdx : Wants[j].owner = demands[j].client_id
  BY DEF Wants, AsWant
<1>3. Offers' = [i \in SupplyIdx |-> IF Offers[i].owner = c THEN Map!None ELSE Offers[i]]
  BY <1>1, EmptyCells DEF remove_client_resources, WithoutDemandsOf, Offers
<1>4. Wants' = [j \in DemandIdx |-> IF Wants[j].owner = c THEN Map!None ELSE Wants[j]]
  BY <1>2, EmptyCells DEF remove_client_resources, WithoutDemandsOf, Wants
<1>5. QED
  BY <1>3, <1>4 DEF Map!Leave, Offers, Wants

LEMMA DemandPosts ==
  ASSUME TypeOK, NEW c \in Slots, NEW v \in DemandAmounts, add_new_demand(c, v)
  PROVE  (\E j \in DemandIdx : Map!PostWant(j)) \/ UNCHANGED <<Offers, Wants>>
<1>1. CASE UNCHANGED demands
  BY <1>1 DEF add_new_demand, NoNewSupply, Offers, Wants
<1>2. ASSUME NEW j \in DemandIdx, FirstFree(demands, j),
             demands' = [demands EXCEPT ![j] =
                           [client_id |-> c, at |-> pos[c], amount |-> v]]
      PROVE  Map!PostWant(j)
  <2> DEFINE d == [client_id |-> c, at |-> pos[c], amount |-> v]
  <2>1. d \in DemandCell /\ demands'[j] = d
    BY <1>2, InsertedTypes DEF TypeOK
  <2>2. demands[j] = FreeDemand
    BY <1>2, CellFacts DEF FirstFree, Used, TypeOK, DemandCell
  <2>3. Wants[j] = Map!None
    BY <2>2, EmptyCells DEF Wants
  <2>4. Wants'[j] = [owner |-> c, site |-> pos[c], stock |-> v]
    BY <2>1, DemandShown DEF Wants
  <2>5. Wants'[j] \in Map!Want
    BY <2>4, InputsAssumption DEF Map!Want, Map!Stock, TypeOK
  <2>6. Wants' = [Wants EXCEPT ![j] = Wants'[j]]
    BY <1>2 DEF Wants, TypeOK
  <2>7. Offers' = Offers
    BY DEF add_new_demand, NoNewSupply, Offers
  <2>8. QED
    BY <2>3, <2>5, <2>6, <2>7 DEF Map!PostWant, Offers, Wants
<1>3. QED
  BY <1>1, <1>2 DEF add_new_demand, NoNewSupply

LEMMA SupplyPosts ==
  ASSUME TypeOK, NEW c \in Slots, NEW r \in SupplyDistances, NEW v \in SupplyAmounts,
         add_new_supply(c, r, v)
  PROVE  (\E i \in SupplyIdx : Map!PostOffer(i)) \/ UNCHANGED <<Offers, Wants>>
<1>1. CASE UNCHANGED supplies
  BY <1>1 DEF add_new_supply, Offers, Wants
<1>2. ASSUME NEW i \in SupplyIdx, FirstFree(supplies, i),
             supplies' = [supplies EXCEPT ![i] =
                            [client_id |-> c, at |-> pos[c], amount |-> v,
                             distance |-> r]]
      PROVE  Map!PostOffer(i)
  <2> DEFINE s == [client_id |-> c, at |-> pos[c], amount |-> v, distance |-> r]
  <2>1. s \in SupplyCell /\ supplies'[i] = s
    BY <1>2, InsertedTypes DEF TypeOK
  <2>2. supplies[i] = FreeSupply
    BY <1>2, CellFacts DEF FirstFree, Used, TypeOK, SupplyCell
  <2>3. Offers[i] = Map!None
    BY <2>2, EmptyCells DEF Offers
  <2>4. Offers'[i] = [owner |-> c, site |-> pos[c], stock |-> v, reach |-> r]
    BY <2>1, SupplyShown DEF Offers
  <2>5. Offers'[i] \in Map!Offer
    BY <2>4, InputsAssumption DEF Map!Offer, Map!Stock, TypeOK
  <2>6. Offers' = [Offers EXCEPT ![i] = Offers'[i]]
    BY <1>2 DEF Offers, TypeOK
  <2>7. Wants' = Wants
    BY DEF add_new_supply, Wants
  <2>8. QED
    BY <2>3, <2>5, <2>6, <2>7 DEF Map!PostOffer, Offers, Wants
<1>3. QED
  BY <1>1, <1>2 DEF add_new_supply

LEMMA StepRefines ==
  ASSUME TypeOK, [Next]_vars
  PROVE  Map!Next \/ UNCHANGED <<Offers, Wants>>
<1>1. CASE UNCHANGED <<supplies, demands>>
  BY <1>1 DEF Offers, Wants
<1>2. ASSUME NEW c \in Slots, remove_client_resources(c)
      PROVE  Map!Next
  BY <1>2, DepartureLeaves DEF Map!Next
<1>3. ASSUME NEW c \in Slots, NEW v \in DemandAmounts, add_new_demand(c, v)
      PROVE  Map!Next \/ UNCHANGED <<Offers, Wants>>
  BY <1>3, DemandPosts DEF Map!Next
<1>4. ASSUME NEW c \in Slots, NEW d \in SupplyDistances, NEW v \in SupplyAmounts,
             add_new_supply(c, d, v)
      PROVE  Map!Next \/ UNCHANGED <<Offers, Wants>>
  BY <1>4, SupplyPosts DEF Map!Next
<1>5. CASE check_for_match
  <2>1. row \in DemandIdx
    BY <1>5, SizesAssumption DEF check_for_match, DemandIdx, TypeOK
  <2>2. ASSUME NEW i \in SupplyIdx, FirstMatch(row, i), match_demand_and_supply(row, i)
        PROVE  Map!Next
    BY <2>1, <2>2, MatchServes DEF Map!Next, FirstMatch
  <2>3. QED
    BY <1>1, <1>5, <2>2 DEF check_for_match
<1>6. QED
  BY <1>1, <1>2, <1>3, <1>4, <1>5
  DEF Next, vars, tables, register_client, move_client, add_new_watch, remove_watch,
      end_command

(* Every behaviour of the tables is a behaviour of the abstract market:    *)
(* no step of a scan, a removal or an insertion does anything a client     *)
(* could not have been promised.                                           *)
THEOREM MapImplementsMarket == Spec => ImplementsMarket
<1>1. Init => Map!Init
  BY EmptyCells DEF Init, Map!Init
<1>2. TypeOK /\ [Next]_vars => [Map!Next]_<<Offers, Wants>>
  BY StepRefines
<1>3. QED
  BY <1>1, <1>2, TypeCorrect, PTL DEF Spec, ImplementsMarket, Map!Spec, Offers, Wants

=============================================================================
