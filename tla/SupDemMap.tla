----------------------------- MODULE SupDemMap -----------------------------
(***************************************************************************)
(* The shared map of hw1/supdemserv.c: the tables of supplies, demands and *)
(* watches in shared memory and every command that changes them.           *)
(*                                                                         *)
(* A command runs with shm->mutex held from its first to its last step.    *)
(* The scan of check_for_match is one step per demand (the inner loop over *)
(* the supplies serves that demand from at most one of them, since a       *)
(* served demand is removed), so the invariants also see the map half way  *)
(* through a scan.  What enqueue_notification does with a message, and     *)
(* everything about processes, threads and locks, is in AgentPool and      *)
(* NotifyRing; here `out' is the list of the calls the last step made.     *)
(***************************************************************************)
EXTENDS Integers, Sequences, FiniteSets

CONSTANTS
  MAX_CLIENTS, MAX_SUPPLY, MAX_DEMAND, MAX_WATCH,  \* the table sizes
  Points,             \* the positions <<x, y>> a client may move to
  DemandAmounts,      \* the item vectors a demand command may name
  SupplyAmounts,      \* the item vectors a supply command may name
  SupplyDistances,    \* the distances a supply command may name
  WatchDistances      \* the distances a watch command may name

(* The three kinds of item, a_amount, b_amount and c_amount.               *)
Items == {"a", "b", "c"}

Origin == <<0, 0>>

ASSUME SizesAssumption ==
  /\ MAX_CLIENTS \in Nat \ {0}
  /\ MAX_SUPPLY \in Nat \ {0}
  /\ MAX_DEMAND \in Nat \ {0}
  /\ MAX_WATCH \in Nat \ {0}

(* The program sets MAX_WATCH = MAX_CLIENTS.                               *)
ASSUME WatchRoomAssumption == MAX_CLIENTS <= MAX_WATCH

(* Amounts are not checked by the server; the assignment text tells it not *)
(* to ("You do not have to handle error cases"), so clients send no        *)
(* negative ones.  Distances may be anything.                              *)
ASSUME InputsAssumption ==
  /\ Points \subseteq Int \X Int
  /\ Origin \in Points
  /\ DemandAmounts \subseteq [Items -> Nat]
  /\ SupplyAmounts \subseteq [Items -> Nat]
  /\ SupplyDistances \subseteq Int
  /\ WatchDistances \subseteq Int

Slots     == 0 .. MAX_CLIENTS - 1
SupplyIdx == 0 .. MAX_SUPPLY - 1
DemandIdx == 0 .. MAX_DEMAND - 1
WatchIdx  == 0 .. MAX_WATCH - 1

VARIABLES
  supplies, demands, watches,   \* the tables; client_id = -1 marks a free cell
  live,     \* the slots i with clients[i].client_socket # -1
  pos,      \* clients[i].x and clients[i].y
  pc,       \* "free": shm->mutex is free; "match": its holder is in check_for_match
  cur,      \* client_id of the command thread in check_for_match, -1 if none
  row,      \* j of its outer loop
  fresh,    \* its new_supply_index, -1 after a demand command
  out       \* the enqueue_notification calls of the last step, in order

tables == <<supplies, demands, watches>>
vars   == <<supplies, demands, watches, live, pos, pc, cur, row, fresh, out>>

-----------------------------------------------------------------------------
NoAmount == [k \in Items |-> 0]

(* The cells as memset and client_id = -1 leave them.                      *)
FreeSupply == [client_id |-> -1, at |-> Origin, amount |-> NoAmount, distance |-> 0]
FreeDemand == [client_id |-> -1, at |-> Origin, amount |-> NoAmount]
FreeWatch  == [client_id |-> -1, at |-> Origin, watch_id |-> 0]

SupplyCell == [client_id : Slots, at : Points, amount : [Items -> Nat],
               distance : Int]
DemandCell == [client_id : Slots, at : Points, amount : [Items -> Nat]]
WatchCell  == [client_id : Slots \cup {-1}, at : Points, watch_id : Int]

Kinds   == {"fulfilled", "delivered", "removed", "inserted"}
Message == [to : Slots, kind : Kinds, amount : [Items -> Nat]]

Used(table, i) == table[i].client_id # -1

(* The cell a `for (i = 0; ...; i++) if (client_id == -1) ... break' finds. *)
FirstFree(table, i) ==
  /\ ~Used(table, i)
  /\ \A k \in DOMAIN table : k < i => Used(table, k)

Full(table) == \A i \in DOMAIN table : Used(table, i)

abs(n) == IF n < 0 THEN -n ELSE n

manhattan_distance(p, q) == abs(p[1] - q[1]) + abs(p[2] - q[2])

check_case_match(j, i) ==
  /\ Used(demands, j)
  /\ Used(supplies, i)
  /\ manhattan_distance(demands[j].at, supplies[i].at) < supplies[i].distance
  /\ \A k \in Items : supplies[i].amount[k] >= demands[j].amount[k]

Init ==
  /\ supplies = [i \in SupplyIdx |-> FreeSupply]
  /\ demands  = [j \in DemandIdx |-> FreeDemand]
  /\ watches  = [w \in WatchIdx |-> FreeWatch]
  /\ live = {}
  /\ pos  = [c \in Slots |-> Origin]
  /\ pc = "free" /\ cur = -1 /\ row = 0 /\ fresh = -1
  /\ out = <<>>

-----------------------------------------------------------------------------
(* Arrival and departure of a client's agent.                              *)

(* With no free slot the loop of register_client falls through and the map *)
(* is left alone; AgentPool has that case.                                 *)
register_client(c) ==
  /\ pc = "free"
  /\ c \notin live
  /\ \A d \in Slots : d < c => d \in live
  /\ live' = live \cup {c}
  /\ pos'  = [pos EXCEPT ![c] = Origin]
  /\ out'  = <<>>
  /\ UNCHANGED <<tables, pc, cur, row, fresh>>

(* Mutant: the loop over the watches is forgotten.                         *)
WatchesKept(c) == watches

(* Watches keep their position: only client_id and watch_id are reset.     *)
WithoutWatchOf(c) ==
  [w \in WatchIdx |->
     IF watches[w].client_id = c
     THEN [client_id |-> -1, at |-> watches[w].at, watch_id |-> 0]
     ELSE watches[w]]

(* Mutant: the loop over the demands is forgotten.                         *)
DemandsKept(c) == demands

WithoutDemandsOf(c) ==
  [j \in DemandIdx |-> IF demands[j].client_id = c THEN FreeDemand ELSE demands[j]]

remove_client_resources(c) ==
  /\ pc = "free"
  /\ c \in live
  /\ supplies' = [i \in SupplyIdx |-> IF supplies[i].client_id = c
                                      THEN FreeSupply ELSE supplies[i]]
  /\ demands'  = WithoutDemandsOf(c)
  /\ watches'  = WithoutWatchOf(c)
  /\ live' = live \ {c}
  /\ out'  = <<>>
  /\ UNCHANGED <<pos, pc, cur, row, fresh>>

-----------------------------------------------------------------------------
(* The commands that finish in one step.                                   *)

move_client(c, p) ==
  /\ pc = "free"
  /\ c \in live
  /\ pos' = [pos EXCEPT ![c] = p]
  /\ out' = <<>>
  /\ UNCHANGED <<tables, live, pc, cur, row, fresh>>

(* The old watch of the client goes first, so its cell can be the new one. *)
add_new_watch(c, d) ==
  /\ pc = "free"
  /\ c \in live
  /\ LET cleared == WithoutWatchOf(c)
     IN  \/ \E w \in WatchIdx :
              /\ FirstFree(cleared, w)
              /\ watches' = [cleared EXCEPT ![w] =
                               [client_id |-> c, at |-> pos[c], watch_id |-> d]]
         \/ /\ Full(cleared)
            /\ watches' = cleared
  /\ out' = <<>>
  /\ UNCHANGED <<supplies, demands, live, pos, pc, cur, row, fresh>>

remove_watch(c) ==
  /\ pc = "free"
  /\ c \in live
  /\ watches' = WithoutWatchOf(c)
  /\ out' = <<>>
  /\ UNCHANGED <<supplies, demands, live, pos, pc, cur, row, fresh>>

-----------------------------------------------------------------------------
(* demand and supply: insert, then scan every demand against every supply. *)

(* Mutant: the outer loop starts past its first demand.                    *)
SecondRow == 1

FirstRow == 0

StartScan(c) ==
  /\ pc'  = "match"
  /\ cur' = c
  /\ row' = FirstRow
  /\ out' = <<>>

(* What new_supply_index is when no supply was inserted.                   *)
NoNewSupply == -1

add_new_demand(c, v) ==
  /\ pc = "free"
  /\ c \in live
  /\ \/ \E j \in DemandIdx :
          /\ FirstFree(demands, j)
          /\ demands' = [demands EXCEPT ![j] =
                           [client_id |-> c, at |-> pos[c], amount |-> v]]
     \/ /\ Full(demands)          \* dropped; the client is told OK all the same
        /\ UNCHANGED demands
  /\ fresh' = NoNewSupply
  /\ StartScan(c)
  /\ UNCHANGED <<supplies, watches, live, pos>>

add_new_supply(c, d, v) ==
  /\ pc = "free"
  /\ c \in live
  /\ \/ \E i \in SupplyIdx :
          /\ FirstFree(supplies, i)
          /\ supplies' = [supplies EXCEPT ![i] =
                            [client_id |-> c, at |-> pos[c], amount |-> v,
                             distance |-> d]]
          /\ fresh' = i
     \/ /\ Full(supplies)
        /\ UNCHANGED supplies
        /\ fresh' = -1
  /\ StartScan(c)
  /\ UNCHANGED <<demands, watches, live, pos>>

(* The first supply the inner loop finds for demand j.                     *)
FirstMatch(j, i) ==
  /\ check_case_match(j, i)
  /\ \A k \in SupplyIdx : k < i => ~check_case_match(j, k)

(* Mutant: the operands of the subtraction change places.                  *)
LeftSwapped(j, i) == [k \in Items |-> demands[j].amount[k] - supplies[i].amount[k]]

Left(j, i) == [k \in Items |-> supplies[i].amount[k] - demands[j].amount[k]]

(* Mutant: a supply is taken for used up when one of its items is.         *)
ExhaustedAny(v) == \E k \in Items : v[k] = 0

Exhausted(v) == \A k \in Items : v[k] = 0

Note(c, kind, v) == [to |-> c, kind |-> kind, amount |-> v]

match_demand_and_supply(j, i) ==
  LET d == demands[j]
      s == supplies[i]
      fulfilled == Note(d.client_id, "fulfilled", d.amount)
      delivered == Note(s.client_id, "delivered", s.amount)
      removed   == Note(s.client_id, "removed", NoAmount)
  IN  /\ demands' = [demands EXCEPT ![j] = FreeDemand]
      /\ IF Exhausted(Left(j, i))
         THEN /\ supplies' = [supplies EXCEPT ![i] = FreeSupply]
              /\ out' = <<fulfilled, delivered, removed>>
         ELSE /\ supplies' = [supplies EXCEPT ![i].amount = Left(j, i)]
              /\ out' = <<fulfilled, delivered>>

(* One iteration of the outer loop of check_for_match.                     *)
check_for_match ==
  /\ pc = "match"
  /\ row < MAX_DEMAND
  /\ \/ \E i \in SupplyIdx : FirstMatch(row, i) /\ match_demand_and_supply(row, i)
     \/ /\ \A i \in SupplyIdx : ~check_case_match(row, i)
        /\ out' = <<>>
        /\ UNCHANGED <<supplies, demands>>
  /\ row' = row + 1
  /\ UNCHANGED <<watches, live, pos, pc, cur, fresh>>

(* The watches to be told of supply i, in table order.                     *)
Told(i) ==
  {w \in WatchIdx :
     /\ Used(watches, w)
     /\ watches[w].watch_id > 0
     /\ manhattan_distance(watches[w].at, supplies[i].at) <= watches[w].watch_id}

InTableOrder(ws, s) ==
  /\ Len(s) = Cardinality(ws)
  /\ {s[n] : n \in DOMAIN s} = ws
  /\ \A m, n \in DOMAIN s : m < n => s[m] < s[n]

(* Mutant: the cell is not looked at again after the scan.                 *)
ThereAnyway(i) == TRUE

StillThere(i) == Used(supplies, i)

check_for_watch_events_on_new_supply(i) ==
  IF StillThere(i)
  THEN \E order \in [1 .. Cardinality(Told(i)) -> WatchIdx] :
         /\ InTableOrder(Told(i), order)
         /\ out' = [n \in DOMAIN order |->
                      Note(watches[order[n]].client_id, "inserted",
                           supplies[i].amount)]
  ELSE out' = <<>>

(* The scan is over: watchers hear of the new supply, the mutex is freed.  *)
end_command ==
  /\ pc = "match"
  /\ row = MAX_DEMAND
  /\ IF fresh # -1 THEN check_for_watch_events_on_new_supply(fresh) ELSE out' = <<>>
  /\ pc' = "free" /\ cur' = -1 /\ row' = 0 /\ fresh' = -1
  /\ UNCHANGED <<tables, live, pos>>

-----------------------------------------------------------------------------
Next ==
  \/ \E c \in Slots : register_client(c)
  \/ \E c \in Slots : remove_client_resources(c)
  \/ \E c \in Slots, p \in Points : move_client(c, p)
  \/ \E c \in Slots, d \in WatchDistances : add_new_watch(c, d)
  \/ \E c \in Slots : remove_watch(c)
  \/ \E c \in Slots, v \in DemandAmounts : add_new_demand(c, v)
  \/ \E c \in Slots, d \in SupplyDistances, v \in SupplyAmounts : add_new_supply(c, d, v)
  \/ check_for_match
  \/ end_command

Spec == Init /\ [][Next]_vars

-----------------------------------------------------------------------------
(* Every variable holds what its C object can hold; a free cell is as the  *)
(* removals leave it, so that add_new_demand and the others can tell it by *)
(* client_id alone.                                                        *)
TypeOK ==
  /\ supplies \in [SupplyIdx -> SupplyCell \cup {FreeSupply}]
  /\ demands  \in [DemandIdx -> DemandCell \cup {FreeDemand}]
  /\ watches  \in [WatchIdx -> WatchCell]
  /\ live \subseteq Slots
  /\ pos \in [Slots -> Points]
  /\ pc \in {"free", "match"}
  /\ cur \in Slots \cup {-1}
  /\ row \in 0 .. MAX_DEMAND
  /\ fresh \in SupplyIdx \cup {-1}
  /\ out \in Seq(Message)

(* Whenever shm->mutex is free no demand on the map is within reach of a   *)
(* supply that covers it: the scan that a demand or supply command starts  *)
(* leaves no match for a later command to stumble on, although it visits   *)
(* each pair once while it changes both tables.                            *)
NoPendingMatch ==
  pc = "free" => \A j \in DemandIdx, i \in SupplyIdx : ~check_case_match(j, i)

(* A scan never serves a demand from a supply that was already there when  *)
(* the demand was: after a supply command only the supply it inserted can  *)
(* match, after a demand command only one demand can.                      *)
OnlyTheNewcomerMatches ==
  pc = "match" =>
    \A j, l \in DemandIdx, i, k \in SupplyIdx :
      /\ check_case_match(j, i)
      /\ check_case_match(l, k)
      => IF fresh # -1 THEN i = fresh ELSE j = l

(* Nothing on the map belongs to a slot without a client: the three loops  *)
(* of remove_client_resources leave nothing a later client of the slot     *)
(* would inherit.                                                          *)
NoOrphanRecords ==
  /\ \A i \in SupplyIdx : Used(supplies, i) => supplies[i].client_id \in live
  /\ \A j \in DemandIdx : Used(demands, j) => demands[j].client_id \in live
  /\ \A w \in WatchIdx : Used(watches, w) => watches[w].client_id \in live

(* "A watch requests clears the former watch" (assignment, page 1): no      *)
(* sequence of commands, departures and arrivals leaves a client with two. *)
OneWatchPerClient ==
  \A v, w \in WatchIdx :
    Used(watches, v) /\ watches[v].client_id = watches[w].client_id => v = w

(* enqueue_notification is only ever called for the slot of a client that  *)
(* is there, so no message waits in a slot for its next client.            *)
OnlyLiveAreNotified == \A n \in DOMAIN out : out[n].to \in live

(* The index add_new_supply returned is used after the scan, which may     *)
(* have emptied the cell.  What watchers are told of is the supply of the  *)
(* running command, where the command inserted it and with what the scan   *)
(* has left of it; of a supply the scan used up they are told nothing.     *)
ToldOfTheNewSupply ==
  [][end_command =>
       \A n \in DOMAIN out' :
         /\ Used(supplies, fresh)
         /\ supplies[fresh].client_id = cur /\ supplies[fresh].at = pos[cur]
         /\ out'[n].kind = "inserted" /\ out'[n].amount = supplies[fresh].amount]_vars

(* No client is told twice of the same new supply.                         *)
EachHearsOnce ==
  \A m, n \in DOMAIN out :
    out[m].kind = "inserted" /\ out[m].to = out[n].to => m = n

(* add_new_watch has no way to say that the table is full; it never is:    *)
(* each watch command leaves the client's watch at its place and distance. *)
WatchCommandTakesEffect ==
  [][\A c \in Slots, d \in WatchDistances :
       add_new_watch(c, d) =>
         \E w \in WatchIdx :
           watches'[w] = [client_id |-> c, at |-> pos[c], watch_id |-> d]]_vars

(* The tables are a map as Market describes it: whatever the loops do, the *)
(* client sees offers posted, wants served whole and once from an offer    *)
(* that covers them, and departures, one at a time.                        *)
AsOffer(s) == IF s.client_id = -1
              THEN [owner |-> -1]
              ELSE [owner |-> s.client_id, site |-> s.at, stock |-> s.amount,
                    reach |-> s.distance]
AsWant(d)  == IF d.client_id = -1
              THEN [owner |-> -1]
              ELSE [owner |-> d.client_id, site |-> d.at, stock |-> d.amount]

Map == INSTANCE Market WITH
         Clients  <- Slots,
         Nobody   <- -1,
         OfferIds <- SupplyIdx,
         WantIds  <- DemandIdx,
         Sites    <- Points,
         Reaches  <- SupplyDistances,
         offers   <- [i \in SupplyIdx |-> AsOffer(supplies[i])],
         wants    <- [j \in DemandIdx |-> AsWant(demands[j])]

ImplementsMarket == Map!Spec

=============================================================================
