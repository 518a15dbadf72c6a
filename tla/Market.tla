------------------------------- MODULE Market -------------------------------
(***************************************************************************)
(* What the matching service promises about the shared map, with no order, *)
(* no loop, no lock and no table scan: offers and wants lie on the map;    *)
(* a want within reach of an offer that covers all three items may be      *)
(* served from it, whole and exactly once; nothing else ever changes the   *)
(* amount of an offer, and a want leaves the map only served or with its   *)
(* owner.  SupDemMap, the map as hw1/supdemserv.c keeps it, is shown to    *)
(* implement this module.                                                  *)
(***************************************************************************)
EXTENDS Integers

CONSTANTS
  Clients,    \* the parties that may own an offer or a want
  Nobody,     \* the owner of an empty place
  OfferIds,   \* places for offers
  WantIds,    \* places for wants
  Sites,      \* positions <<x, y>> on the map
  Items,      \* the kinds of item
  Reaches     \* the distances an offer may declare

VARIABLES
  offers,     \* offers[i]: the offer at place i, or None
  wants       \* wants[j]: the want at place j, or None

None == [owner |-> Nobody]

Stock  == [Items -> Nat]
Offer  == [owner : Clients, site : Sites, stock : Stock, reach : Reaches]
Want   == [owner : Clients, site : Sites, stock : Stock]

Magnitude(n) == IF n < 0 THEN -n ELSE n

Apart(p, q) == Magnitude(p[1] - q[1]) + Magnitude(p[2] - q[2])

(* A want fits an offer: strictly within its reach, and every item covered. *)
Fits(w, o) ==
  /\ Apart(w.site, o.site) < o.reach
  /\ \A k \in Items : w.stock[k] <= o.stock[k]

Init ==
  /\ offers = [i \in OfferIds |-> None]
  /\ wants  = [j \in WantIds |-> None]

PostOffer(i) ==
  /\ offers[i] = None
  /\ offers'[i] \in Offer
  /\ offers' = [offers EXCEPT ![i] = offers'[i]]
  /\ UNCHANGED wants

PostWant(j) ==
  /\ wants[j] = None
  /\ wants'[j] \in Want
  /\ wants' = [wants EXCEPT ![j] = wants'[j]]
  /\ UNCHANGED offers

(* What is left of offer o once want w is served: nothing of an offer      *)
(* whose last item goes stays on the map.                                  *)
Remainder(o, w) ==
  LET left == [k \in Items |-> o.stock[k] - w.stock[k]]
  IN  IF \A k \in Items : left[k] = 0 THEN None ELSE [o EXCEPT !.stock = left]

Serve(j, i) ==
  /\ wants[j] # None
  /\ offers[i] # None
  /\ Fits(wants[j], offers[i])
  /\ offers' = [offers EXCEPT ![i] = Remainder(offers[i], wants[j])]
  /\ wants'  = [wants EXCEPT ![j] = None]

(* A client that leaves takes everything it owns with it, and only that.   *)
Leave(c) ==
  /\ offers' = [i \in OfferIds |-> IF offers[i].owner = c THEN None ELSE offers[i]]
  /\ wants'  = [j \in WantIds |-> IF wants[j].owner = c THEN None ELSE wants[j]]

Next ==
  \/ \E i \in OfferIds : PostOffer(i)
  \/ \E j \in WantIds : PostWant(j)
  \/ \E j \in WantIds, i \in OfferIds : Serve(j, i)
  \/ \E c \in Clients : Leave(c)

Spec == Init /\ [][Next]_<<offers, wants>>

=============================================================================
