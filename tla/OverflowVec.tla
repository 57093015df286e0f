----------------------------- MODULE OverflowVec -----------------------------
(***************************************************************************)
(* The levels outside the ladder, as LadderSide keeps them: a vector of    *)
(* (price, Level) pairs sorted by price (include/ladder_side.hpp).  Only   *)
(* whether a Level is empty matters here, so `second' is the number of     *)
(* orders in it.                                                           *)
(*                                                                         *)
(* LadderSide.tla has the map from price to Level in place of the vector;  *)
(* IsTheMap states what justifies that.                                    *)
(***************************************************************************)
EXTENDS Integers, SequencesExt

CONSTANTS Prices,      \* the prices outside the ladder
          MaxOrders    \* bound on the orders of a level

ASSUME PricesAssumption == Prices \subseteq Nat /\ MaxOrders \in Nat

VARIABLE overflow

Init == overflow = <<>>

(* std::lower_bound, as a position: the entries before it are cheaper.     *)
(* What it returns on a vector that is not sorted is not defined.          *)
IsLowerBound(price, it) ==
  /\ \A n \in 1 .. it - 1 : overflow[n].first < price
  /\ \A n \in it .. Len(overflow) : overflow[n].first >= price

overflowLowerBound(price) ==
  CHOOSE it \in 1 .. Len(overflow) + 1 : IsLowerBound(price, it)

found(price) ==
  LET it == overflowLowerBound(price)
  IN  it <= Len(overflow) /\ overflow[it].first = price

(* Mutant: a new entry goes to the end.                                    *)
addAtEnd(price) ==
  LET it == overflowLowerBound(price)
  IN  IF found(price)
      THEN /\ overflow[it].second < MaxOrders
           /\ overflow' = [overflow EXCEPT ![it].second = @ + 1]
      ELSE overflow' = Append(overflow, [first |-> price, second |-> 1])

(* add(): a price without an entry gets one where lower_bound points.      *)
add(price) ==
  LET it == overflowLowerBound(price)
  IN  IF found(price)
      THEN /\ overflow[it].second < MaxOrders
           /\ overflow' = [overflow EXCEPT ![it].second = @ + 1]
      ELSE overflow' = InsertAt(overflow, it, [first |-> price, second |-> 1])

(* remove(): an emptied level loses its entry; no entry, no effect.        *)
remove(price) ==
  LET it == overflowLowerBound(price)
  IN  /\ found(price)
      /\ overflow' = IF overflow[it].second = 1
                     THEN RemoveAt(overflow, it)
                     ELSE [overflow EXCEPT ![it].second = @ - 1]

(* Mutant: the ends are swapped.                                           *)
edgeSwapped(s) == IF s = "B" THEN Head(overflow) ELSE Last(overflow)

(* The end of the vector that bestLevel() looks at.                        *)
edge(s) == IF s = "B" THEN Last(overflow) ELSE Head(overflow)

(* The matching loop takes every order of the level bestLevel() returned;  *)
(* then removeEmptyBest() erases its entry.                                *)
drainEdge(s) ==
  /\ overflow # <<>>
  /\ overflow' = RemoveAt(overflow, overflowLowerBound(edge(s).first))

Next ==
  \/ \E price \in Prices : add(price) \/ remove(price)
  \/ \E s \in {"B", "S"} : drainEdge(s)

Spec == Init /\ [][Next]_overflow

-----------------------------------------------------------------------------
(* The vector stays sorted, with one entry per price.                      *)
Sorted == \A m, n \in DOMAIN overflow : m < n => overflow[m].first < overflow[n].first

Contents == {overflow[n] : n \in DOMAIN overflow}

Others(price) == {e \in Contents : e.first # price}

(* How many orders the level of a price has; a price without an entry none. *)
Orders(price) ==
  LET entries == {e \in Contents : e.first = price}
  IN  IF entries = {} THEN 0 ELSE (CHOOSE e \in entries : TRUE).second

(* The vector is the map from price to Level: add and remove give one      *)
(* price one order more or less and leave the other prices, no entry       *)
(* outlives its orders, and draining the edge removes the entry of the     *)
(* best price.                                                             *)
IsTheMap ==
  [][/\ \A e \in Contents' : e.second > 0
     /\ \A price \in Prices :
          /\ (add(price) \/ remove(price)) => Others(price)' = Others(price)
          /\ add(price) => Orders(price)' = Orders(price) + 1
          /\ remove(price) => Orders(price)' = Orders(price) - 1
     /\ \A s \in {"B", "S"} : drainEdge(s) =>
          \E e \in Contents :
             /\ Contents' = Contents \ {e}
             /\ \A f \in Contents : IF s = "B" THEN f.first <= e.first
                                               ELSE f.first >= e.first]_overflow
=============================================================================
