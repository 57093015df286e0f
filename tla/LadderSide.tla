----------------------------- MODULE LadderSide ------------------------------
(***************************************************************************)
(* One side (bids or asks) of an order book (include/ladder_side.hpp).     *)
(*                                                                         *)
(* A side is a record:                                                     *)
(*   ladder    a Level for each of the WINDOW slots, one slot per TICK;    *)
(*   overflow  a Level for each price that has one outside the ladder;     *)
(*   base      the price of slot 0;                                        *)
(*   anchored  whether `base' has been chosen;                             *)
(*   bestSlot  the cached best populated slot, or INVALID_INDEX.           *)
(* The class's flag `bid' is the parameter s, "B" for bids, "S" for asks.  *)
(*                                                                         *)
(* The code keeps `overflow' as a vector sorted by price.  Here it is the  *)
(* map from price to Level that the vector represents; module OverflowVec  *)
(* shows that the vector represents it.  slotToPrice is applied only to    *)
(* bestSlot, whose price some resting order has, so it does not wrap.      *)
(***************************************************************************)
EXTENDS OrderPool

CONSTANTS TICK,     \* price units per slot (100 in the code)
          WINDOW    \* slots per side (2048 in the code)

ASSUME LadderAssumption == TICK \in Nat \ {0} /\ WINDOW \in Nat \ {0}

Slots == 0 .. WINDOW - 1

(* A price level: the first and the last order of its FIFO queue.          *)
EmptyLevel == [head |-> INVALID_INDEX, tail |-> INVALID_INDEX]

(* For the properties: the levels, and a side, whose links are in D and    *)
(* whose overflow prices are in P.                                         *)
Levels(D) == [head : Links(D), tail : Links(D)]

SideTypeOK(side, D, P) ==
  /\ side = [ladder   |-> side.ladder,
             overflow |-> side.overflow,
             base     |-> side.base,
             anchored |-> side.anchored,
             bestSlot |-> side.bestSlot]
  /\ side.ladder \in [Slots -> Levels(D)]
  /\ side.overflow \in [DOMAIN side.overflow -> Levels(D)]
  /\ DOMAIN side.overflow \subseteq P
  /\ side.base \in Nat
  /\ side.anchored \in BOOLEAN
  /\ side.bestSlot \in Slots \cup {INVALID_INDEX}
  /\ side.bestSlot # INVALID_INDEX => side.anchored

NewSide ==
  [ladder   |-> [k \in Slots |-> EmptyLevel],
   overflow |-> <<>>,
   base     |-> 0,
   anchored |-> FALSE,
   bestSlot |-> INVALID_INDEX]

(* x is a better price, or slot, than y on side s.                         *)
Better(s, x, y) == IF s = "B" THEN x > y ELSE x < y

Best(s, S) == CHOOSE x \in S : \A y \in S \ {x} : Better(s, x, y)

(***************************************************************************)
(* Prices and slots.                                                       *)
(***************************************************************************)
anchor(side, price) ==
  LET half      == (WINDOW \div 2) * TICK
      candidate == IF price > half THEN price - half ELSE 0
  IN  [ladder   |-> [k \in Slots |-> EmptyLevel],
       overflow |-> side.overflow,
       base     |-> candidate - (candidate % TICK),
       anchored |-> TRUE,
       bestSlot |-> side.bestSlot]

priceToSlot(side, price) ==
  LET offset == price - side.base
  IN  IF /\ side.anchored
         /\ price >= side.base
         /\ offset % TICK = 0
         /\ offset \div TICK < WINDOW
      THEN offset \div TICK
      ELSE INVALID_INDEX

slotToPrice(side, slot) == side.base + slot * TICK

(* The level that holds the orders at `price'; EmptyLevel if there is none *)
LevelAt(side, price) ==
  LET slot == priceToSlot(side, price)
  IN  IF slot # INVALID_INDEX THEN side.ladder[slot]
      ELSE IF price \in DOMAIN side.overflow THEN side.overflow[price]
      ELSE EmptyLevel

(***************************************************************************)
(* The FIFO queue of a level.  Linking and unlinking write both the nodes  *)
(* and the level.                                                          *)
(***************************************************************************)
(* Mutant: a new order is linked before the head, last in first out.       *)
linkAtHead(nodes, lvl, idx) ==
  LET linked == [nodes EXCEPT ![idx].prev = INVALID_INDEX,
                              ![idx].next = lvl.head]
  IN  IF lvl.head # INVALID_INDEX
      THEN [nodes |-> [linked EXCEPT ![lvl.head].prev = idx],
            level |-> [lvl EXCEPT !.head = idx]]
      ELSE [nodes |-> linked,
            level |-> [head |-> idx, tail |-> idx]]

linkAtTail(nodes, lvl, idx) ==
  LET linked == [nodes EXCEPT ![idx].prev = lvl.tail,
                              ![idx].next = INVALID_INDEX]
  IN  IF lvl.tail # INVALID_INDEX
      THEN [nodes |-> [linked EXCEPT ![lvl.tail].next = idx],
            level |-> [lvl EXCEPT !.tail = idx]]
      ELSE [nodes |-> linked,
            level |-> [head |-> idx, tail |-> idx]]

(* Mutant: the level's tail is not moved back when the last order leaves.  *)
unlinkKeepsTail(nodes, lvl, idx) ==
  LET node == nodes[idx]
      cut  == IF node.prev # INVALID_INDEX
              THEN [nodes EXCEPT ![node.prev].next = node.next]
              ELSE nodes
  IN  [nodes |-> IF node.next # INVALID_INDEX
                 THEN [cut EXCEPT ![node.next].prev = node.prev]
                 ELSE cut,
       level |-> [head |-> IF node.prev # INVALID_INDEX
                           THEN lvl.head ELSE node.next,
                  tail |-> IF node.next = INVALID_INDEX
                              /\ node.prev = INVALID_INDEX
                           THEN INVALID_INDEX ELSE lvl.tail]]

unlink(nodes, lvl, idx) ==
  LET node == nodes[idx]
      cut  == IF node.prev # INVALID_INDEX
              THEN [nodes EXCEPT ![node.prev].next = node.next]
              ELSE nodes
  IN  [nodes |-> IF node.next # INVALID_INDEX
                 THEN [cut EXCEPT ![node.next].prev = node.prev]
                 ELSE cut,
       level |-> [head |-> IF node.prev # INVALID_INDEX
                           THEN lvl.head ELSE node.next,
                  tail |-> IF node.next # INVALID_INDEX
                           THEN lvl.tail ELSE node.prev]]

(***************************************************************************)
(* The cached best slot.  The scan starts at bestSlot and goes toward the  *)
(* worse end, so it ends at the best populated slot that is not better.    *)
(***************************************************************************)
(* Mutant: the scan of the asks has no upper end.                          *)
advanceBestUnbounded(s, side) ==
  LET populated == {k \in Slots : /\ side.ladder[k].head # INVALID_INDEX
                                  /\ ~Better(s, k, side.bestSlot)}
  IN  [side EXCEPT !.bestSlot =
         IF populated # {} THEN Best(s, populated)
         ELSE IF s = "S" THEN WINDOW ELSE INVALID_INDEX]

(* Mutant: the scan steps one slot and does not look whether it is empty.  *)
advanceBestOneStep(s, side) ==
  LET next == IF s = "B" THEN side.bestSlot - 1 ELSE side.bestSlot + 1
  IN  [side EXCEPT !.bestSlot = IF next \in Slots THEN next ELSE INVALID_INDEX]

advanceBest(s, side) ==
  LET populated == {k \in Slots : /\ side.ladder[k].head # INVALID_INDEX
                                  /\ ~Better(s, k, side.bestSlot)}
  IN  [side EXCEPT !.bestSlot =
         IF populated = {} THEN INVALID_INDEX ELSE Best(s, populated)]

eraseOverflow(side, price) ==
  [side EXCEPT !.overflow =
     [p \in DOMAIN side.overflow \ {price} |-> side.overflow[p]]]

putOverflow(side, price, lvl) ==
  [side EXCEPT !.overflow =
     [p \in DOMAIN side.overflow \cup {price} |->
        IF p = price THEN lvl ELSE side.overflow[p]]]

(***************************************************************************)
(* The operations of the class.  add and remove change the links of nodes  *)
(* as well as the side.                                                    *)
(***************************************************************************)
add(s, side, nodes, price, idx) ==
  LET sd   == IF side.anchored THEN side ELSE anchor(side, price)
      slot == priceToSlot(sd, price)
      new  == linkAtTail(nodes, LevelAt(sd, price), idx)
      best == IF \/ sd.bestSlot = INVALID_INDEX
                 \/ Better(s, slot, sd.bestSlot)
              THEN slot ELSE sd.bestSlot
  IN  [nodes |-> new.nodes,
       side  |-> IF slot # INVALID_INDEX
                 THEN [sd EXCEPT !.ladder[slot] = new.level,
                                 !.bestSlot = best]
                 ELSE putOverflow(sd, price, new.level)]

remove(s, side, nodes, price, idx) ==
  LET slot == priceToSlot(side, price)
      new  == unlink(nodes, LevelAt(side, price), idx)
      cut  == [side EXCEPT !.ladder[slot] = new.level]
  IN  IF slot # INVALID_INDEX
      THEN [nodes |-> new.nodes,
            side  |-> IF /\ new.level.head = INVALID_INDEX
                         /\ slot = side.bestSlot
                      THEN advanceBest(s, cut) ELSE cut]
      ELSE IF price \notin DOMAIN side.overflow
      THEN [nodes |-> nodes, side |-> side]
      ELSE [nodes |-> new.nodes,
            side  |-> IF new.level.head = INVALID_INDEX
                      THEN eraseOverflow(side, price)
                      ELSE putOverflow(side, price, new.level)]

(* bestLevel() returns a level unless ladder and overflow are both empty.  *)
(* Of the two candidates the ladder's wins a tie.  bestSlot is the slot of *)
(* its own price, so the level is the one at the best price.               *)
hasBest(side) ==
  side.bestSlot # INVALID_INDEX \/ DOMAIN side.overflow # {}

bestPrice(s, side) ==
  LET edge   == Best(s, DOMAIN side.overflow)
      ladder == slotToPrice(side, side.bestSlot)
  IN  IF DOMAIN side.overflow = {} THEN ladder
      ELSE IF side.bestSlot = INVALID_INDEX THEN edge
      ELSE IF ~Better(s, edge, ladder) THEN ladder
      ELSE edge

bestLevel(s, side) == LevelAt(side, bestPrice(s, side))

(* Writes through the Level* that bestLevel() returned.                    *)
setLevel(side, price, lvl) ==
  LET slot == priceToSlot(side, price)
  IN  IF slot # INVALID_INDEX
      THEN [side EXCEPT !.ladder[slot] = lvl]
      ELSE putOverflow(side, price, lvl)

(* Mutant: a drained overflow level stays.                                 *)
removeEmptyBestLadderOnly(s, side, price) ==
  IF priceToSlot(side, price) = side.bestSlot
  THEN advanceBest(s, side) ELSE side

removeEmptyBest(s, side, price) ==
  LET slot == priceToSlot(side, price)
  IN  IF slot # INVALID_INDEX
      THEN IF slot = side.bestSlot THEN advanceBest(s, side) ELSE side
      ELSE eraseOverflow(side, price)
=============================================================================
