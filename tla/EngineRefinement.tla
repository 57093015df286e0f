-------------------------- MODULE EngineRefinement ---------------------------
(***************************************************************************)
(* MatchingEngine implements PriceTimeBook.  The queue of a price is read  *)
(* off the arena by walking the level's list; the ladder, the overflow,    *)
(* bestSlot, the free list and the order map are not visible.              *)
(***************************************************************************)
EXTENDS MatchingEngine

(* NoOrder, which marks the absence of an arriving order, is not one.      *)
ASSUME NoOrderAssumption ==
  NoOrder \notin [book : Books, side : Sides, ref : Refs, shares : Nat, price : Prices]

queuesBar ==
  [b \in Books |-> [s \in Sides |-> [p \in Prices |->
     LET q == Queue(b, s, p)
     IN  [n \in DOMAIN q |-> [ref    |-> pool.nodes[q[n]].order.ref,
                              shares |-> pool.nodes[q[n]].order.shares]]]]]

arrivingBar ==
  IF status # "matching" THEN NoOrder
  ELSE [book   |-> incoming.stockLocate,
        side   |-> incoming.order.buySellIndicator,
        ref    |-> incoming.order.ref,
        shares |-> incoming.order.shares,
        price  |-> incoming.order.price]

PTB == INSTANCE PriceTimeBook
         WITH queues <- queuesBar, arriving <- arrivingBar,
              fills <- executedOrders, halted <- (status = "terminated")

(* Price-time priority: whatever messages arrive, the engine's trades and  *)
(* queues are those of PriceTimeBook, as long as the feed gives no live    *)
(* reference to a second order.  In particular an incoming order always    *)
(* meets the best price's oldest order, a partial execution keeps an       *)
(* order's place, a replace loses it, and nothing else moves.              *)
ImplementsPriceTimeBook == PTB!PTBSpec

(* The book never rests crossed or locked, not even between two trades of  *)
(* an order: of the orders that rest in the queues of a stock every bid is *)
(* priced below every ask.  handleOrder rests a remainder only once the    *)
(* best opposite level no longer crosses it.                               *)
NeverCrossed == PTB!NeverCrossed

(* A reference rests in one place of one queue, and the order in           *)
(* handleOrder rests nowhere yet: case 'U' has taken the original out      *)
(* before its replacement can trade with it.                               *)
RestsOnce == PTB!RestsOnce

(* Time priority: two orders that stay in a queue keep their order, over   *)
(* fills, deletions and reductions of the others and of themselves.        *)
NoOvertaking == PTB!NoOvertaking
=============================================================================
