------------------------------ MODULE OrderBook ------------------------------
(***************************************************************************)
(* Matching of one incoming order against a book (src/orderbook.cpp).      *)
(*                                                                         *)
(* A book is a function from "B" (bids) and "S" (asks) to a LadderSide.    *)
(* handleBuyOrder and handleSellOrder are the same code with the sides     *)
(* exchanged; here both are the operators below, with the side of the      *)
(* incoming order as buySellIndicator.                                     *)
(***************************************************************************)
EXTENDS LadderSide

Sides == {"B", "S"}

Opposite(s) == IF s = "B" THEN "S" ELSE "B"

NewBook == [s \in Sides |-> NewSide]

(* For the properties.                                                     *)
BookTypeOK(book, D, P) ==
  /\ book = [s \in Sides |-> book[s]]
  /\ \A s \in Sides : SideTypeOK(book[s], D, P)

(* Mutant: an order does not match a level at exactly its own limit.       *)
crossesStrictly(book, order) ==
  LET o == Opposite(order.buySellIndicator)
  IN  /\ order.shares > 0
      /\ hasBest(book[o])
      /\ Better(o, bestPrice(o, book[o]), order.price)

(* The condition of the outer matching loop: shares are left and the best  *)
(* opposite level exists and is not beyond the incoming order's limit.     *)
crosses(book, order) ==
  LET o == Opposite(order.buySellIndicator)
  IN  /\ order.shares > 0
      /\ hasBest(book[o])
      /\ ~Better(o, order.price, bestPrice(o, book[o]))

(***************************************************************************)
(* One iteration of the inner matching loop against the level at `price',  *)
(* with what follows it when the level is drained.  The first order of the *)
(* queue trades min(incoming, resting) shares; filled, it leaves the queue *)
(* and its slot is freed; the last one to leave takes its level along.     *)
(* A level found empty runs no iteration and is only removed.              *)
(***************************************************************************)
matchHead(pool, book, order) ==
  LET o      == Opposite(order.buySellIndicator)
      price  == bestPrice(o, book[o])
      lvl    == LevelAt(book[o], price)
      node   == pool.nodes[lvl.head]
      traded == IF order.shares < node.order.shares
                THEN order.shares ELSE node.order.shares
      paid   == [pool EXCEPT !.nodes[lvl.head].order.shares = @ - traded]
      filled == traded = node.order.shares
      last   == node.next = INVALID_INDEX
      popped == [head |-> node.next,
                 tail |-> IF last THEN INVALID_INDEX ELSE lvl.tail]
      cut    == IF last THEN paid
                ELSE [paid EXCEPT !.nodes[node.next].prev = INVALID_INDEX]
      side   == setLevel(book[o], price, popped)
  IN  IF lvl.head = INVALID_INDEX
      THEN [pool     |-> pool,
            book     |-> [book EXCEPT ![o] = removeEmptyBest(o, @, price)],
            shares   |-> order.shares,
            executed |-> <<>>,
            removed  |-> {}]
      ELSE [pool     |-> IF filled THEN free(cut, lvl.head) ELSE paid,
            book     |-> [book EXCEPT ![o] =
                            IF ~filled THEN @
                            ELSE IF last THEN removeEmptyBest(o, side, price)
                            ELSE side],
            shares   |-> order.shares - traded,
            executed |-> <<[ref |-> node.order.ref, shares |-> traded]>>,
            removed  |-> IF filled THEN {node.order.ref} ELSE {}]

(* What handleOrder does with shares left over: the remainder rests.       *)
restOrder(pool, book, order) ==
  LET s     == order.buySellIndicator
      idx   == allocatedIdx(pool)
      alloc == allocate(pool, order)
      added == add(s, book[s], alloc.nodes, order.price, idx)
  IN  [pool |-> [alloc EXCEPT !.nodes = added.nodes],
       book |-> [book EXCEPT ![s] = added.side]]

(* Mutant: the slot of a removed order is not freed.                       *)
removeByIndexLeaks(pool, book, idx) ==
  LET order == pool.nodes[idx].order
      s     == IF order.buySellIndicator = "B" THEN "B" ELSE "S"
      rest  == remove(s, book[s], pool.nodes, order.price, idx)
  IN  [pool |-> [pool EXCEPT !.nodes = rest.nodes],
       book |-> [book EXCEPT ![s] = rest.side]]

removeByIndex(pool, book, idx) ==
  LET order == pool.nodes[idx].order
      s     == IF order.buySellIndicator = "B" THEN "B" ELSE "S"
      rest  == remove(s, book[s], pool.nodes, order.price, idx)
  IN  [pool |-> free([pool EXCEPT !.nodes = rest.nodes], idx),
       book |-> [book EXCEPT ![s] = rest.side]]
=============================================================================
