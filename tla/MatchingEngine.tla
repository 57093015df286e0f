---------------------------- MODULE MatchingEngine ---------------------------
(***************************************************************************)
(* MatchingEngine::processMessage (src/matching_engine.cpp): ITCH messages *)
(* applied to one book per stock locate, over one shared pool and one map  *)
(* from order reference to the order's place.                              *)
(*                                                                         *)
(* The engine is one thread.  A delete, an execution and a cancel are one  *)
(* step each.  An add or a replace starts the matching loop of handleOrder *)
(* (status "matching"), which takes one step per trade and a last one that *)
(* rests the remainder and brings the order map up to date; no message is  *)
(* looked at in between.                                                   *)
(*                                                                         *)
(* orderMap is the map FlatHashMap promises: find is application, erase    *)
(* and insert change its domain.  A message that names an unknown          *)
(* reference changes nothing, which is a stuttering step here.             *)
(***************************************************************************)
EXTENDS OrderBook, FiniteSets

CONSTANTS Books,        \* stock locates in use
          Refs,         \* order reference numbers
          MaxPrice,     \* largest price
          Prices,       \* prices the messages carry
          Quantities,   \* share counts the messages carry
          FreshRefs,    \* references the feed gives to one live order at a time
          MaxSlots,     \* bound on the slots of the arena
          NoOrder       \* no order is being matched

ASSUME MessageAssumption ==
  /\ MaxPrice \in Nat
  /\ Prices \subseteq 0 .. MaxPrice
  /\ Quantities \subseteq Nat
  /\ FreshRefs \subseteq Refs
  /\ MaxSlots \in Nat

VARIABLES pool,             \* the OrderPool
          orderBooks,       \* a book for each stock locate
          orderMap,         \* order reference -> [stockLocate, poolIdx]
          status,           \* "idle", "matching" or "terminated"
          incoming,         \* the order in handleOrder and its stock locate
          removedRefs,      \* scratch.removedRefs, as a set
          executedOrders    \* scratch.executedOrders

vars == <<pool, orderBooks, orderMap, status, incoming, removedRefs,
          executedOrders>>

(* What ItchParser::readAddOrder returns.                                  *)
Orders == [ref : Refs, buySellIndicator : Sides, shares : Quantities,
           price : Prices]

(* Mutant: of several filled orders one stays in the map.                  *)
eraseRefsButOne(map, refs) ==
  LET spared == IF Cardinality(refs) > 1 THEN {CHOOSE r \in refs : TRUE}
                ELSE {}
  IN  [r \in DOMAIN map \ (refs \ spared) |-> map[r]]

(* orderMap.erase for each of refs.                                        *)
eraseRefs(map, refs) == [r \in DOMAIN map \ refs |-> map[r]]

insertRef(map, ref, loc) ==
  [r \in DOMAIN map \cup {ref} |-> IF r = ref THEN loc ELSE map[r]]

Init ==
  /\ pool = EmptyPool
  /\ orderBooks = [b \in Books |-> NewBook]
  /\ orderMap = <<>>
  /\ status = "idle"
  /\ incoming = NoOrder
  /\ removedRefs = {}
  /\ executedOrders = <<>>

(* Entry of handleOrder, with the scratch buffers cleared.                 *)
startMatching(b, order) ==
  /\ status' = "matching"
  /\ incoming' = [stockLocate |-> b, order |-> order]
  /\ removedRefs' = {}
  /\ executedOrders' = <<>>

(* 'A' and 'F'.  Nothing in the code tells whether the reference is in use *)
(* already.                                                                *)
addOrder(b, order) ==
  /\ status = "idle"
  /\ order.ref \in FreshRefs => order.ref \notin DOMAIN orderMap
  /\ allocatedIdx(pool) < MaxSlots
  /\ startMatching(b, order)
  /\ UNCHANGED <<pool, orderBooks, orderMap>>

(* handleOrder throws on any other side, and nothing catches it.           *)
addOrderBadSide ==
  /\ status = "idle"
  /\ status' = "terminated"
  /\ removedRefs' = {}
  /\ executedOrders' = <<>>
  /\ UNCHANGED <<pool, orderBooks, orderMap, incoming>>

matchStep ==
  LET b == incoming.stockLocate
      m == matchHead(pool, orderBooks[b], incoming.order)
  IN  /\ status = "matching"
      /\ crosses(orderBooks[b], incoming.order)
      /\ pool' = m.pool
      /\ orderBooks' = [orderBooks EXCEPT ![b] = m.book]
      /\ incoming' = [incoming EXCEPT !.order.shares = m.shares]
      /\ removedRefs' = removedRefs \cup m.removed
      /\ executedOrders' = executedOrders \o m.executed
      /\ UNCHANGED <<orderMap, status>>

(* The end of handleOrder, and the update of the order map that follows.   *)
finishOrder ==
  LET b     == incoming.stockLocate
      order == incoming.order
      rest  == restOrder(pool, orderBooks[b], order)
      loc   == [stockLocate |-> b, poolIdx |-> allocatedIdx(pool)]
      kept  == eraseRefs(orderMap, removedRefs)
  IN  /\ status = "matching"
      /\ ~crosses(orderBooks[b], order)
      /\ IF order.shares > 0
         THEN /\ pool' = rest.pool
              /\ orderBooks' = [orderBooks EXCEPT ![b] = rest.book]
              /\ orderMap' = insertRef(kept, order.ref, loc)
         ELSE /\ orderMap' = kept
              /\ UNCHANGED <<pool, orderBooks>>
      /\ status' = "idle"
      /\ incoming' = NoOrder
      /\ UNCHANGED <<removedRefs, executedOrders>>

(* The resting order `ref' leaves the book, its slot and the map.          *)
removeRef(ref) ==
  LET loc  == orderMap[ref]
      rest == removeByIndex(pool, orderBooks[loc.stockLocate], loc.poolIdx)
  IN  /\ pool' = rest.pool
      /\ orderBooks' = [orderBooks EXCEPT ![loc.stockLocate] = rest.book]
      /\ orderMap' = eraseRefs(orderMap, {ref})

(* 'D'                                                                     *)
deleteOrder(ref) ==
  /\ status = "idle"
  /\ ref \in DOMAIN orderMap
  /\ removeRef(ref)
  /\ UNCHANGED <<status, incoming, removedRefs, executedOrders>>

(* Mutant: a reduced order goes to the end of its queue.                   *)
reduceOrderRequeues(ref, shares) ==
  LET loc   == orderMap[ref]
      order == pool.nodes[loc.poolIdx].order
      out   == removeByIndex(pool, orderBooks[loc.stockLocate], loc.poolIdx)
      back  == restOrder(out.pool, out.book,
                         [order EXCEPT !.shares = @ - shares])
  IN  /\ status = "idle"
      /\ ref \in DOMAIN orderMap
      /\ IF shares >= order.shares
         THEN removeRef(ref)
         ELSE /\ pool' = back.pool
              /\ orderBooks' = [orderBooks EXCEPT ![loc.stockLocate] = back.book]
              /\ UNCHANGED orderMap
      /\ UNCHANGED <<status, incoming, removedRefs, executedOrders>>

(* 'E', 'C' and 'X'                                                        *)
reduceOrder(ref, shares) ==
  LET idx == orderMap[ref].poolIdx
  IN  /\ status = "idle"
      /\ ref \in DOMAIN orderMap
      /\ IF shares >= pool.nodes[idx].order.shares
         THEN removeRef(ref)
         ELSE /\ pool' = [pool EXCEPT !.nodes[idx].order.shares = @ - shares]
              /\ UNCHANGED <<orderBooks, orderMap>>
      /\ UNCHANGED <<status, incoming, removedRefs, executedOrders>>

(* Mutant: the original stays in the book until its replacement rests.     *)
replaceOrderKeepsOld(ref, newRef, shares, price) ==
  LET loc == orderMap[ref]
  IN  /\ status = "idle"
      /\ ref \in DOMAIN orderMap
      /\ newRef \in FreshRefs \ {ref} => newRef \notin DOMAIN orderMap
      /\ startMatching(loc.stockLocate,
           [ref |-> newRef,
            buySellIndicator |-> pool.nodes[loc.poolIdx].order.buySellIndicator,
            shares |-> shares,
            price |-> price])
      /\ UNCHANGED <<pool, orderBooks, orderMap>>

(* 'U': the original leaves, and its replacement is handled as a new order *)
(* of the same book and side.                                              *)
replaceOrder(ref, newRef, shares, price) ==
  LET loc == orderMap[ref]
  IN  /\ status = "idle"
      /\ ref \in DOMAIN orderMap
      /\ newRef \in FreshRefs \ {ref} => newRef \notin DOMAIN orderMap
      /\ removeRef(ref)
      /\ startMatching(loc.stockLocate,
           [ref |-> newRef,
            buySellIndicator |-> pool.nodes[loc.poolIdx].order.buySellIndicator,
            shares |-> shares,
            price |-> price])

Terminated == status = "terminated" /\ UNCHANGED vars

Next ==
  \/ \E b \in Books, order \in Orders : addOrder(b, order)
  \/ addOrderBadSide
  \/ matchStep
  \/ finishOrder
  \/ \E ref \in Refs : deleteOrder(ref)
  \/ \E ref \in Refs, shares \in Quantities : reduceOrder(ref, shares)
  \/ \E ref, newRef \in Refs, shares \in Quantities, price \in Prices :
       replaceOrder(ref, newRef, shares, price)
  \/ Terminated

Spec == Init /\ [][Next]_vars

-----------------------------------------------------------------------------
(***************************************************************************)
(* Properties.                                                             *)
(***************************************************************************)
Indices == DOMAIN pool.nodes

RestingOrders == [ref : Refs, buySellIndicator : Sides, shares : Nat,
                  price : Prices]

(* Every index stored anywhere - in a link, a level, the free list or the  *)
(* order map - is a slot of the arena or INVALID_INDEX, as operator[] of   *)
(* OrderPool, which does not check, needs.                                 *)
TypeOK ==
  /\ PoolTypeOK(pool, RestingOrders)
  /\ orderBooks = [b \in Books |-> orderBooks[b]]
  /\ \A b \in Books : BookTypeOK(orderBooks[b], Indices, Prices)
  /\ DOMAIN orderMap \subseteq Refs
  /\ orderMap \in [DOMAIN orderMap -> [stockLocate : Books, poolIdx : Indices]]
  /\ status \in {"idle", "matching", "terminated"}
  /\ IF status = "matching"
     THEN incoming \in [stockLocate : Books, order : RestingOrders]
     ELSE incoming = NoOrder
  /\ removedRefs \subseteq Refs
  /\ executedOrders \in Seq([ref : Refs, shares : Nat])

(* The queue of the level at `price', walked from its head.                *)
Queue(b, s, price) == Chain(pool, LevelAt(orderBooks[b][s], price).head)

(* The references that are resting: while an order is being matched, the   *)
(* ones it has filled are still in the map.                                *)
LiveRefs ==
  IF status = "matching" THEN DOMAIN orderMap \ removedRefs
  ELSE DOMAIN orderMap

(* bestSlot, which add, remove and removeEmptyBest maintain incrementally, *)
(* is the best populated slot, and no emptied level stays in overflow: so  *)
(* bestLevel() finds the best resting order without a search.              *)
BestIsCached ==
  \A b \in Books, s \in Sides :
    LET side == orderBooks[b][s]
        populated == {k \in Slots : side.ladder[k].head # INVALID_INDEX}
    IN  /\ side.bestSlot = IF populated = {} THEN INVALID_INDEX
                           ELSE Best(s, populated)
        /\ \A p \in DOMAIN side.overflow :
             side.overflow[p].head # INVALID_INDEX

(* Every slot of the shared arena is in exactly one place: once on the     *)
(* free list or once in one queue of one book.  No slot leaks, none is     *)
(* handed out while an order still rests in it, no list has a cycle.       *)
SlotsInOnePlace ==
  LET onFree == Chain(pool, pool.freeHead)
      queues == [l \in Books \X Sides \X Prices |-> Queue(l[1], l[2], l[3])]
      places == UNION {{l} \X DOMAIN queues[l] : l \in DOMAIN queues}
  IN  \A i \in Indices :
        Cardinality({n \in DOMAIN onFree : onFree[n] = i})
        + Cardinality({pl \in places : queues[pl[1]][pl[2]] = i}) = 1

(* A queue is a doubly linked list of orders of its own side and price     *)
(* with shares left, between its level's head and tail.                    *)
QueuesAreLinked ==
  \A b \in Books, s \in Sides, p \in Prices :
    LET q   == Queue(b, s, p)
        lvl == LevelAt(orderBooks[b][s], p)
    IN  /\ lvl.tail = IF q = <<>> THEN INVALID_INDEX ELSE q[Len(q)]
        /\ \A n \in DOMAIN q :
             LET node == pool.nodes[q[n]]
             IN  /\ node.prev = IF n = 1 THEN INVALID_INDEX ELSE q[n - 1]
                 /\ node.order.buySellIndicator = s
                 /\ node.order.price = p
                 /\ node.order.shares > 0

(* The order map and the books agree.  An entry leads to an order that     *)
(* rests in a queue of its stock and has the entry's reference, even when  *)
(* the feed gives a live reference to a second order; one that did not     *)
(* would let a message act on the order that got the slot next.  And every *)
(* resting order with a fresh reference has its entry, whatever became of  *)
(* the others; without one it could never be deleted.                      *)
MapAgreesWithBooks ==
  LET entries(b, queue) ==
        {<<pool.nodes[queue[n]].order.ref, b, queue[n]>> : n \in DOMAIN queue}
      mapped  == {<<r, orderMap[r].stockLocate, orderMap[r].poolIdx>> :
                    r \in LiveRefs}
      resting == UNION {entries(l[1], Queue(l[1], l[2], l[3])) :
                          l \in Books \X Sides \X Prices}
  IN  /\ mapped \subseteq resting
      /\ {e \in resting : e[1] \in FreshRefs} \subseteq mapped

(* handleOrder returns, whatever the book holds: every iteration of its    *)
(* loops trades, so the shares of the incoming order are a variant.  One   *)
(* that found an emptied level, or an order without shares, would not, and *)
(* could go on for ever.                                                   *)
MatchingProgresses ==
  LET book == orderBooks[incoming.stockLocate]
  IN  status = "matching" /\ crosses(book, incoming.order)
        => matchHead(pool, book, incoming.order).shares < incoming.order.shares
=============================================================================
