---------------------------- MODULE EngineProofs -----------------------------
(***************************************************************************)
(* Theorems about MatchingEngine, for all books, references, prices and    *)
(* quantities.                                                             *)
(***************************************************************************)
EXTENDS MatchingEngine, StoreProofs

(* The orders of the engine are those the lemmas on books speak of.        *)
LEMMA RestingOrdersAre == RestingOrders = BookOrders(Refs, Prices)
  BY Zenon DEF RestingOrders, BookOrders

(* Prices and quantities are natural numbers.                              *)
LEMMA PricesAreNat == Prices \subseteq Nat /\ Quantities \subseteq Nat
  BY MessageAssumption

(* The slots of the arena are 0 .. size - 1.                               *)
LEMMA IndicesAre ==
  ASSUME PoolTypeOK(pool, RestingOrders)
  PROVE  Indices = 0 .. pool.size - 1
  BY Zenon DEF PoolTypeOK, Indices

(* A book for every stock, still well typed when one of them is replaced   *)
(* and the arena has grown.                                                *)
LEMMA SetBookType ==
  ASSUME NEW D, NEW E, D \subseteq E,
         orderBooks = [b \in Books |-> orderBooks[b]],
         \A b \in Books : BookTypeOK(orderBooks[b], D, Prices),
         NEW c \in Books, NEW book, BookTypeOK(book, E, Prices),
         NEW books, books = [orderBooks EXCEPT ![c] = book]
  PROVE  /\ books = [b \in Books |-> books[b]]
         /\ \A b \in Books : BookTypeOK(books[b], E, Prices)
<1>1. \A b \in Books : BookTypeOK(orderBooks[b], E, Prices)
  BY Zenon, SideTypeGrows DEF BookTypeOK
<1>2. books = [b \in Books |-> IF b = c THEN book ELSE orderBooks[b]]
  BY Zenon
<1> QED
  BY Zenon, <1>1, <1>2

(* removeRef keeps pool, books and map well typed.                         *)
LEMMA RemoveRefType ==
  ASSUME TypeOK, NEW ref \in DOMAIN orderMap, removeRef(ref)
  PROVE  /\ PoolTypeOK(pool', RestingOrders)
         /\ Indices' = Indices
         /\ orderBooks' = [b \in Books |-> orderBooks'[b]]
         /\ \A b \in Books : BookTypeOK(orderBooks'[b], Indices', Prices)
         /\ DOMAIN orderMap' \subseteq Refs
         /\ orderMap' \in [DOMAIN orderMap' ->
                             [stockLocate : Books, poolIdx : Indices']]
<1> DEFINE loc  == orderMap[ref]
           b    == loc.stockLocate
           idx  == loc.poolIdx
           rest == removeByIndex(pool, orderBooks[b], idx)
           D    == 0 .. pool.size - 1
<1>1. Indices = D
  BY Zenon, IndicesAre DEF TypeOK
<1>2. b \in Books /\ idx \in D
  BY Zenon, <1>1 DEF TypeOK
<1>3. BookTypeOK(orderBooks[b], D, Prices)
  BY Zenon, <1>1, <1>2 DEF TypeOK
<1>4. PoolTypeOK(pool, BookOrders(Refs, Prices))
  BY Zenon, RestingOrdersAre DEF TypeOK
<1> HIDE DEF b, idx
<1>5. /\ PoolTypeOK(rest.pool, BookOrders(Refs, Prices))
      /\ rest.pool.size = pool.size
      /\ BookTypeOK(rest.book, D, Prices)
  BY ZenonT(40), <1>2, <1>3, <1>4, PricesAreNat, RemoveByIndexType
<1>6. /\ pool' = rest.pool
      /\ orderBooks' = [orderBooks EXCEPT ![b] = rest.book]
      /\ orderMap' = eraseRefs(orderMap, {ref})
  BY Zenon DEF removeRef, b, idx
<1> HIDE DEF rest
<1>7. PoolTypeOK(pool', RestingOrders)
  BY Zenon, <1>5, <1>6, RestingOrdersAre
<1>8. Indices' = D
  BY Zenon, <1>5, <1>6, <1>7 DEF PoolTypeOK, Indices
<1>9. /\ orderBooks' = [c \in Books |-> orderBooks'[c]]
      /\ \A c \in Books : BookTypeOK(orderBooks'[c], D, Prices)
  <2>1. /\ orderBooks = [c \in Books |-> orderBooks[c]]
        /\ \A c \in Books : BookTypeOK(orderBooks[c], D, Prices)
    BY Zenon, <1>1 DEF TypeOK
  <2> HIDE DEF D
  <2> QED BY ZenonT(40), <1>2, <1>5, <1>6, <2>1, SetBookType
<1>10. /\ DOMAIN orderMap' \subseteq Refs
       /\ orderMap' \in [DOMAIN orderMap' -> [stockLocate : Books, poolIdx : D]]
  BY Zenon, <1>1, <1>6 DEF TypeOK, eraseRefs
<1> QED
  BY ZenonT(40), <1>1, <1>7, <1>8, <1>9, <1>10

-----------------------------------------------------------------------------
(***************************************************************************)
(* Type correctness.  TypeOK is inductive: the conjunct that matters is    *)
(* that a bestSlot other than INVALID_INDEX belongs to an anchored ladder, *)
(* so that the price bestLevel() reports leads back to the same slot and   *)
(* never to a level outside the ladder.                                    *)
(***************************************************************************)
LEMMA TypeInit == Init => TypeOK
<1> SUFFICES ASSUME Init PROVE TypeOK
  BY Zenon
<1>1. PoolTypeOK(pool, RestingOrders) /\ Indices = {}
  BY DEF Init, EmptyPool, PoolTypeOK, Indices, Links
<1>2. SideTypeOK(NewSide, Indices, Prices)
  <2>1. [k \in Slots |-> EmptyLevel] \in [Slots -> Levels(Indices)]
    BY Zenon DEF EmptyLevel, Levels, Links
  <2>2. <<>> \in [DOMAIN <<>> -> Levels(Indices)] /\ DOMAIN <<>> \subseteq Prices
    OBVIOUS
  <2> QED BY Zenon, <2>1, <2>2 DEF SideTypeOK, NewSide
<1>3. BookTypeOK(NewBook, Indices, Prices)
  BY Zenon, <1>2 DEF BookTypeOK, NewBook
<1>4. /\ orderBooks = [b \in Books |-> orderBooks[b]]
      /\ \A b \in Books : BookTypeOK(orderBooks[b], Indices, Prices)
  BY Zenon, <1>3 DEF Init
<1>5. /\ DOMAIN orderMap \subseteq Refs
      /\ orderMap \in [DOMAIN orderMap ->
                          [stockLocate : Books, poolIdx : Indices]]
  BY DEF Init
<1>6. /\ status = "idle" /\ incoming = NoOrder
      /\ removedRefs \subseteq Refs
      /\ executedOrders \in Seq([ref : Refs, shares : Nat])
  BY DEF Init
<1> QED
  BY ZenonT(40), <1>1, <1>4, <1>5, <1>6 DEF TypeOK

(* Every message and every step of the matching loop keeps the types.      *)
LEMMA TypeNext == TypeOK /\ [Next]_vars => TypeOK'
<1> SUFFICES ASSUME TypeOK, [Next]_vars PROVE TypeOK'
  BY Zenon
<1>1. ASSUME NEW b \in Books, NEW order \in Orders, addOrder(b, order)
      PROVE  TypeOK'
  <2>1. order \in RestingOrders
    BY Zenon, PricesAreNat DEF Orders, RestingOrders
  <2> QED
    BY <1>1, <2>1 DEF addOrder, startMatching, TypeOK, Indices
<1>2. ASSUME addOrderBadSide PROVE TypeOK'
  BY <1>2 DEF addOrderBadSide, TypeOK, Indices
<1>3. ASSUME matchStep PROVE TypeOK'
  <2> DEFINE b == incoming.stockLocate
             order == incoming.order
             D == 0 .. pool.size - 1
             m == matchHead(pool, orderBooks[b], order)
  <2>1. /\ status = "matching" /\ crosses(orderBooks[b], order)
        /\ pool' = m.pool
        /\ orderBooks' = [orderBooks EXCEPT ![b] = m.book]
        /\ incoming' = [incoming EXCEPT !.order.shares = m.shares]
        /\ removedRefs' = removedRefs \cup m.removed
        /\ executedOrders' = executedOrders \o m.executed
        /\ orderMap' = orderMap /\ status' = status
    BY Zenon, <1>3 DEF matchStep
  <2>2. b \in Books /\ order \in BookOrders(Refs, Prices)
    BY Zenon, <2>1, RestingOrdersAre DEF TypeOK
  <2>3. Indices = D /\ PoolTypeOK(pool, BookOrders(Refs, Prices))
    BY Zenon, IndicesAre, RestingOrdersAre DEF TypeOK
  <2>4. /\ orderBooks = [c \in Books |-> orderBooks[c]]
        /\ \A c \in Books : BookTypeOK(orderBooks[c], D, Prices)
    BY Zenon, <2>3 DEF TypeOK
  <2>5. /\ PoolTypeOK(m.pool, BookOrders(Refs, Prices))
        /\ m.pool.size = pool.size
        /\ BookTypeOK(m.book, D, Prices)
        /\ m.shares \in Nat
        /\ m.executed \in Seq([ref : Refs, shares : Nat])
        /\ m.removed \subseteq Refs
    <3>1. BookTypeOK(orderBooks[b], D, Prices)
      BY Zenon, <2>2, <2>4
    <3> HIDE DEF b, order
    <3> QED BY ZenonT(40), <2>1, <2>2, <2>3, <3>1, MessageAssumption, MatchHeadType
  <2> HIDE DEF m
  <2>6. PoolTypeOK(pool', RestingOrders) /\ Indices' = D
    BY ZenonT(40), <2>1, <2>5, RestingOrdersAre DEF PoolTypeOK, Indices
  <2>7. /\ orderBooks' = [c \in Books |-> orderBooks'[c]]
        /\ \A c \in Books : BookTypeOK(orderBooks'[c], D, Prices)
    <3> HIDE DEF b, D
    <3> QED BY ZenonT(40), <2>1, <2>2, <2>4, <2>5, SetBookType
  <2>8. incoming' \in [stockLocate : Books, order : RestingOrders]
    <3>1. incoming \in [stockLocate : Books, order : RestingOrders]
      BY ZenonT(40), <2>1 DEF TypeOK
    <3> QED BY ZenonT(40), <2>1, <2>5, <3>1 DEF RestingOrders
  <2>9. /\ removedRefs' \subseteq Refs
        /\ executedOrders' \in Seq([ref : Refs, shares : Nat])
    <3>1. /\ removedRefs \subseteq Refs
          /\ executedOrders \in Seq([ref : Refs, shares : Nat])
      BY Zenon DEF TypeOK
    <3> QED BY SMTT(40), <2>1, <2>5, <3>1
  <2>10. /\ DOMAIN orderMap' \subseteq Refs
         /\ orderMap' \in [DOMAIN orderMap' ->
                              [stockLocate : Books, poolIdx : D]]
    BY ZenonT(40), <2>1, <2>3 DEF TypeOK
  <2> QED BY ZenonT(40), <2>1, <2>6, <2>7, <2>8, <2>9, <2>10 DEF TypeOK
<1>4. ASSUME finishOrder PROVE TypeOK'
  <2> DEFINE b     == incoming.stockLocate
             order == incoming.order
             D     == 0 .. pool.size - 1
             rest  == restOrder(pool, orderBooks[b], order)
             idx   == allocatedIdx(pool)
             loc   == [stockLocate |-> b, poolIdx |-> idx]
             kept  == eraseRefs(orderMap, removedRefs)
  <2>1. /\ status = "matching" /\ status' = "idle" /\ incoming' = NoOrder
        /\ removedRefs' = removedRefs /\ executedOrders' = executedOrders
    BY Zenon, <1>4 DEF finishOrder
  <2>2. b \in Books /\ order \in BookOrders(Refs, Prices) /\ order.ref \in Refs
    BY ZenonT(40), <2>1, RestingOrdersAre DEF TypeOK, BookOrders
  <2>3. Indices = D /\ PoolTypeOK(pool, BookOrders(Refs, Prices))
    BY Zenon, IndicesAre, RestingOrdersAre DEF TypeOK
  <2>4. /\ orderBooks = [c \in Books |-> orderBooks[c]]
        /\ \A c \in Books : BookTypeOK(orderBooks[c], D, Prices)
    BY Zenon, <2>3 DEF TypeOK
  <2>5. /\ DOMAIN kept \subseteq Refs
        /\ kept \in [DOMAIN kept -> [stockLocate : Books, poolIdx : D]]
    BY Zenon, <2>3 DEF TypeOK, eraseRefs
  <2>6. CASE order.shares > 0
    <3>1. /\ pool' = rest.pool
          /\ orderBooks' = [orderBooks EXCEPT ![b] = rest.book]
          /\ orderMap' = insertRef(kept, order.ref, loc)
      BY ZenonT(40), <1>4, <2>6 DEF finishOrder
    <3> DEFINE E == 0 .. rest.pool.size - 1
    <3>2. /\ PoolTypeOK(rest.pool, BookOrders(Refs, Prices))
          /\ BookTypeOK(rest.book, E, Prices)
          /\ D \subseteq E
          /\ idx \in E
      <4>1. BookTypeOK(orderBooks[b], D, Prices)
        BY Zenon, <2>2, <2>4
      <4> HIDE DEF b, order
      <4> QED BY ZenonT(40), <2>2, <2>3, <4>1, PricesAreNat, RestOrderType
    <3> HIDE DEF rest, kept, idx
    <3>3. PoolTypeOK(pool', RestingOrders) /\ Indices' = E
      BY ZenonT(40), <3>1, <3>2, RestingOrdersAre DEF PoolTypeOK, Indices
    <3>4. /\ orderBooks' = [c \in Books |-> orderBooks'[c]]
          /\ \A c \in Books : BookTypeOK(orderBooks'[c], E, Prices)
      <4> HIDE DEF b, D, E
      <4> QED BY ZenonT(40), <2>2, <2>4, <3>1, <3>2, SetBookType
    <3>5. /\ DOMAIN orderMap' \subseteq Refs
          /\ orderMap' \in [DOMAIN orderMap' ->
                               [stockLocate : Books, poolIdx : E]]
      <4> HIDE DEF D, E
      <4> QED BY ZenonT(40), <2>2, <2>5, <3>1, <3>2 DEF insertRef
    <3> QED BY ZenonT(40), <2>1, <3>3, <3>4, <3>5 DEF TypeOK
  <2>7. CASE ~(order.shares > 0)
    <3>1. pool' = pool /\ orderBooks' = orderBooks /\ orderMap' = kept
      BY Zenon, <1>4, <2>7 DEF finishOrder
    <3>2. Indices' = D
      BY Zenon, <2>3, <3>1 DEF Indices
    <3> HIDE DEF kept
    <3> QED BY ZenonT(40), <2>1, <2>3, <2>5, <3>1, <3>2 DEF TypeOK
  <2> QED BY Zenon, <2>6, <2>7
<1>5. ASSUME NEW ref \in Refs, deleteOrder(ref) PROVE TypeOK'
  <2>1. ref \in DOMAIN orderMap /\ removeRef(ref)
    BY Zenon, <1>5 DEF deleteOrder
  <2>2. UNCHANGED <<status, incoming, removedRefs, executedOrders>>
    BY Zenon, <1>5 DEF deleteOrder
  <2> QED BY ZenonT(40), <2>1, <2>2, RemoveRefType DEF TypeOK
<1>6. ASSUME NEW ref \in Refs, NEW shares \in Quantities,
             reduceOrder(ref, shares)
      PROVE  TypeOK'
  <2> DEFINE idx == orderMap[ref].poolIdx
             left == pool.nodes[idx].order.shares - shares
             nodes == [pool.nodes EXCEPT ![idx].order.shares = left]
             D == 0 .. pool.size - 1
  <2>1. /\ status = "idle" /\ ref \in DOMAIN orderMap
        /\ UNCHANGED <<status, incoming, removedRefs, executedOrders>>
    BY Zenon, <1>6 DEF reduceOrder
  <2>2. CASE shares >= pool.nodes[idx].order.shares
    <3>1. removeRef(ref)
      BY Zenon, <1>6, <2>2 DEF reduceOrder
    <3> QED BY Zenon, <2>1, <3>1, RemoveRefType DEF TypeOK
  <2>3. CASE ~(shares >= pool.nodes[idx].order.shares)
    <3>1. /\ pool' = [pool EXCEPT !.nodes[idx].order.shares = left]
          /\ orderBooks' = orderBooks /\ orderMap' = orderMap
      BY Zenon, <1>6, <2>3 DEF reduceOrder
    <3>2. Indices = D /\ PoolTypeOK(pool, RestingOrders)
      BY Zenon, IndicesAre DEF TypeOK
    <3>3. idx \in D
      BY Zenon, <2>1, <3>2 DEF TypeOK
    <3>4. pool.nodes \in [D -> PoolNodes(RestingOrders, D)]
      BY Zenon, <3>2 DEF PoolTypeOK
    <3>5. left \in Nat
      <4>1. pool.nodes[idx].order.shares \in Nat
        BY Zenon, <3>3, <3>4 DEF PoolNodes, RestingOrders
      <4>2. shares \in Nat
        BY Zenon, PricesAreNat
      <4> QED BY <2>3, <4>1, <4>2
    <3>6. nodes \in [D -> PoolNodes(RestingOrders, D)]
      <4> HIDE DEF left, D
      <4> QED BY Zenon, <3>3, <3>4, <3>5 DEF PoolNodes, RestingOrders
    <3>7. pool' = [nodes |-> nodes, size |-> pool.size,
                   freeHead |-> pool.freeHead]
      BY ZenonT(40), <3>1, <3>2, ExceptPool DEF PoolTypeOK
    <3> HIDE DEF nodes, left, idx
    <3>8. PoolTypeOK(pool', RestingOrders) /\ pool'.size = pool.size
      BY <3>2, <3>6, <3>7, SetNodesType
    <3>9. Indices' = Indices
      BY Zenon, <3>2, <3>8 DEF PoolTypeOK, Indices
    <3> QED BY ZenonT(40), <2>1, <3>1, <3>8, <3>9 DEF TypeOK
  <2> QED BY Zenon, <2>2, <2>3
<1>7. ASSUME NEW ref \in Refs, NEW newRef \in Refs, NEW shares \in Quantities,
             NEW price \in Prices, replaceOrder(ref, newRef, shares, price)
      PROVE  TypeOK'
  <2> DEFINE loc   == orderMap[ref]
             side  == pool.nodes[loc.poolIdx].order.buySellIndicator
             order == [ref |-> newRef, buySellIndicator |-> side,
                       shares |-> shares, price |-> price]
  <2>1. /\ ref \in DOMAIN orderMap /\ removeRef(ref)
        /\ startMatching(loc.stockLocate, order)
    BY Zenon, <1>7 DEF replaceOrder
  <2>2. side \in Sides /\ loc.stockLocate \in Books
    <3>1. loc.poolIdx \in Indices /\ loc.stockLocate \in Books
      BY Zenon, <2>1 DEF TypeOK
    <3>2. pool.nodes \in [Indices -> PoolNodes(RestingOrders, Indices)]
      BY Zenon, IndicesAre DEF TypeOK, PoolTypeOK
    <3> QED BY Zenon, <3>1, <3>2 DEF PoolNodes, RestingOrders
  <2>3. order \in RestingOrders
    BY Zenon, <2>2, PricesAreNat DEF RestingOrders
  <2> HIDE DEF order
  <2>4. /\ status' = "matching"
        /\ incoming' \in [stockLocate : Books, order : RestingOrders]
        /\ removedRefs' = {} /\ executedOrders' = <<>>
    BY Zenon, <2>1, <2>2, <2>3 DEF startMatching
  <2> QED BY <2>1, <2>4, RemoveRefType DEF TypeOK
<1>8. ASSUME UNCHANGED vars PROVE TypeOK'
  BY Zenon, <1>8 DEF vars, TypeOK, Indices
<1> QED
  BY ZenonT(40), <1>1, <1>2, <1>3, <1>4, <1>5, <1>6, <1>7, <1>8 DEF Next, Terminated

(* Every index, price and quantity the engine stores stays in range, for   *)
(* every sequence of messages: every operator[] on the arena or the ladder *)
(* is within bounds and no share count goes below zero.                    *)
THEOREM TypeCorrect == Spec => []TypeOK
<1> QED
  BY TypeInit, TypeNext, PTL DEF Spec

-----------------------------------------------------------------------------
(***************************************************************************)
(* The inductive invariant.  The arena is one free list and one doubly     *)
(* linked queue for each stock, side and price, the caches of every side   *)
(* are right, and every queue and the order map agree; an order that is    *)
(* being matched under a fresh reference is not in the map.                *)
(***************************************************************************)
Queues == ChainsOf(pool, orderBooks, Books, Prices)

FreshIncoming ==
  status = "matching" /\ incoming.order.ref \in FreshRefs
    => incoming.order.ref \notin DOMAIN orderMap

EngineInv ==
  /\ TypeOK
  /\ Sound(pool, orderBooks, Books, Refs, Prices, orderMap, LiveRefs, FreshRefs)
  /\ FreshIncoming

(* The order `ref' of the map is the n-th one of the queue of b, s and p.  *)
Entry(ref, b, s, p, n) ==
  /\ b \in Books /\ s \in Sides /\ p \in Prices
  /\ orderMap[ref].stockLocate = b
  /\ At(b, s, p) \in DOMAIN Queues
  /\ n \in DOMAIN Queues[At(b, s, p)]
  /\ Queues[At(b, s, p)][n] = orderMap[ref].poolIdx
  /\ orderMap[ref].poolIdx \in DOMAIN pool.nodes
  /\ pool.nodes[orderMap[ref].poolIdx].order.ref = ref
  /\ pool.nodes[orderMap[ref].poolIdx].order.buySellIndicator = s
  /\ pool.nodes[orderMap[ref].poolIdx].order.price = p
  /\ pool.nodes[orderMap[ref].poolIdx].order.shares > 0

(* The invariant, taken apart with the engine's own free list and queues.  *)
LEMMA SoundIs ==
  ASSUME EngineInv
  PROVE  /\ Store(pool, orderBooks, Books, Refs, Prices, FreeOf(pool), Queues)
         /\ Consistent(pool.nodes, Queues, orderMap, LiveRefs, FreshRefs)
         /\ Slotted(pool.nodes, Queues)
         /\ DOMAIN Queues = PlacesOf(Books, Prices)
         /\ Prices \subseteq Nat
<1>1. /\ Store(pool, orderBooks, Books, Refs, Prices, FreeOf(pool), Queues)
      /\ Consistent(pool.nodes, Queues, orderMap, LiveRefs, FreshRefs)
  BY Zenon DEF EngineInv, Sound, Queues
<1>2. PICK Q : Q = Queues
  BY Zenon
<1>3. /\ Store(pool, orderBooks, Books, Refs, Prices, FreeOf(pool), Q)
  BY Zenon, <1>1, <1>2
<1>4. Slotted(pool.nodes, Q) /\ DOMAIN Q = PlacesOf(Books, Prices)
  BY Zenon, <1>3, StoreSlotted
<1> QED
  BY Zenon, <1>1, <1>2, <1>4, PricesAreNat

(* Every live entry has such a place.                                      *)
LEMMA EntryExists ==
  ASSUME EngineInv, NEW ref \in LiveRefs
  PROVE  \E b, s, p, n : Entry(ref, b, s, p, n)
<1>1. PICK idx : idx = orderMap[ref].poolIdx
  BY Zenon
<1>2. PICK k \in DOMAIN Queues : /\ k[1] = orderMap[ref].stockLocate
                                 /\ idx \in Members(Queues[k])
                                 /\ pool.nodes[idx].order.ref = ref
  BY Zenon, <1>1, SoundIs DEF Consistent, Mapped
<1>3. /\ pool.nodes[idx].order.buySellIndicator = k[2]
      /\ pool.nodes[idx].order.price = k[3]
      /\ pool.nodes[idx].order.shares > 0
  BY Zenon, <1>2, SoundIs DEF Consistent, Filed
<1>4. k[1] \in Books /\ k[2] \in Sides /\ k[3] \in Prices /\ k = At(k[1], k[2], k[3])
  BY Zenon, <1>2, SoundIs, PlaceIs
<1>5. PICK n \in DOMAIN Queues[k] : Queues[k][n] = idx
  BY Zenon, <1>2 DEF Members
<1>6. idx \in DOMAIN pool.nodes
  BY Zenon, <1>2, SoundIs DEF Slotted
<1>7. PICK b, s, p : b = k[1] /\ s = k[2] /\ p = k[3] /\ k = At(b, s, p)
  BY Zenon, <1>4
<1>8. Entry(ref, b, s, p, n)
  <2> HIDE DEF Queues
  <2> QED
    BY Zenon, <1>1, <1>2, <1>3, <1>4, <1>5, <1>6, <1>7 DEF Entry
<1> QED
  BY Zenon, <1>8

(* removeRef takes the order out of its queue.                             *)
LEMMA RemoveTakes ==
  ASSUME EngineInv, NEW ref, NEW b, NEW s, NEW p, NEW n, Entry(ref, b, s, p, n),
         removeRef(ref)
  PROVE  Taken(pool, Books, Refs, Prices, FreeOf(pool), Queues, At(b, s, p), n,
               pool', orderBooks')
<1>1. PICK Q, f : Q = Queues /\ f = FreeOf(pool)
  BY Zenon
<1>2. PICK rest : rest = removeByIndex(pool, orderBooks[b], Q[At(b, s, p)][n])
  BY Zenon
<1>3. pool' = rest.pool /\ orderBooks' = [orderBooks EXCEPT ![b] = rest.book]
  BY Zenon, <1>1, <1>2 DEF removeRef, Entry
<1>4. /\ b \in Books /\ s \in Sides /\ p \in Prices /\ n \in DOMAIN Q[At(b, s, p)]
      /\ pool.nodes[Q[At(b, s, p)][n]].order.buySellIndicator = s
      /\ pool.nodes[Q[At(b, s, p)][n]].order.price = p
  BY Zenon, <1>1 DEF Entry
<1>5. Store(pool, orderBooks, Books, Refs, Prices, f, Q) /\ Prices \subseteq Nat
  BY Zenon, <1>1, SoundIs
<1>6. Taken(pool, Books, Refs, Prices, f, Q, At(b, s, p), n, rest.pool,
            [orderBooks EXCEPT ![b] = rest.book])
  BY ZenonT(40), <1>2, <1>4, <1>5, StoreRemove
<1> QED
  BY <1>1, <1>3, <1>6, ZenonT(40)

(* removeRef keeps pool, books and map sound.                              *)
LEMMA RemoveSound ==
  ASSUME EngineInv, status = "idle", NEW ref \in DOMAIN orderMap, removeRef(ref)
  PROVE  Sound(pool', orderBooks', Books, Refs, Prices, orderMap', DOMAIN orderMap', FreshRefs)
<1>1. LiveRefs = DOMAIN orderMap
  BY Zenon DEF LiveRefs
<1>2. PICK b, s, p, n : Entry(ref, b, s, p, n)
  BY Zenon, <1>1, EntryExists
<1>3. PICK Q, f, k, idx : Q = Queues /\ f = FreeOf(pool) /\ k = At(b, s, p) /\ idx = Q[k][n]
  BY Zenon
<1>4. Taken(pool, Books, Refs, Prices, f, Q, k, n, pool', orderBooks')
  BY Zenon, <1>2, <1>3, RemoveTakes
<1>5. /\ Store(pool', orderBooks', Books, Refs, Prices, <<idx>> \o f, SetAt(Q, k, Cut(Q[k], n)))
      /\ Drops(Q, SetAt(Q, k, Cut(Q[k], n)), idx)
      /\ SameOrders(pool.nodes, pool'.nodes)
  BY Zenon, <1>3, <1>4 DEF Taken
<1>6. /\ Consistent(pool.nodes, Q, orderMap, DOMAIN orderMap, FreshRefs)
      /\ Slotted(pool.nodes, Q) /\ Prices \subseteq Nat
  BY Zenon, <1>1, <1>3, SoundIs
<1>7. /\ k \in DOMAIN Q /\ idx \in Members(Q[k]) /\ pool.nodes[idx].order.ref = ref
  BY Zenon, <1>2, <1>3 DEF Entry, Members
<1>8. OthersKeep(pool.nodes, pool'.nodes, idx)
  BY Zenon, <1>5 DEF SameOrders, OthersKeep
<1>9. /\ DOMAIN orderMap' = DOMAIN orderMap \ {ref}
      /\ \A r \in DOMAIN orderMap \ {ref} : orderMap'[r] = orderMap[r]
  BY Zenon DEF removeRef, eraseRefs
<1>10. Consistent(pool'.nodes, SetAt(Q, k, Cut(Q[k], n)), orderMap', DOMAIN orderMap', FreshRefs)
  <2>1. PICK nodes2, Q2, map2 : /\ nodes2 = pool'.nodes /\ map2 = orderMap'
                                /\ Q2 = SetAt(Q, k, Cut(Q[k], n))
    BY Zenon
  <2>2. \A r \in DOMAIN orderMap \ {pool.nodes[idx].order.ref} : map2[r] = orderMap[r]
    BY ZenonT(40), <1>7, <1>9, <2>1
  <2>3. Consistent(nodes2, Q2, map2, DOMAIN orderMap \ {pool.nodes[idx].order.ref}, FreshRefs)
    BY SMTT(40), <1>5, <1>6, <1>7, <1>8, <2>1, <2>2, TakeKeeps
  <2> QED
    BY Zenon, <1>7, <1>9, <2>1, <2>3
<1> QED
  BY ZenonT(40), <1>5, <1>6, <1>10, SoundBy

(* A side before its first order.                                          *)
LEMMA NewSideInv ==
  ASSUME NEW s, NEW P
  PROVE  SideInv(s, NewSide, P) /\ \A p : LevelAt(NewSide, p) = EmptyLevel
<1>1. PICK side : side = NewSide
  BY Zenon
<1>2. /\ side.ladder = [k \in Slots |-> EmptyLevel] /\ side.overflow = <<>>
      /\ side.anchored = FALSE /\ side.bestSlot = INVALID_INDEX
  BY Zenon, <1>1 DEF NewSide
<1>3. DOMAIN side.overflow = {} /\ \A k \in Slots : side.ladder[k] = EmptyLevel
  BY <1>2
<1>4. EmptyLevel.head = INVALID_INDEX
  BY Zenon DEF EmptyLevel
<1>5. SideInv(s, side, P)
  BY Zenon, <1>2, <1>3, <1>4 DEF SideInv, BestOK
<1>6. ASSUME NEW p PROVE LevelAt(side, p) = EmptyLevel
  <2>1. priceToSlot(side, p) = INVALID_INDEX
    BY Zenon, <1>2 DEF priceToSlot
  <2> QED
    BY Zenon, <1>3, <2>1 DEF LevelAt
<1> QED
  BY Zenon, <1>1, <1>5, <1>6

(* Nothing is in the arena, the books or the map.                          *)
LEMMA InitSound == Init => EngineInv
<1> SUFFICES ASSUME Init PROVE EngineInv
  BY Zenon
<1>1. TypeOK
  BY Zenon, TypeInit
<1>2. /\ pool.nodes = <<>> /\ pool.freeHead = INVALID_INDEX /\ orderMap = <<>>
      /\ orderBooks = [b \in Books |-> NewBook] /\ status = "idle"
  BY Zenon DEF Init, EmptyPool
<1> DEFINE lv == LevelsOf(orderBooks, Books, Prices)
           Q == [k \in PlacesOf(Books, Prices) |-> <<>>]
<1>3. \A b \in Books, s \in Sides : orderBooks[b][s] = NewSide
  BY Zenon, <1>2 DEF NewBook
<1>4. /\ DOMAIN lv = PlacesOf(Books, Prices)
      /\ \A k \in PlacesOf(Books, Prices) : lv[k] = EmptyLevel
  <2>1. DOMAIN lv = PlacesOf(Books, Prices)
    BY Zenon DEF LevelsOf, PlacesOf
  <2>2. ASSUME NEW k \in PlacesOf(Books, Prices) PROVE lv[k] = EmptyLevel
    <3>1. k[1] \in Books /\ k[2] \in Sides
      BY Zenon, PlaceIs
    <3>2. lv[k] = LevelAt(orderBooks[k[1]][k[2]], k[3])
      BY Zenon DEF LevelsOf, PlacesOf
    <3>3. lv[k] = LevelAt(NewSide, k[3])
      BY Zenon, <1>3, <3>1, <3>2
    <3> HIDE DEF lv
    <3> QED
      BY Zenon, <3>3, NewSideInv
  <2> QED
    BY Zenon, <2>1, <2>2
<1> HIDE DEF lv
<1>5. DOMAIN Q = PlacesOf(Books, Prices) /\ \A k \in PlacesOf(Books, Prices) : Q[k] = <<>>
  BY Zenon
<1> HIDE DEF Q
<1>6. /\ Members(<<>>) = {} /\ DOMAIN <<>> = {} /\ Distinct(<<>>)
      /\ IsList(pool.nodes, INVALID_INDEX, <<>>)
  BY DEF Members, Distinct, IsList
<1>7. EmptyLevel.head = INVALID_INDEX /\ EmptyLevel.tail = INVALID_INDEX
  BY Zenon DEF EmptyLevel
<1>8. IsQueue(pool.nodes, EmptyLevel, <<>>)
  BY Zenon, <1>6, <1>7 DEF IsQueue
<1>9. Arena(pool, lv, <<>>, Q)
  BY Zenon, <1>2, <1>4, <1>5, <1>6, <1>8 DEF Arena
<1>10. Store(pool, orderBooks, Books, Refs, Prices, <<>>, Q)
  <2>1. /\ PoolTypeOK(pool, BookOrders(Refs, Prices))
        /\ orderBooks = [b \in Books |-> orderBooks[b]]
        /\ \A b \in Books : BookTypeOK(orderBooks[b], DOMAIN pool.nodes, Prices)
    BY Zenon, <1>1, RestingOrdersAre DEF TypeOK, Indices
  <2>2. \A b \in Books, s \in Sides : SideInv(s, orderBooks[b][s], Prices)
    BY Zenon, <1>3, NewSideInv
  <2> QED
    BY Zenon, <1>9, <2>1, <2>2 DEF Store, lv
<1>11. Consistent(pool.nodes, Q, orderMap, LiveRefs, FreshRefs)
  <2>1. LiveRefs = {} /\ \A k \in DOMAIN Q : Members(Q[k]) = {}
    BY Zenon, <1>2, <1>5, <1>6 DEF LiveRefs
  <2> QED
    BY Zenon, <2>1 DEF Consistent, Filed, Mapped, Entered, Uncrossed
<1>12. Sound(pool, orderBooks, Books, Refs, Prices, orderMap, LiveRefs, FreshRefs)
  BY ZenonT(40), <1>10, <1>11, PricesAreNat, SoundBy
<1> QED
  BY Zenon, <1>1, <1>2, <1>12 DEF EngineInv, FreshIncoming

(* A step of the matching loop: the incoming order meets the first order   *)
(* of the best opposite queue.                                             *)
LEMMA MatchMeets ==
  ASSUME EngineInv, status = "matching", NEW b, b = incoming.stockLocate,
         NEW order, order = incoming.order, crosses(orderBooks[b], order),
         NEW o, o = Opposite(order.buySellIndicator),
         NEW p, p = bestPrice(o, orderBooks[b][o]),
         NEW m, m = matchHead(pool, orderBooks[b], order)
  PROVE  /\ b \in Books /\ order \in BookOrders(Refs, Prices)
         /\ Meets(pool, orderBooks, b, order, Prices, Queues, o, p)
         /\ Trades(pool, orderBooks, Books, Refs, Prices, FreeOf(pool), Queues, b, order,
                   At(b, o, p), m)
<1>1. b \in Books /\ order \in BookOrders(Refs, Prices)
  BY Zenon, RestingOrdersAre DEF EngineInv, TypeOK
<1>3. PICK Q, f : Q = Queues /\ f = FreeOf(pool)
  BY Zenon
<1>4. Store(pool, orderBooks, Books, Refs, Prices, f, Q)
  BY Zenon, <1>3, SoundIs
<1>5. MaxPrice \in Nat /\ Prices \subseteq 0 .. MaxPrice
  BY Zenon, MessageAssumption
<1>6. Meets(pool, orderBooks, b, order, Prices, Q, o, p)
  BY ZenonT(40), <1>1, <1>4, <1>5, StoreMeets
<1>7. Trades(pool, orderBooks, Books, Refs, Prices, f, Q, b, order, At(b, o, p), m)
  BY ZenonT(40), <1>1, <1>4, <1>5, <1>6, StoreTrade
<1> QED
  BY Zenon, <1>1, <1>3, <1>6, <1>7

(* A step of the matching loop keeps pool, books and map sound.            *)
LEMMA MatchSound ==
  ASSUME EngineInv, matchStep
  PROVE  Sound(pool', orderBooks', Books, Refs, Prices, orderMap', LiveRefs', FreshRefs)
<1>1. PICK b, order, o, p, m :
        /\ b = incoming.stockLocate /\ order = incoming.order
        /\ o = Opposite(order.buySellIndicator)
        /\ p = bestPrice(o, orderBooks[b][o])
        /\ m = matchHead(pool, orderBooks[b], order)
  BY Zenon
<1>2. PICK Q, f, k, idx : Q = Queues /\ f = FreeOf(pool) /\ k = At(b, o, p) /\ idx = Q[k][1]
  BY Zenon, SMTT(40)
<1>3. /\ b \in Books /\ order \in BookOrders(Refs, Prices)
      /\ Meets(pool, orderBooks, b, order, Prices, Q, o, p)
      /\ Trades(pool, orderBooks, Books, Refs, Prices, f, Q, b, order, k, m)
  <2>1. status = "matching" /\ crosses(orderBooks[b], order)
    BY Zenon, <1>1 DEF matchStep
  <2> QED
    BY Zenon, <1>1, <1>2, <2>1, MatchMeets
<1>4. /\ pool' = m.pool /\ orderBooks' = [orderBooks EXCEPT ![b] = m.book]
      /\ status = "matching" /\ status' = "matching" /\ orderMap' = orderMap
      /\ removedRefs' = removedRefs \cup m.removed
  BY Zenon, <1>1 DEF matchStep
<1>5. LiveRefs' = LiveRefs \ m.removed
  BY Zenon, <1>4 DEF LiveRefs
<1>6. /\ Store(pool, orderBooks, Books, Refs, Prices, f, Q)
      /\ Consistent(pool.nodes, Q, orderMap, LiveRefs, FreshRefs)
      /\ Slotted(pool.nodes, Q) /\ Prices \subseteq Nat
  BY Zenon, <1>2, SoundIs
<1>7. k \in DOMAIN Q /\ idx \in Members(Q[k]) /\ idx \in DOMAIN pool.nodes
  BY Zenon, <1>2, <1>3 DEF Meets, Members
<1>8. FirstTrade(pool, order, idx, m)
  BY Zenon, <1>2, <1>3 DEF Trades
<1>9. CASE FillsFirst(pool.nodes, idx, order)
  <2>1. Filled(pool, Books, Refs, Prices, f, Q, k, pool', orderBooks')
    BY Zenon, <1>2, <1>3, <1>4, <1>9 DEF Trades
  <2>2. PICK Q2 : Q2 = SetAt(Q, k, Cut(Q[k], 1))
    BY Zenon
  <2>3. /\ Store(pool', orderBooks', Books, Refs, Prices, <<idx>> \o f, Q2)
        /\ Drops(Q, Q2, idx) /\ OthersKeep(pool.nodes, pool'.nodes, idx)
    BY Zenon, <1>2, <2>1, <2>2 DEF Filled
  <2>4. m.removed = {pool.nodes[idx].order.ref}
    BY Zenon, <1>8, <1>9 DEF FirstTrade, FillsFirst
  <2>5. PICK nodes2, live : nodes2 = pool'.nodes /\ live = LiveRefs
    BY Zenon, SMTT(40)
  <2>6. Consistent(nodes2, Q2, orderMap, live \ {pool.nodes[idx].order.ref}, FreshRefs)
    <3>1. \A r \in live \ {pool.nodes[idx].order.ref} : orderMap[r] = orderMap[r]
      BY Zenon
    <3> QED
      BY Zenon, <1>6, <1>7, <2>3, <2>5, <3>1, TakeKeeps
  <2>7. Consistent(pool'.nodes, Q2, orderMap', LiveRefs', FreshRefs)
    BY Zenon, <1>4, <1>5, <2>4, <2>5, <2>6
  <2> QED
    BY ZenonT(40), <1>6, <2>3, <2>7, SoundBy
<1>10. CASE ~FillsFirst(pool.nodes, idx, order)
  <2>1. PICK t : t = TradeSize(pool.nodes, idx, order)
    BY Zenon
  <2>2. /\ Store(pool', orderBooks', Books, Refs, Prices, f, Q)
        /\ Pays(pool.nodes, pool'.nodes, idx, t)
    BY ZenonT(40), <1>2, <1>3, <1>4, <1>10, <2>1 DEF Trades
  <2>3. m.removed = {}
    BY Zenon, <1>8, <1>10 DEF FirstTrade, FillsFirst
  <2>4. pool.nodes[idx].order \in BookOrders(Refs, Prices)
    BY Zenon, <1>6, <1>7 DEF Store, PoolTypeOK, PoolNodes
  <2>5. /\ pool.nodes[idx].order.shares \in Nat /\ t \in Nat
        /\ t < pool.nodes[idx].order.shares
    <3>1. pool.nodes[idx].order.shares \in Nat /\ order.shares \in Nat
      BY Zenon, <1>3, <2>4 DEF BookOrders
    <3> QED
      BY Zenon, <1>10, <2>1, <3>1 DEF FillsFirst, TradeSize
  <2>6. Consistent(pool'.nodes, Q, orderMap, LiveRefs, FreshRefs)
    <3>1. PICK nodes2, live : nodes2 = pool'.nodes /\ live = LiveRefs
      BY Zenon
    <3>2. Consistent(nodes2, Q, orderMap, live, FreshRefs)
      BY Zenon, <1>6, <2>2, <2>4, <2>5, <3>1, PayKeeps
    <3> QED
      BY Zenon, <3>1, <3>2
  <2>7. Consistent(pool'.nodes, Q, orderMap', LiveRefs', FreshRefs)
    <3>1. LiveRefs' = LiveRefs
      BY Zenon, <1>5, <2>3
    <3> QED
      BY Zenon, <1>4, <2>6, <3>1
  <2> QED
    BY ZenonT(40), <1>6, <2>2, <2>7, SoundBy
<1> QED
  BY Zenon, <1>9, <1>10

(* The remainder of an order joins the queue of its price.                 *)
LEMMA FinishRests ==
  ASSUME EngineInv, finishOrder, NEW b, b = incoming.stockLocate,
         NEW order, order = incoming.order, order.shares > 0,
         NEW s, s = order.buySellIndicator, NEW p, p = order.price,
         NEW idx, idx = allocatedIdx(pool), NEW Q2,
         Q2 = SetAt(Queues, At(b, s, p), Append(Queues[At(b, s, p)], idx))
  PROVE  /\ b \in Books /\ order \in BookOrders(Refs, Prices)
         /\ ~crosses(orderBooks[b], order)
         /\ Store(pool', orderBooks', Books, Refs, Prices, Rest(FreeOf(pool)), Q2)
         /\ Joins(Queues, Q2, At(b, s, p), idx)
         /\ AddsOrder(pool.nodes, pool'.nodes, idx, order)
<1>1. b \in Books /\ order \in BookOrders(Refs, Prices)
  BY Zenon, RestingOrdersAre DEF EngineInv, TypeOK, finishOrder
<1>2. ~crosses(orderBooks[b], order)
  BY Zenon DEF finishOrder
<1>3. PICK Q, f, k, mem2, books2 :
        /\ Q = Queues /\ f = FreeOf(pool) /\ k = At(b, s, p)
        /\ mem2 = pool' /\ books2 = orderBooks'
  BY Zenon
<1>4. RestsIn(pool, orderBooks, b, order, k, idx, mem2, books2)
  BY <1>3, ZenonT(40) DEF finishOrder, RestsIn
<1>5. Store(pool, orderBooks, Books, Refs, Prices, f, Q) /\ Prices \subseteq Nat
  BY Zenon, <1>3, SoundIs
<1>6. /\ Store(mem2, books2, Books, Refs, Prices, Rest(f), SetAt(Q, k, Append(Q[k], idx)))
      /\ Joins(Q, SetAt(Q, k, Append(Q[k], idx)), k, idx)
      /\ AddsOrder(pool.nodes, mem2.nodes, idx, order)
  BY ZenonT(40), <1>1, <1>4, <1>5, StoreRests
<1> QED
  BY Zenon, <1>1, <1>2, <1>3, <1>6

(* The end of handleOrder keeps pool, books and map sound.                 *)
LEMMA FinishSound ==
  ASSUME EngineInv, finishOrder
  PROVE  Sound(pool', orderBooks', Books, Refs, Prices, orderMap', LiveRefs', FreshRefs)
<1>1. PICK b, order, s, p, idx :
        /\ b = incoming.stockLocate /\ order = incoming.order
        /\ s = order.buySellIndicator /\ p = order.price /\ idx = allocatedIdx(pool)
  BY Zenon
<1>2. PICK Q, f, k, live, kept :
        /\ Q = Queues /\ f = FreeOf(pool) /\ k = At(b, s, p) /\ live = LiveRefs
        /\ kept = eraseRefs(orderMap, removedRefs)
  BY Zenon
<1>3. /\ status = "matching" /\ status' = "idle"
      /\ live = DOMAIN orderMap \ removedRefs /\ LiveRefs' = DOMAIN orderMap'
  BY Zenon, <1>2 DEF finishOrder, LiveRefs
<1>4. DOMAIN kept = live /\ \A r \in live : kept[r] = orderMap[r]
  BY Zenon, <1>2, <1>3 DEF eraseRefs
<1>5. /\ Store(pool, orderBooks, Books, Refs, Prices, f, Q)
      /\ Consistent(pool.nodes, Q, orderMap, live, FreshRefs)
      /\ Slotted(pool.nodes, Q) /\ Prices \subseteq Nat
      /\ DOMAIN Q = PlacesOf(Books, Prices)
  BY Zenon, <1>2, SoundIs
<1>6. CASE order.shares > 0
  <2>1. PICK Q2 : Q2 = SetAt(Q, k, Append(Q[k], idx))
    BY Zenon, SMTT(40)
  <2>2. /\ b \in Books /\ order \in BookOrders(Refs, Prices)
        /\ ~crosses(orderBooks[b], order)
        /\ Store(pool', orderBooks', Books, Refs, Prices, Rest(f), Q2)
        /\ Joins(Q, Q2, k, idx)
        /\ AddsOrder(pool.nodes, pool'.nodes, idx, order)
    BY Zenon, <1>1, <1>2, <1>6, <2>1, FinishRests
  <2>3. /\ s \in Sides /\ p \in Prices /\ order.ref \in Refs
        /\ k[1] = b /\ k[2] = s /\ k[3] = p /\ k \in DOMAIN Q
    BY Zenon, <1>1, <1>2, <1>5, <2>2 DEF BookOrders, At, PlacesOf
  <2>4. Uncrossed(Q2)
    <3>1. Uncrossed(Q) /\ MaxPrice \in Nat /\ Prices \subseteq 0 .. MaxPrice
      BY Zenon, <1>5, MessageAssumption DEF Consistent
    <3>2. Joins(Q, Q2, At(b, s, p), idx)
      BY Zenon, <1>2, <2>2
    <3> QED
      BY ZenonT(40), <1>1, <1>5, <1>6, <2>2, <3>1, <3>2, RestUncrossed
  <2>5. orderMap' = insertRef(kept, order.ref, [stockLocate |-> b, poolIdx |-> idx])
    BY <1>1, <1>2, <1>6, ZenonT(40) DEF finishOrder
  <2>6. /\ DOMAIN orderMap' = live \cup {order.ref}
        /\ orderMap'[order.ref] = [stockLocate |-> k[1], poolIdx |-> idx]
        /\ \A r \in live \ {order.ref} : orderMap'[r] = orderMap[r]
    BY Zenon, <1>4, <2>3, <2>5 DEF insertRef
  <2>7. order.ref \in FreshRefs => order.ref \notin live
    BY Zenon, <1>1, <1>3 DEF EngineInv, FreshIncoming
  <2>8. Consistent(pool'.nodes, Q2, orderMap', live \cup {order.ref}, FreshRefs)
    <3>1. PICK nodes2, map2 : nodes2 = pool'.nodes /\ map2 = orderMap'
      BY Zenon, SMTT(40)
    <3>2. /\ Enters(orderMap, map2, live, order.ref, k[1], idx)
          /\ BelongsIn(order, k)
          /\ AddsOrder(pool.nodes, nodes2, idx, order)
      BY SMTT(40), <1>1, <1>6, <2>2, <2>3, <2>6, <3>1 DEF Enters, BelongsIn
    <3>3. Consistent(nodes2, Q2, map2, live \cup {order.ref}, FreshRefs)
      BY Zenon, <1>5, <2>2, <2>3, <2>4, <2>7, <3>2, JoinKeeps
    <3> QED
      BY Zenon, <3>1, <3>3
  <2>9. Consistent(pool'.nodes, Q2, orderMap', LiveRefs', FreshRefs)
    BY Zenon, <1>3, <2>6, <2>8
  <2> QED
    BY ZenonT(40), <1>5, <2>2, <2>9, SoundBy
<1>7. CASE ~(order.shares > 0)
  <2>1. pool' = pool /\ orderBooks' = orderBooks /\ orderMap' = kept
    BY Zenon, <1>1, <1>2, <1>7 DEF finishOrder
  <2>2. Mapped(pool.nodes, Q, kept, live)
    BY Zenon, <1>4, <1>5 DEF Consistent, Mapped
  <2>3. Entered(pool.nodes, Q, kept, live, FreshRefs)
    BY ZenonT(40), <1>4, <1>5 DEF Consistent, Entered
  <2>4. Consistent(pool.nodes, Q, kept, live, FreshRefs)
    BY Zenon, <1>5, <2>2, <2>3 DEF Consistent
  <2>5. Consistent(pool'.nodes, Q, orderMap', LiveRefs', FreshRefs)
    BY Zenon, <1>3, <1>4, <2>1, <2>4
  <2>6. Store(pool', orderBooks', Books, Refs, Prices, f, Q)
    BY Zenon, <1>5, <2>1
  <2> QED
    BY ZenonT(40), <1>5, <2>5, <2>6, SoundBy
<1> QED
  BY Zenon, <1>6, <1>7

(* A partial execution or cancel takes shares and moves nothing.           *)
LEMMA ReducePays ==
  ASSUME EngineInv, NEW ref, NEW shares \in Quantities, NEW idx, idx = orderMap[ref].poolIdx,
         reduceOrder(ref, shares), ~(shares >= pool.nodes[idx].order.shares)
  PROVE  /\ Store(pool', orderBooks', Books, Refs, Prices, FreeOf(pool), Queues)
         /\ Pays(pool.nodes, pool'.nodes, idx, shares)
         /\ Consistent(pool'.nodes, Queues, orderMap, LiveRefs, FreshRefs)
<1>1. PICK Q, f, mem2 : Q = Queues /\ f = FreeOf(pool) /\ mem2 = pool'
  BY Zenon
<1>2. mem2 = PaidPool(pool, idx, shares) /\ orderBooks' = orderBooks
  BY <1>1, ZenonT(40) DEF reduceOrder, PaidPool
<1>3. /\ Store(pool, orderBooks, Books, Refs, Prices, f, Q)
      /\ Consistent(pool.nodes, Q, orderMap, LiveRefs, FreshRefs)
      /\ Slotted(pool.nodes, Q)
  BY Zenon, <1>1, SoundIs
<1>4. idx \in DOMAIN pool.nodes
  BY Zenon DEF EngineInv, TypeOK, reduceOrder, Indices
<1>5. PoolTypeOK(pool, BookOrders(Refs, Prices))
  BY Zenon, <1>3 DEF Store
<1>6. pool.nodes[idx].order \in BookOrders(Refs, Prices)
  BY ZenonT(40), <1>4, <1>5 DEF PoolTypeOK, PoolNodes
<1>7. /\ pool.nodes[idx].order.shares \in Nat /\ shares \in Nat
      /\ shares < pool.nodes[idx].order.shares /\ shares <= pool.nodes[idx].order.shares
  <2>1. pool.nodes[idx].order.shares \in Nat /\ shares \in Nat
    BY ZenonT(40), <1>6, PricesAreNat DEF BookOrders
  <2> QED
    BY SMTT(40), <2>1
<1>8. /\ PoolTypeOK(mem2, BookOrders(Refs, Prices)) /\ mem2.freeHead = pool.freeHead
      /\ Pays(pool.nodes, mem2.nodes, idx, shares)
  BY SMTT(40), <1>2, <1>4, <1>5, <1>7, PayPool
<1>9. Store(mem2, orderBooks, Books, Refs, Prices, f, Q)
  BY Zenon, <1>3, <1>4, <1>8, StorePay
<1>10. Consistent(mem2.nodes, Q, orderMap, LiveRefs, FreshRefs)
  <2>1. PICK nodes2, live : nodes2 = mem2.nodes /\ live = LiveRefs
    BY Zenon, SMTT(40)
  <2>2. Consistent(nodes2, Q, orderMap, live, FreshRefs)
    BY ZenonT(40), <1>3, <1>6, <1>7, <1>8, <2>1, PayKeeps
  <2> QED
    BY Zenon, <2>1, <2>2
<1> QED
  BY Zenon, <1>1, <1>2, <1>8, <1>9, <1>10

(* reduceOrder keeps pool, books and map sound.                            *)
LEMMA ReduceSound ==
  ASSUME EngineInv, NEW ref \in Refs, NEW shares \in Quantities, reduceOrder(ref, shares)
  PROVE  Sound(pool', orderBooks', Books, Refs, Prices, orderMap', LiveRefs', FreshRefs)
<1>1. PICK idx : idx = orderMap[ref].poolIdx
  BY Zenon
<1>2. /\ status = "idle" /\ status' = "idle" /\ ref \in DOMAIN orderMap
      /\ LiveRefs' = DOMAIN orderMap' /\ LiveRefs = DOMAIN orderMap
  BY Zenon DEF reduceOrder, LiveRefs
<1>3. CASE shares >= pool.nodes[idx].order.shares
  <2>1. removeRef(ref)
    BY Zenon, <1>1, <1>3 DEF reduceOrder
  <2> QED
    BY Zenon, <1>2, <2>1, RemoveSound
<1>4. CASE ~(shares >= pool.nodes[idx].order.shares)
  <2>1. PICK Q, f : Q = Queues /\ f = FreeOf(pool)
    BY Zenon, SMTT(40)
  <2>2. /\ Store(pool', orderBooks', Books, Refs, Prices, f, Q)
        /\ Consistent(pool'.nodes, Q, orderMap, LiveRefs, FreshRefs)
    BY Zenon, <1>1, <1>4, <2>1, ReducePays
  <2>3. orderMap' = orderMap
    BY Zenon, <1>1, <1>4 DEF reduceOrder
  <2>4. Consistent(pool'.nodes, Q, orderMap', LiveRefs', FreshRefs)
    BY Zenon, <1>2, <2>2, <2>3
  <2> QED
    BY ZenonT(40), <2>2, <2>4, PricesAreNat, SoundBy
<1> QED
  BY Zenon, <1>3, <1>4

(* Every step keeps the invariant.                                         *)
LEMMA InvNext == EngineInv /\ [Next]_vars => EngineInv'
<1> SUFFICES ASSUME EngineInv, [Next]_vars
             PROVE  /\ Sound(pool', orderBooks', Books, Refs, Prices, orderMap', LiveRefs', FreshRefs)
                    /\ FreshIncoming'
  BY Zenon, TypeNext DEF EngineInv
<1>0. /\ TypeOK /\ FreshIncoming
      /\ Sound(pool, orderBooks, Books, Refs, Prices, orderMap, LiveRefs, FreshRefs)
  BY Zenon DEF EngineInv
<1>1. ASSUME NEW b \in Books, NEW order \in Orders, addOrder(b, order)
      PROVE  /\ LiveRefs' = LiveRefs /\ FreshIncoming'
             /\ pool' = pool /\ orderBooks' = orderBooks /\ orderMap' = orderMap
  BY Zenon, <1>1 DEF addOrder, startMatching, LiveRefs, FreshIncoming
<1>2. ASSUME addOrderBadSide
      PROVE  /\ LiveRefs' = LiveRefs /\ FreshIncoming'
             /\ pool' = pool /\ orderBooks' = orderBooks /\ orderMap' = orderMap
  BY Zenon, <1>2 DEF addOrderBadSide, LiveRefs, FreshIncoming
<1>3. ASSUME matchStep PROVE FreshIncoming'
  <2>1. PICK m : m = matchHead(pool, orderBooks[incoming.stockLocate], incoming.order)
    BY Zenon
  <2>2. /\ status = "matching" /\ orderMap' = orderMap
        /\ incoming' = [incoming EXCEPT !.order.shares = m.shares]
    BY Zenon, <1>3, <2>1 DEF matchStep
  <2>3. incoming \in [stockLocate : Books, order : RestingOrders]
    BY Zenon, <1>0, <2>2 DEF TypeOK
  <2>4. incoming'.order.ref = incoming.order.ref
    BY Zenon, <2>2, <2>3 DEF RestingOrders
  <2> QED
    BY Zenon, <1>0, <2>2, <2>4 DEF FreshIncoming
<1>4. ASSUME finishOrder PROVE FreshIncoming'
  BY Zenon, <1>4 DEF finishOrder, FreshIncoming
<1>5. ASSUME NEW ref \in Refs, deleteOrder(ref)
      PROVE  /\ Sound(pool', orderBooks', Books, Refs, Prices, orderMap', LiveRefs', FreshRefs)
             /\ FreshIncoming'
  <2>1. /\ status = "idle" /\ status' = "idle" /\ ref \in DOMAIN orderMap /\ removeRef(ref)
        /\ LiveRefs' = DOMAIN orderMap'
    BY Zenon, <1>5 DEF deleteOrder, LiveRefs
  <2> QED
    BY Zenon, <2>1, RemoveSound DEF FreshIncoming
<1>6. ASSUME NEW ref \in Refs, NEW shares \in Quantities, reduceOrder(ref, shares)
      PROVE  FreshIncoming'
  BY Zenon, <1>6 DEF reduceOrder, FreshIncoming
<1>7. ASSUME NEW ref \in Refs, NEW newRef \in Refs, NEW shares \in Quantities,
             NEW price \in Prices, replaceOrder(ref, newRef, shares, price)
      PROVE  /\ Sound(pool', orderBooks', Books, Refs, Prices, orderMap', LiveRefs', FreshRefs)
             /\ FreshIncoming'
  <2>1. /\ status = "idle" /\ ref \in DOMAIN orderMap /\ removeRef(ref)
        /\ newRef \in FreshRefs \ {ref} => newRef \notin DOMAIN orderMap
    BY Zenon, <1>7 DEF replaceOrder
  <2>2. status' = "matching" /\ removedRefs' = {} /\ incoming'.order.ref = newRef
    BY Zenon, <1>7 DEF replaceOrder, startMatching
  <2>3. LiveRefs' = DOMAIN orderMap'
    BY Zenon, <2>2 DEF LiveRefs
  <2>4. DOMAIN orderMap' = DOMAIN orderMap \ {ref}
    BY Zenon, <2>1 DEF removeRef, eraseRefs
  <2>5. FreshIncoming'
    BY Zenon, <2>1, <2>2, <2>4 DEF FreshIncoming
  <2> QED
    BY Zenon, <2>1, <2>3, <2>5, RemoveSound
<1>8. ASSUME UNCHANGED vars
      PROVE  /\ LiveRefs' = LiveRefs /\ FreshIncoming'
             /\ pool' = pool /\ orderBooks' = orderBooks /\ orderMap' = orderMap
  BY Zenon, <1>0, <1>8 DEF vars, LiveRefs, FreshIncoming
<1>9. ASSUME LiveRefs' = LiveRefs,
             pool' = pool, orderBooks' = orderBooks, orderMap' = orderMap
      PROVE  Sound(pool', orderBooks', Books, Refs, Prices, orderMap', LiveRefs', FreshRefs)
  BY Zenon, <1>0, <1>9
<1>10. CASE \E b \in Books, order \in Orders : addOrder(b, order)
  BY Zenon, <1>1, <1>9, <1>10
<1>11. CASE addOrderBadSide
  BY Zenon, <1>2, <1>9, <1>11
<1>12. CASE matchStep
  BY Zenon, <1>3, <1>12, MatchSound
<1>13. CASE finishOrder
  BY Zenon, <1>4, <1>13, FinishSound
<1>14. CASE \E ref \in Refs, shares \in Quantities : reduceOrder(ref, shares)
  BY Zenon, <1>6, <1>14, ReduceSound
<1>15. CASE UNCHANGED vars
  BY Zenon, <1>8, <1>9, <1>15
<1> QED
  BY Zenon, <1>5, <1>7, <1>10, <1>11, <1>12, <1>13, <1>14, <1>15 DEF Next, Terminated

(* Whatever messages arrive, the pool, the books and the order map stay    *)
(* consistent between two steps of the engine.                             *)
THEOREM EngineInvariant == Spec => []EngineInv
<1> QED
  BY InitSound, InvNext, PTL DEF Spec

-----------------------------------------------------------------------------
(***************************************************************************)
(* What the properties say of a state is part of the invariant.            *)
(***************************************************************************)

(* The queue of a price is one of Queues.                                  *)
LEMMA QueueIs ==
  ASSUME NEW b \in Books, NEW s \in Sides, NEW p \in Prices
  PROVE  Queue(b, s, p) = Queues[At(b, s, p)]
BY Zenon DEF Queue, Queues, ChainsOf, WalkOf, At, PlacesOf

(* What the invariant says of one queue.                                   *)
LEMMA QueueFacts ==
  ASSUME EngineInv, NEW b \in Books, NEW s \in Sides, NEW p \in Prices
  PROVE  /\ At(b, s, p) \in DOMAIN Queues
         /\ Place(pool.nodes, orderBooks[b][s], LevelAt(orderBooks[b][s], p),
                  Queues[At(b, s, p)], s, Prices)
<1>1. PICK Q, f : Q = Queues /\ f = FreeOf(pool)
  BY Zenon
<1>2. Store(pool, orderBooks, Books, Refs, Prices, f, Q) /\ Prices \subseteq Nat
  BY Zenon, <1>1, SoundIs
<1>3. /\ At(b, s, p) \in DOMAIN Q
      /\ Place(pool.nodes, orderBooks[b][s], LevelAt(orderBooks[b][s], p), Q[At(b, s, p)], s, Prices)
  BY ZenonT(40), <1>2, StorePlace
<1> QED
  BY Zenon, <1>1, <1>3

(* What BestIsCached says of one side.                                     *)
BestRight(s, side) ==
  LET populated == {k \in Slots : side.ladder[k].head # INVALID_INDEX}
  IN  /\ side.bestSlot = IF populated = {} THEN INVALID_INDEX
                         ELSE Best(s, populated)
      /\ \A p \in DOMAIN side.overflow :
           side.overflow[p].head # INVALID_INDEX

(* The invariant implies that every cached best price is the best one      *)
(* (bestLevel, removeEmptyBest).                                        *)
LEMMA InvBest == EngineInv => BestIsCached
<1> SUFFICES ASSUME EngineInv, NEW b \in Books, NEW s \in Sides
             PROVE  BestRight(s, orderBooks[b][s])
  BY Zenon DEF BestIsCached, BestRight
<1>0. PICK side, populated :
        /\ side = orderBooks[b][s]
        /\ populated = {k \in Slots : side.ladder[k].head # INVALID_INDEX}
  BY ZenonT(40)
<1>1. SideTypeOK(side, DOMAIN pool.nodes, Prices) /\ SideInv(s, side, Prices)
  BY Zenon, <1>0, SoundIs DEF Store, BookTypeOK
<1>2. /\ side.bestSlot \in Slots \cup {INVALID_INDEX}
      /\ BestOK(s, side.ladder, side.bestSlot)
      /\ \A p \in DOMAIN side.overflow : side.overflow[p].head # INVALID_INDEX
  BY Zenon, <1>1 DEF SideTypeOK, SideInv
<1>3. PICK ladder, best : ladder = side.ladder /\ best = side.bestSlot
  BY Zenon, SMTT(40)
<1>4. best = IF populated = {} THEN INVALID_INDEX ELSE Best(s, populated)
  BY SMTT(40), <1>0, <1>2, <1>3, BestSlotIs
<1> QED
  BY ZenonT(40), <1>0, <1>2, <1>3, <1>4 DEF BestRight

(* What QueuesAreLinked says of one queue.                                 *)
Linked(nodes, q, lvl, s, p) ==
  /\ lvl.tail = IF q = <<>> THEN INVALID_INDEX ELSE q[Len(q)]
  /\ \A n \in DOMAIN q :
       LET node == nodes[q[n]]
       IN  /\ node.prev = IF n = 1 THEN INVALID_INDEX ELSE q[n - 1]
           /\ node.order.buySellIndicator = s
           /\ node.order.price = p
           /\ node.order.shares > 0

(* The invariant implies that the links of every queue agree in both       *)
(* directions (linkAtTail, unlink).                                        *)
LEMMA InvLinked == EngineInv => QueuesAreLinked
<1> SUFFICES ASSUME EngineInv, NEW b \in Books, NEW s \in Sides, NEW p \in Prices
             PROVE  Linked(pool.nodes, Queue(b, s, p), LevelAt(orderBooks[b][s], p), s, p)
  BY Zenon DEF QueuesAreLinked, Linked
<1>0. PICK k, q, lvl : k = At(b, s, p) /\ q = Queue(b, s, p) /\ lvl = LevelAt(orderBooks[b][s], p)
  BY Zenon
<1>1. k[2] = s /\ k[3] = p
  BY Zenon, <1>0 DEF At
<1>2. q = Queues[k] /\ k \in DOMAIN Queues /\ IsQueue(pool.nodes, lvl, q)
  BY Zenon, <1>0, QueueIs, QueueFacts DEF Place
<1>3. \A i \in Members(q) : /\ pool.nodes[i].order.buySellIndicator = s
                            /\ pool.nodes[i].order.price = p
                            /\ pool.nodes[i].order.shares > 0
  BY ZenonT(40), <1>1, <1>2, SoundIs DEF Consistent, Filed
<1>4. \A n \in DOMAIN q : q[n] \in Members(q)
  BY Zenon DEF Members
<1> QED
  BY Zenon, <1>0, <1>2, <1>3, <1>4 DEF IsQueue, Linked

(* The invariant implies that every iteration of the matching loop trades  *)
(* (handleBuyOrder, handleSellOrder).                                      *)
LEMMA InvProgress == EngineInv => MatchingProgresses
<1> SUFFICES ASSUME EngineInv, NEW b, b = incoming.stockLocate, NEW order, order = incoming.order,
                    status = "matching", crosses(orderBooks[b], order),
                    NEW m, m = matchHead(pool, orderBooks[b], order)
             PROVE  m.shares < order.shares
  BY ZenonT(40) DEF MatchingProgresses
<1>1. PICK o, p : o = Opposite(order.buySellIndicator) /\ p = bestPrice(o, orderBooks[b][o])
  BY Zenon
<1>2. PICK Q, f, k, idx : Q = Queues /\ f = FreeOf(pool) /\ k = At(b, o, p) /\ idx = Q[k][1]
  BY Zenon, SMTT(40)
<1>3. /\ b \in Books /\ order \in BookOrders(Refs, Prices)
      /\ Meets(pool, orderBooks, b, order, Prices, Q, o, p)
      /\ Trades(pool, orderBooks, Books, Refs, Prices, f, Q, b, order, k, m)
  BY ZenonT(40), <1>1, <1>2, MatchMeets
<1>4. /\ k \in DOMAIN Q /\ idx \in Members(Q[k]) /\ idx \in DOMAIN pool.nodes /\ order.shares > 0
  BY ZenonT(40), <1>2, <1>3 DEF Meets, Members
<1>5. m.shares = order.shares - TradeSize(pool.nodes, idx, order)
  BY ZenonT(40), <1>2, <1>3 DEF Trades, FirstTrade
<1>6. pool.nodes[idx].order.shares > 0
  BY ZenonT(40), <1>2, <1>4, SoundIs DEF Consistent, Filed
<1>7. pool.nodes[idx].order.shares \in Nat /\ order.shares \in Nat
  BY Zenon, <1>3, <1>4, SoundIs DEF Store, PoolTypeOK, PoolNodes, BookOrders
<1> QED
  BY SMTT(40), <1>4, <1>5, <1>6, <1>7 DEF TradeSize

(* Queues is what the properties call the queues.                          *)
LEMMA QueuesAre ==
  Queues = [l \in Books \X Sides \X Prices |-> Queue(l[1], l[2], l[3])]
BY Zenon DEF Queues, ChainsOf, PlacesOf, WalkOf, Queue

(* The entry an order of a queue should have.                              *)
EntryOf(nodes, b, i) == <<nodes[i].order.ref, b, i>>

(* The invariant implies that orderMap and the books hold the same orders  *)
(* (addOrder, removeByRef).                                                *)
LEMMA InvMap == EngineInv => MapAgreesWithBooks
<1> SUFFICES ASSUME EngineInv PROVE MapAgreesWithBooks
  BY Zenon
<1> DEFINE entries(b, queue) ==
             {<<pool.nodes[queue[n]].order.ref, b, queue[n]>> : n \in DOMAIN queue}
           mapped == {<<r, orderMap[r].stockLocate, orderMap[r].poolIdx>> : r \in LiveRefs}
           resting == UNION {entries(l[1], Queue(l[1], l[2], l[3])) :
                               l \in Books \X Sides \X Prices}
           fresh == {e \in resting : e[1] \in FreshRefs}
<1>1. ASSUME NEW b \in Books, NEW s \in Sides, NEW p \in Prices,
             NEW n \in DOMAIN Queues[At(b, s, p)]
      PROVE  EntryOf(pool.nodes, b, Queues[At(b, s, p)][n]) \in resting
  <2>1. PICK l \in Books \X Sides \X Prices : l = At(b, s, p) /\ l[1] = b /\ l[2] = s /\ l[3] = p
    BY DEF At
  <2>2. Queue(b, s, p) = Queues[At(b, s, p)]
    BY Zenon, QueueIs
  <2>3. EntryOf(pool.nodes, b, Queues[At(b, s, p)][n]) \in entries(b, Queue(b, s, p))
    BY Zenon, <2>2, <1>1 DEF EntryOf
  <2> HIDE DEF entries
  <2> QED
    BY Zenon, <2>1, <2>3
<1>2. ASSUME NEW r \in LiveRefs
      PROVE  <<r, orderMap[r].stockLocate, orderMap[r].poolIdx>> \in resting
  <2>1. PICK b, s, p, n : Entry(r, b, s, p, n)
    BY Zenon, EntryExists
  <2>2. /\ b \in Books /\ s \in Sides /\ p \in Prices /\ n \in DOMAIN Queues[At(b, s, p)]
        /\ EntryOf(pool.nodes, b, Queues[At(b, s, p)][n])
             = <<r, orderMap[r].stockLocate, orderMap[r].poolIdx>>
    BY Zenon, <2>1 DEF Entry, EntryOf
  <2> HIDE DEF resting
  <2> QED
    BY Zenon, <1>1, <2>2
<1>3. mapped \subseteq resting
  <2> HIDE DEF resting
  <2> QED
    BY Zenon, <1>2
<1>4. ASSUME NEW e \in resting
      PROVE  \E k \in DOMAIN Queues : \E i \in Members(Queues[k]) : e = EntryOf(pool.nodes, k[1], i)
  <2>1. PICK l \in Books \X Sides \X Prices : e \in entries(l[1], Queue(l[1], l[2], l[3]))
    BY Zenon
  <2>2. l \in DOMAIN Queues /\ Queues[l] = Queue(l[1], l[2], l[3])
    BY Zenon, QueuesAre
  <2>3. PICK n \in DOMAIN Queues[l] : e = EntryOf(pool.nodes, l[1], Queues[l][n])
    BY Zenon, <2>1, <2>2 DEF EntryOf
  <2> QED
    BY Zenon, <2>2, <2>3 DEF Members
<1>5. ASSUME NEW e \in fresh PROVE e \in mapped
  <2>1. e \in resting /\ e[1] \in FreshRefs
    BY Zenon, SMTT(40)
  <2>2. PICK k, i : k \in DOMAIN Queues /\ i \in Members(Queues[k]) /\ e = EntryOf(pool.nodes, k[1], i)
    BY Zenon, <1>4, <2>1
  <2>3. PICK r : r = pool.nodes[i].order.ref
    BY Zenon, SMTT(40)
  <2>4. r \in FreshRefs
    BY Zenon, <2>1, <2>2, <2>3 DEF EntryOf
  <2>5. r \in LiveRefs /\ orderMap[r].stockLocate = k[1] /\ orderMap[r].poolIdx = i
    BY ZenonT(40), <2>2, <2>3, <2>4, SoundIs DEF Consistent, Entered
  <2>6. e = <<r, orderMap[r].stockLocate, orderMap[r].poolIdx>>
    BY Zenon, <2>2, <2>3, <2>5 DEF EntryOf
  <2> QED
    BY Zenon, <2>5, <2>6
<1>6. fresh \subseteq mapped
  <2> HIDE DEF fresh, mapped
  <2> QED
    BY Zenon, <1>5
<1> QED
  BY ZenonT(40), <1>3, <1>6 DEF MapAgreesWithBooks

(* bestLevel() may trust the cached slot in every reachable state,         *)
(* whatever was added, cancelled or traded: it is the best populated slot  *)
(* of the ladder.                                                          *)
THEOREM EngineBestIsCached == Spec => []BestIsCached
BY EngineInvariant, InvBest, PTL

(* The doubly linked queues that linkAtTail and unlink maintain stay well  *)
(* formed, and every order is in the queue of its side and price.          *)
THEOREM EngineQueuesAreLinked == Spec => []QueuesAreLinked
BY EngineInvariant, InvLinked, PTL

(* orderMap leads every reference it holds to the order of that reference, *)
(* and an order whose reference was never given twice cannot rest without  *)
(* its entry.                                                              *)
THEOREM EngineMapAgrees == Spec => []MapAgreesWithBooks
BY EngineInvariant, InvMap, PTL

(* The loops of handleBuyOrder and handleSellOrder trade in each           *)
(* iteration, so the shares left of the incoming order decrease.           *)
THEOREM EngineProgresses == Spec => []MatchingProgresses
BY EngineInvariant, InvProgress, PTL
=============================================================================
