----------------------------- MODULE StoreProofs -----------------------------
(***************************************************************************)
(* The books of an engine over their common arena and the order map: what  *)
(* each operation of OrderPool, LadderSide and OrderBook does to the free  *)
(* list, the queues and the entries of the map together.  OrderBookProofs  *)
(* has one book; EngineProofs applies these lemmas to the engine's steps.  *)
(***************************************************************************)
EXTENDS OrderBookProofs

(***************************************************************************)
(* All books of an engine and the arena they share.                        *)
(***************************************************************************)
At(b, s, p) == <<b, s, p>>

LevelsOf(books, B, P) ==
  [k \in B \X Sides \X P |-> LevelAt(books[k[1]][k[2]], k[3])]

(* f is the free list, and Q[k] the queue of stock k[1], side k[2] and     *)
(* price k[3].                                                             *)
Store(mem, books, B, R, P, f, Q) ==
  /\ PoolTypeOK(mem, BookOrders(R, P))
  /\ books = [b \in B |-> books[b]]
  /\ \A b \in B : BookTypeOK(books[b], DOMAIN mem.nodes, P)
  /\ \A b \in B, s \in Sides : SideInv(s, books[b][s], P)
  /\ Arena(mem, LevelsOf(books, B, P), f, Q)

(* Only side s of book b is another one.                                   *)
SetsSide(books, books2, B, b, s, side) ==
  /\ books2 = [c \in B |-> books2[c]]
  /\ \A c \in B : books2[c] = [t \in Sides |-> books2[c][t]]
  /\ \A c \in B, t \in Sides :
       books2[c][t] = IF c = b /\ t = s THEN side ELSE books[c][t]

(* The assignment of one side of one book.                                 *)
LEMMA SideWrites ==
  ASSUME NEW B, NEW P, NEW D, NEW books, books = [c \in B |-> books[c]],
         \A c \in B : BookTypeOK(books[c], D, P),
         NEW b \in B, NEW s \in Sides, NEW side
  PROVE  SetsSide(books, [books EXCEPT ![b] = [books[b] EXCEPT ![s] = side]],
                  B, b, s, side)
<1> DEFINE book == [books[b] EXCEPT ![s] = side]
           books2 == [books EXCEPT ![b] = book]
<1>1. \A c \in B : books[c] = [t \in Sides |-> books[c][t]]
  BY Zenon DEF BookTypeOK
<1>2. book = [t \in Sides |-> IF t = s THEN side ELSE books[b][t]]
  BY Zenon, <1>1
<1> HIDE DEF book
<1>3. books2 = [c \in B |-> IF c = b THEN book ELSE books[c]]
  BY Zenon
<1> HIDE DEF books2
<1>4. books2 = [c \in B |-> books2[c]]
  BY Zenon, <1>3
<1>5. \A c \in B : books2[c] = IF c = b THEN book ELSE books[c]
  BY Zenon, <1>3
<1>6. \A c \in B : books2[c] = [t \in Sides |-> books2[c][t]]
  BY Zenon, <1>1, <1>2, <1>5
<1>7. \A c \in B, t \in Sides :
        books2[c][t] = IF c = b /\ t = s THEN side ELSE books[c][t]
  BY <1>2, <1>5
<1> QED
  BY Zenon, <1>4, <1>6, <1>7 DEF SetsSide, books2, book

(* The levels when one side resets one of its own.                         *)
LEMMA SetLevels ==
  ASSUME NEW B, NEW P, NEW books, NEW books2, NEW b \in B, NEW s \in Sides, NEW p \in P,
         NEW side, SetsSide(books, books2, B, b, s, side), NEW lvl,
         Resets(books[b][s], side, P, p, lvl)
  PROVE  LevelsOf(books2, B, P) = SetAt(LevelsOf(books, B, P), At(b, s, p), lvl)
<1> DEFINE K == B \X Sides \X P
           lv == LevelsOf(books, B, P)
           lv2 == LevelsOf(books2, B, P)
<1>1. /\ lv = [k \in K |-> LevelAt(books[k[1]][k[2]], k[3])]
      /\ lv2 = [k \in K |-> LevelAt(books2[k[1]][k[2]], k[3])]
  BY Zenon DEF LevelsOf
<1> HIDE DEF lv, lv2
<1>2. <<b, s, p>> \in K
  BY Zenon
<1>3. ASSUME NEW k \in K PROVE lv2[k] = IF k = <<b, s, p>> THEN lvl ELSE lv[k]
  <2>1. PICK c \in B, t \in Sides, x \in P : k = <<c, t, x>>
    OBVIOUS
  <2>2. lv2[k] = LevelAt(books2[c][t], x) /\ lv[k] = LevelAt(books[c][t], x)
    BY Zenon, <1>1, <2>1
  <2>3. books2[c][t] = IF c = b /\ t = s THEN side ELSE books[c][t]
    BY Zenon DEF SetsSide
  <2>4. LevelAt(side, x) = IF x = p THEN lvl ELSE LevelAt(books[b][s], x)
    BY Zenon DEF Resets
  <2> QED
    BY Zenon, <2>1, <2>2, <2>3, <2>4
<1>4. lv2 = [k \in K |-> lv2[k]] /\ lv = [k \in K |-> lv[k]]
  BY Zenon, <1>1
<1>5. [lv EXCEPT ![<<b, s, p>>] = lvl] = [k \in K |-> IF k = <<b, s, p>> THEN lvl ELSE lv[k]]
  BY Zenon, <1>4
<1> HIDE DEF K
<1> QED
  BY Zenon, <1>3, <1>4, <1>5 DEF lv, lv2, SetAt, At

(* The level at a place.                                                   *)
LEMMA LevelOf ==
  ASSUME NEW B, NEW P, NEW books, NEW b \in B, NEW s \in Sides, NEW p \in P
  PROVE  /\ At(b, s, p) \in B \X Sides \X P
         /\ LevelsOf(books, B, P)[At(b, s, p)] = LevelAt(books[b][s], p)
BY Zenon DEF LevelsOf, At

(* What holds of a side and of the queue q of a level lvl of it.           *)
Place(nodes, side, lvl, q, s, P) ==
  /\ SideTypeOK(side, DOMAIN nodes, P) /\ SideInv(s, side, P)
  /\ lvl \in Levels(DOMAIN nodes)
  /\ IsQueue(nodes, lvl, q) /\ Distinct(q) /\ q \in Seq(DOMAIN nodes)
  /\ lvl.head = INVALID_INDEX <=> q = <<>>

(* What a store says of one level: it is well typed, and its head and tail *)
(* are the ends of its queue.                                              *)
LEMMA StorePlace ==
  ASSUME NEW B, NEW R, NEW P, P \subseteq Nat, NEW mem, NEW books, NEW f, NEW Q,
         Store(mem, books, B, R, P, f, Q),
         NEW b \in B, NEW s \in Sides, NEW p \in P
  PROVE  /\ At(b, s, p) \in DOMAIN Q
         /\ Place(mem.nodes, books[b][s], LevelAt(books[b][s], p), Q[At(b, s, p)], s, P)
<1>0. PICK k, D : k = At(b, s, p) /\ D = DOMAIN mem.nodes
  BY Zenon
<1>1. k \in B \X Sides \X P
  BY Zenon, <1>0 DEF At
<1>2. /\ k \in DOMAIN LevelsOf(books, B, P)
      /\ LevelsOf(books, B, P)[k] = LevelAt(books[b][s], p)
  BY Zenon, <1>0, <1>1 DEF LevelsOf, At
<1>3. SideTypeOK(books[b][s], D, P) /\ SideInv(s, books[b][s], P)
  BY Zenon, <1>0 DEF Store, BookTypeOK
<1>4. LevelAt(books[b][s], p) \in Levels(D)
  BY Zenon, <1>3, LevelAtType
<1>5. k \in DOMAIN Q
  BY Zenon, <1>2 DEF Store, Arena
<1>6. IsQueue(mem.nodes, LevelAt(books[b][s], p), Q[k]) /\ Distinct(Q[k])
  BY Zenon, <1>2, <1>5 DEF Store, Arena
<1>7. IsList(mem.nodes, LevelAt(books[b][s], p).head, Q[k])
  BY Zenon, <1>6 DEF IsQueue
<1>8. Q[k] \in Seq(D)
  BY Zenon, <1>0, <1>7 DEF IsList
<1>9. INVALID_INDEX \notin D
  BY <1>0, InvalidIndexAssumption DEF Store, PoolTypeOK
<1>10. Q[k] # <<>> => Q[k][1] \in D
  BY <1>8
<1>11. LevelAt(books[b][s], p).head = INVALID_INDEX <=> Q[k] = <<>>
  BY Zenon, <1>7, <1>9, <1>10 DEF IsList
<1>12. Place(mem.nodes, books[b][s], LevelAt(books[b][s], p), Q[k], s, P)
  BY Zenon, <1>0, <1>3, <1>4, <1>6, <1>8, <1>11 DEF Place
<1> QED
  BY Zenon, <1>0, <1>2, <1>5, <1>12

(* The free list and the queues are what Chain walks.                      *)
LEMMA FreeChain ==
  ASSUME NEW B, NEW R, NEW P, NEW mem, NEW books, NEW f, NEW Q,
         Store(mem, books, B, R, P, f, Q)
  PROVE  Chain(mem, mem.freeHead) = f
<1>1. PoolTypeOK(mem, BookOrders(R, P))
  BY Zenon DEF Store
<1>2. IsList(mem.nodes, mem.freeHead, f) /\ Distinct(f)
  BY Zenon DEF Store, Arena
<1> QED
  BY Zenon, <1>1, <1>2, ChainIs

(* The slots of the level at a price, from its head.                       *)
WalkOf(mem, side, p) == Chain(mem, LevelAt(side, p).head)

WalksTo(mem, side, p, q) == WalkOf(mem, side, p) = q

(* The walk from the head of a level is its queue.                         *)
LEMMA QueueChain ==
  ASSUME NEW B, NEW R, NEW P, P \subseteq Nat, NEW mem, NEW books, NEW f, NEW Q,
         Store(mem, books, B, R, P, f, Q),
         NEW b \in B, NEW s \in Sides, NEW p \in P
  PROVE  WalksTo(mem, books[b][s], p, Q[At(b, s, p)])
<1>0. PICK k : k = At(b, s, p)
  BY Zenon
<1>1. PoolTypeOK(mem, BookOrders(R, P))
  BY Zenon DEF Store
<1>2. IsQueue(mem.nodes, LevelAt(books[b][s], p), Q[k]) /\ Distinct(Q[k])
  <2>1. Place(mem.nodes, books[b][s], LevelAt(books[b][s], p), Q[At(b, s, p)], s, P)
    BY Zenon, StorePlace
  <2> QED
    BY Zenon, <1>0, <2>1 DEF Place
<1>3. IsList(mem.nodes, LevelAt(books[b][s], p).head, Q[k])
  BY Zenon, <1>2 DEF IsQueue
<1>4. Chain(mem, LevelAt(books[b][s], p).head) = Q[k]
  BY Zenon, <1>1, <1>2, <1>3, ChainIs
<1> QED
  BY Zenon, <1>0, <1>4 DEF WalksTo, WalkOf

-----------------------------------------------------------------------------
(***************************************************************************)
(* What the operations do to the queues.                                   *)
(***************************************************************************)

(* idx leaves whatever queue it is in.                                     *)
Drops(Q, Q2, idx) ==
  /\ DOMAIN Q2 = DOMAIN Q
  /\ \A l \in DOMAIN Q : Members(Q2[l]) = Members(Q[l]) \ {idx}

(* idx, which is in no queue, joins queue k.                               *)
Joins(Q, Q2, k, idx) ==
  /\ DOMAIN Q2 = DOMAIN Q
  /\ Unused(Q, idx)
  /\ \A l \in DOMAIN Q : Members(Q2[l]) = IF l = k THEN Members(Q[l]) \cup {idx}
                                          ELSE Members(Q[l])

(* A cut queue no longer has the slot, and no other queue ever had it.     *)
LEMMA TakeDrops ==
  ASSUME NEW mem, NEW lv, NEW f, NEW Q, Arena(mem, lv, f, Q), NEW k \in DOMAIN Q,
         NEW n \in DOMAIN Q[k]
  PROVE  Drops(Q, SetAt(Q, k, Cut(Q[k], n)), Q[k][n])
<1> DEFINE Q2 == SetAt(Q, k, Cut(Q[k], n))
<1>1. \A l \in DOMAIN Q : Q2[l] = IF l = k THEN Cut(Q[k], n) ELSE Q[l]
  BY Zenon DEF SetAt
<1>2. DOMAIN Q2 = DOMAIN Q
  BY Zenon DEF SetAt
<1> HIDE DEF Q2
<1>3. IsQueue(mem.nodes, lv[k], Q[k]) /\ Distinct(Q[k])
  BY Zenon DEF Arena
<1>4. PICK q \in Seq(DOMAIN mem.nodes) : q = Q[k]
  BY Zenon, <1>3 DEF IsQueue, IsList
<1>5. Members(Cut(q, n)) = Members(q) \ {q[n]}
  BY Zenon, <1>3, <1>4, MembersCut
<1>6. q[n] \in Members(q)
  BY Zenon, <1>4 DEF Members
<1>7. \A l \in DOMAIN Q : l # k => Members(Q[l]) \cap Members(q) = {}
  BY Zenon, <1>4 DEF Arena
<1> QED
  BY Zenon, <1>1, <1>2, <1>4, <1>5, <1>6, <1>7 DEF Drops, Q2

(* An emptied level has no tail either.                                    *)
LEMMA EmptiedLevel ==
  ASSUME NEW nodes, INVALID_INDEX \notin DOMAIN nodes, NEW lvl, NEW q,
         IsQueue(nodes, lvl, q), lvl = [head |-> lvl.head, tail |-> lvl.tail]
  PROVE  lvl.head = INVALID_INDEX => lvl = EmptyLevel
<1>1. q \in Seq(DOMAIN nodes) /\ lvl.head = IF q = <<>> THEN INVALID_INDEX ELSE q[1]
  BY Zenon DEF IsQueue, IsList
<1>2. q # <<>> => q[1] \in DOMAIN nodes
  BY <1>1
<1>3. lvl.tail = IF q = <<>> THEN INVALID_INDEX ELSE q[Len(q)]
  BY Zenon DEF IsQueue
<1>4. lvl.head = INVALID_INDEX => lvl.tail = INVALID_INDEX
  BY Zenon, <1>1, <1>2, <1>3
<1> QED
  BY Zenon, <1>4 DEF EmptyLevel

(* The slot idx of the level at p is unlinked and freed, and the level     *)
(* drained.                                                                *)
Unlinked(mem, side, s, p, idx, new, mem2, side2) ==
  /\ new = unlink(mem.nodes, LevelAt(side, p), idx)
  /\ SetsNext(new.nodes, mem2.nodes, idx, mem.freeHead) /\ mem2.freeHead = idx
  /\ side2 = Drain(s, side, p, new.level)

(* What StoreTake establishes.                                             *)
Taken(mem, B, R, P, f, Q, k, n, mem2, books2) ==
  /\ Store(mem2, books2, B, R, P, <<Q[k][n]>> \o f, SetAt(Q, k, Cut(Q[k], n)))
  /\ Drops(Q, SetAt(Q, k, Cut(Q[k], n)), Q[k][n])
  /\ SameOrders(mem.nodes, mem2.nodes)

(* The n-th order of a queue leaves it.                                    *)
LEMMA StoreTake ==
  ASSUME NEW B, NEW R, NEW P, P \subseteq Nat, NEW mem, NEW books, NEW f, NEW Q,
         Store(mem, books, B, R, P, f, Q),
         NEW b \in B, NEW s \in Sides, NEW p \in P, NEW n \in DOMAIN Q[At(b, s, p)],
         NEW new, NEW mem2, NEW side2, PoolTypeOK(mem2, BookOrders(R, P)),
         Unlinked(mem, books[b][s], s, p, Q[At(b, s, p)][n], new, mem2, side2),
         NEW books2, SetsSide(books, books2, B, b, s, side2),
         \A c \in B : BookTypeOK(books2[c], DOMAIN mem.nodes, P)
  PROVE  Taken(mem, B, R, P, f, Q, At(b, s, p), n, mem2, books2)
<1> SUFFICES ASSUME NEW k, k = At(b, s, p), NEW q, q = Q[k], n \in DOMAIN q,
                    NEW idx, idx = q[n],
                    new = unlink(mem.nodes, LevelAt(books[b][s], p), idx),
                    SetsNext(new.nodes, mem2.nodes, idx, mem.freeHead),
                    mem2.freeHead = idx,
                    side2 = Drain(s, books[b][s], p, new.level)
             PROVE  /\ Store(mem2, books2, B, R, P, <<idx>> \o f, SetAt(Q, k, Cut(q, n)))
                    /\ Drops(Q, SetAt(Q, k, Cut(q, n)), idx)
                    /\ SameOrders(mem.nodes, mem2.nodes)
  BY Zenon DEF Unlinked, Taken
<1> DEFINE lv == LevelsOf(books, B, P)
           lv2 == SetAt(lv, k, new.level)
           Q2 == SetAt(Q, k, Cut(q, n))
           D == DOMAIN mem.nodes
<1>1. /\ k \in DOMAIN Q /\ lv[k] = LevelAt(books[b][s], p)
      /\ Place(mem.nodes, books[b][s], LevelAt(books[b][s], p), Q[k], s, P)
  <2>1. At(b, s, p) \in DOMAIN Q
    BY Zenon, StorePlace
  <2>2. LevelsOf(books, B, P)[At(b, s, p)] = LevelAt(books[b][s], p)
    BY LevelOf
  <2>3. Place(mem.nodes, books[b][s], LevelAt(books[b][s], p), Q[At(b, s, p)], s, P)
    BY Zenon, StorePlace
  <2> QED
    BY Zenon, <2>1, <2>2, <2>3
<1>2. /\ SideTypeOK(books[b][s], D, P) /\ SideInv(s, books[b][s], P)
      /\ lv[k] \in Levels(D)
      /\ LevelAt(books[b][s], p).head = INVALID_INDEX <=> Q[k] = <<>>
  BY Zenon, <1>1 DEF Place
<1>3. Arena(mem, lv, f, Q) /\ PoolTypeOK(mem, BookOrders(R, P)) /\ DOMAIN Q = DOMAIN lv
  BY Zenon DEF Store, Arena
<1> HIDE DEF lv
<1>4. Levelled(lv, lv2, k, new.level)
  BY ZenonT(60), <1>1, <1>3 DEF Levelled, SetAt
<1> HIDE DEF lv2
<1>6. /\ Arena(mem2, lv2, <<idx>> \o f, SetAt(Q, k, Cut(q, n)))
      /\ idx \in DOMAIN mem.nodes
      /\ SameOrders(mem.nodes, mem2.nodes)
  <2>1. new = unlink(mem.nodes, lv[k], idx)
    BY Zenon, <1>1
  <2> QED
    BY <1>1, <1>2, <1>3, <1>4, <2>1, ArenaTake
<1>7. Arena(mem2, lv2, <<idx>> \o f, Q2)
  BY Zenon, <1>6
<1>8. LevelAt(books[b][s], p).head # INVALID_INDEX
  <2>1. Q[k] # <<>>
    OBVIOUS
  <2> QED
    BY ZenonT(40), <1>2, <2>1
<1>9. new.level.head = INVALID_INDEX => new.level = EmptyLevel
  <2>1. IsQueue(mem2.nodes, new.level, Q2[k])
    <3>1. k \in DOMAIN Q2 /\ lv2[k] = new.level
      BY Zenon, <1>1, <1>4 DEF Levelled, SetAt
    <3> HIDE DEF Q2
    <3> QED
      BY Zenon, <1>7, <3>1 DEF Arena
  <2>2. new.level = [head |-> new.level.head, tail |-> new.level.tail]
    BY Zenon DEF unlink
  <2>3. INVALID_INDEX \notin DOMAIN mem2.nodes
    BY InvalidIndexAssumption DEF PoolTypeOK
  <2> HIDE DEF Q2
  <2> QED
    BY Zenon, <2>1, <2>2, <2>3, EmptiedLevel
<1>10. SideInv(s, side2, P) /\ Resets(books[b][s], side2, P, p, new.level)
  <2>1. PICK lvl : lvl = new.level
    BY Zenon
  <2>2. /\ SideInv(s, Drain(s, books[b][s], p, lvl), P)
        /\ Resets(books[b][s], Drain(s, books[b][s], p, lvl), P, p, lvl)
    BY ZenonT(60), <1>2, <1>8, <1>9, <2>1, DrainSide
  <2> QED
    BY Zenon, <2>1, <2>2
<1>11. LevelsOf(books2, B, P) = lv2
  BY <1>10, SetLevels DEF lv, lv2
<1>12. \A c \in B, t \in Sides : SideInv(t, books2[c][t], P)
  BY ZenonT(40), <1>10 DEF SetsSide, Store
<1>13. Store(mem2, books2, B, R, P, <<idx>> \o f, Q2)
  <2> HIDE DEF Q2
  <2>1. books2 = [c \in B |-> books2[c]]
    BY Zenon DEF SetsSide
  <2>2. \A c \in B : BookTypeOK(books2[c], DOMAIN mem2.nodes, P)
    BY Zenon, <1>6 DEF SameOrders
  <2> QED
    BY Zenon, <1>7, <1>11, <1>12, <2>1, <2>2 DEF Store
<1>14. Drops(Q, Q2, idx)
  BY Zenon, <1>1, <1>3, TakeDrops
<1> QED
  BY Zenon, <1>6, <1>13, <1>14

(* An appended slot is in that queue and in no other.                      *)
LEMMA PutJoins ==
  ASSUME NEW mem, NEW lv, NEW f, NEW Q, Arena(mem, lv, f, Q), NEW k \in DOMAIN Q,
         NEW idx, Unused(Q, idx)
  PROVE  Joins(Q, SetAt(Q, k, Append(Q[k], idx)), k, idx)
<1> DEFINE Q2 == SetAt(Q, k, Append(Q[k], idx))
<1>1. /\ \A l \in DOMAIN Q : Q2[l] = IF l = k THEN Append(Q[k], idx) ELSE Q[l]
      /\ DOMAIN Q2 = DOMAIN Q
  BY Zenon DEF SetAt
<1> HIDE DEF Q2
<1>2. IsQueue(mem.nodes, lv[k], Q[k]) /\ Distinct(Q[k])
  BY Zenon DEF Arena
<1>3. PICK q \in Seq(DOMAIN mem.nodes \cup {idx}) : q = Q[k]
  BY <1>2 DEF IsQueue, IsList
<1>4. Members(Append(q, idx)) = Members(q) \cup {idx}
  <2>1. idx \notin Members(q) /\ Distinct(q)
    BY Zenon, <1>2, <1>3 DEF Unused
  <2> QED
    BY <2>1, MembersAppend
<1> QED
  BY Zenon, <1>1, <1>3, <1>4 DEF Joins, Q2

(* restOrder: the remainder of an order joins its queue.                   *)
LEMMA StoreRest ==
  ASSUME NEW B, NEW R, NEW P, P \subseteq Nat, NEW mem, NEW books, NEW f, NEW Q,
         Store(mem, books, B, R, P, f, Q),
         NEW b \in B, NEW order \in BookOrders(R, P)
  PROVE  \A s, p, k, q, idx, rest, books2 :
           /\ s = order.buySellIndicator /\ p = order.price /\ k = At(b, s, p) /\ q = Q[k]
           /\ idx = allocatedIdx(mem) /\ rest = restOrder(mem, books[b], order)
           /\ books2 = [books EXCEPT ![b] = rest.book]
           =>
           /\ Store(rest.pool, books2, B, R, P, Rest(f), SetAt(Q, k, Append(q, idx)))
           /\ Joins(Q, SetAt(Q, k, Append(q, idx)), k, idx)
           /\ AddsOrder(mem.nodes, rest.pool.nodes, idx, order)
<1>a. SUFFICES ASSUME NEW s, NEW p, NEW k, NEW q, NEW idx, NEW rest, NEW books2,
                      s = order.buySellIndicator, p = order.price, k = At(b, s, p), q = Q[k],
                      idx = allocatedIdx(mem), rest = restOrder(mem, books[b], order),
                      books2 = [books EXCEPT ![b] = rest.book]
               PROVE  /\ Store(rest.pool, books2, B, R, P, Rest(f), SetAt(Q, k, Append(q, idx)))
                      /\ Joins(Q, SetAt(Q, k, Append(q, idx)), k, idx)
                      /\ AddsOrder(mem.nodes, rest.pool.nodes, idx, order)
  BY ZenonT(60)
<1> DEFINE lv == LevelsOf(books, B, P)
           O == BookOrders(R, P)
           D == DOMAIN mem.nodes
           A == allocate(mem, order)
           E == 0 .. A.size - 1
           side == books[b][s]
           new == linkAtTail(A.nodes, LevelAt(side, p), idx)
           added == add(s, side, A.nodes, p, idx)
           lv2 == SetAt(lv, k, new.level)
           Q2 == SetAt(Q, k, Append(q, idx))
<1>0. s \in Sides /\ p \in P
  BY Zenon, <1>a DEF BookOrders
<1>1. k \in DOMAIN Q /\ lv[k] = LevelAt(side, p) /\ Place(mem.nodes, side, LevelAt(side, p), Q[k], s, P)
  <2>1. At(b, s, p) \in DOMAIN Q
    BY Zenon, <1>0, StorePlace
  <2>2. LevelsOf(books, B, P)[At(b, s, p)] = LevelAt(books[b][s], p)
    BY <1>0, LevelOf
  <2>3. Place(mem.nodes, books[b][s], LevelAt(books[b][s], p), Q[At(b, s, p)], s, P)
    BY Zenon, <1>0, StorePlace
  <2> QED
    BY Zenon, <1>a, <2>1, <2>2, <2>3
<1>2. SideTypeOK(side, D, P) /\ SideInv(s, side, P) /\ lv[k] \in Levels(D)
  BY Zenon, <1>1 DEF Place
<1>3. /\ Arena(mem, lv, f, Q) /\ PoolTypeOK(mem, O) /\ DOMAIN Q = DOMAIN lv
      /\ books = [c \in B |-> books[c]] /\ \A c \in B : BookTypeOK(books[c], D, P)
      /\ D = 0 .. mem.size - 1
  BY Zenon DEF Store, Arena, PoolTypeOK
<1> HIDE DEF lv
<1>4. Levelled(lv, lv2, k, new.level)
  BY Zenon, <1>1, <1>3 DEF Levelled, SetAt
<1> HIDE DEF lv2
<1>5. /\ PoolTypeOK(A, O) /\ idx \in E /\ D \subseteq E
      /\ A.nodes \in [E -> PoolNodes(O, E)]
  <2>1. PoolTypeOK(A, O) /\ allocatedIdx(mem) \in E /\ 0 .. mem.size - 1 \subseteq E
    BY Zenon, <1>3, AllocateType
  <2>2. A.nodes \in [E -> PoolNodes(O, E)]
    BY Zenon, <2>1 DEF PoolTypeOK
  <2> QED
    BY Zenon, <1>a, <1>3, <2>1, <2>2
<1> HIDE DEF A, O, D, E
<1>6. rest = [pool |-> [A EXCEPT !.nodes = added.nodes],
              book |-> [books[b] EXCEPT ![s] = added.side]]
  <2>1. restOrder(mem, books[b], order) =
          [pool |-> [A EXCEPT !.nodes =
                       add(order.buySellIndicator, books[b][order.buySellIndicator],
                           A.nodes, order.price, allocatedIdx(mem)).nodes],
           book |-> [books[b] EXCEPT ![order.buySellIndicator] =
                       add(order.buySellIndicator, books[b][order.buySellIndicator],
                           A.nodes, order.price, allocatedIdx(mem)).side]]
    BY Zenon DEF restOrder, A
  <2> QED
    BY <1>a, <2>1, Zenon
<1> HIDE DEF added
<1>7. [A EXCEPT !.nodes = added.nodes] =
        [nodes |-> added.nodes, size |-> A.size, freeHead |-> A.freeHead]
  BY Zenon, <1>5, ExceptPool DEF PoolTypeOK
<1>8. /\ rest.pool.nodes = added.nodes /\ rest.pool.freeHead = A.freeHead
      /\ rest.pool.size = A.size /\ rest.book = [books[b] EXCEPT ![s] = added.side]
  BY Zenon, <1>6, <1>7
<1>9. SetsSide(books, books2, B, b, s, added.side)
  <2>1. SetsSide(books, [books EXCEPT ![b] = [books[b] EXCEPT ![s] = added.side]],
                  B, b, s, added.side)
    BY Zenon, <1>0, <1>3, SideWrites
  <2> QED
    BY Zenon, <1>a, <1>8, <2>1
<1> HIDE DEF new
<1>10. new.level.head # INVALID_INDEX
  <2>1. PICK lvl \in Levels(E) : lvl = LevelAt(side, p)
    BY Zenon, <1>1, <1>2, <1>5 DEF Levels, Links, D
  <2>2. lvl.tail # INVALID_INDEX => lvl.head # INVALID_INDEX
    <3>1. /\ lvl.head = INVALID_INDEX <=> Q[k] = <<>>
          /\ lvl.tail = IF Q[k] = <<>> THEN INVALID_INDEX ELSE Q[k][Len(Q[k])]
      BY Zenon, <1>1, <2>1 DEF Place, IsQueue
    <3> QED
      BY Zenon, <3>1
  <2>3. idx # INVALID_INDEX
    BY <1>5, InvalidIndexAssumption DEF E
  <2>4. new = linkAtTail(A.nodes, lvl, idx)
    BY Zenon, <2>1 DEF new
  <2>5. new.level = IF lvl.tail # INVALID_INDEX THEN [lvl EXCEPT !.tail = idx]
                    ELSE [head |-> idx, tail |-> idx]
    BY Zenon, <2>4 DEF linkAtTail
  <2> QED
    BY <2>2, <2>3, <2>5 DEF Levels
<1>11. /\ added.nodes = new.nodes /\ SideInv(s, added.side, P)
       /\ Resets(side, added.side, P, p, new.level)
  <2>1. SideTypeOK(side, E, P)
    BY Zenon, <1>2, <1>5, SideTypeGrows
  <2>2. PICK ns \in [E -> PoolNodes(O, E)] : ns = A.nodes
    BY Zenon, <1>5
  <2>3. new = linkAtTail(ns, LevelAt(side, p), idx)
    BY Zenon, <2>2 DEF new
  <2> HIDE DEF side
  <2>4. Adds(s, side, P, p, new, add(s, side, ns, p, idx))
    BY ZenonT(40), <1>0, <1>2, <1>5, <1>10, <2>1, <2>3, AddSide
  <2>5. Adds(s, side, P, p, new, added)
    BY Zenon, <2>2, <2>4 DEF added
  <2> QED
    BY Zenon, <2>5 DEF Adds
<1>12. /\ Arena(rest.pool, lv2, Rest(f), Q2)
       /\ Unused(Q, idx)
       /\ AddsOrder(mem.nodes, rest.pool.nodes, idx, order)
  <2>1. /\ idx = allocatedIdx(mem) /\ A = allocate(mem, order)
        /\ new = linkAtTail(A.nodes, lv[k], idx)
        /\ rest.pool.nodes = new.nodes /\ rest.pool.freeHead = A.freeHead
    BY Zenon, <1>a, <1>1, <1>8, <1>11 DEF A, new
  <2>2. q = Q[k] /\ order \in O /\ lv[k] \in Levels(DOMAIN mem.nodes)
    BY Zenon, <1>a, <1>2 DEF O, D
  <2>3. Puts(mem, order, lv[k], idx, A, new, rest.pool)
    BY Zenon, <2>1 DEF Puts
  <2> QED
    BY ZenonT(60), <1>1, <1>3, <1>4, <2>2, <2>3, ArenaPut
<1>13. LevelsOf(books2, B, P) = lv2
  <2>1. LevelsOf(books2, B, P) = SetAt(LevelsOf(books, B, P), At(b, s, p), new.level)
    BY <1>0, <1>9, <1>11, SetLevels
  <2> QED
    BY Zenon, <1>a, <2>1 DEF lv, lv2
<1>14. \A c \in B, t \in Sides : SideInv(t, books2[c][t], P)
  BY <1>9, <1>11 DEF SetsSide, Store
<1>15. /\ PoolTypeOK(rest.pool, O)
       /\ \A c \in B : BookTypeOK(books2[c], DOMAIN rest.pool.nodes, P)
  <2>1. /\ PoolTypeOK(rest.pool, O) /\ BookTypeOK(rest.book, 0 .. rest.pool.size - 1, P)
        /\ 0 .. mem.size - 1 \subseteq 0 .. rest.pool.size - 1
    <3>1. PICK book : book = books[b] /\ BookTypeOK(book, 0 .. mem.size - 1, P)
      BY Zenon, <1>3
    <3>2. rest = restOrder(mem, book, order)
      BY Zenon, <1>a, <3>1
    <3> QED
      BY Zenon, <1>3, <3>1, <3>2, RestOrderType DEF O
  <2>2. DOMAIN rest.pool.nodes = 0 .. rest.pool.size - 1
    BY Zenon, <2>1 DEF PoolTypeOK
  <2>3. ASSUME NEW c \in B PROVE BookTypeOK(books2[c], 0 .. rest.pool.size - 1, P)
    <3>1. BookTypeOK(books[c], 0 .. rest.pool.size - 1, P)
      <4>1. BookTypeOK(books[c], D, P) /\ D \subseteq 0 .. rest.pool.size - 1
        BY Zenon, <1>3, <2>1
      <4>2. PICK F : F = 0 .. rest.pool.size - 1
        BY Zenon
      <4>3. \A t \in Sides : SideTypeOK(books[c][t], F, P)
        BY Zenon, <4>1, <4>2, SideTypeGrows DEF BookTypeOK
      <4> QED
        BY Zenon, <4>1, <4>2, <4>3 DEF BookTypeOK
    <3>2. books2[c] = IF c = b THEN rest.book ELSE books[c]
      BY Zenon, <1>a, <1>3
    <3> QED
      BY Zenon, <2>1, <3>1, <3>2
  <2> QED
    BY Zenon, <2>1, <2>2, <2>3
<1>16. Store(rest.pool, books2, B, R, P, Rest(f), Q2)
  <2> HIDE DEF Q2
  <2>1. books2 = [c \in B |-> books2[c]]
    BY Zenon, <1>9 DEF SetsSide
  <2> QED
    BY Zenon, <1>12, <1>13, <1>14, <1>15, <2>1 DEF Store, O
<1>17. Joins(Q, Q2, k, idx)
  <2>1. Joins(Q, SetAt(Q, k, Append(Q[k], idx)), k, idx)
    BY Zenon, <1>1, <1>3, <1>12, PutJoins
  <2> QED
    BY Zenon, <1>a, <2>1
<1> QED
  BY Zenon, <1>12, <1>16, <1>17

(* The remainder of an order rests at k, in the slot idx.                  *)
RestsIn(mem, books, b, order, k, idx, mem2, books2) ==
  /\ k = At(b, order.buySellIndicator, order.price) /\ idx = allocatedIdx(mem)
  /\ mem2 = restOrder(mem, books[b], order).pool
  /\ books2 = [books EXCEPT ![b] = restOrder(mem, books[b], order).book]

(* The same, said with RestsIn.                                            *)
LEMMA StoreRests ==
  ASSUME NEW B, NEW R, NEW P, P \subseteq Nat, NEW mem, NEW books, NEW f, NEW Q,
         Store(mem, books, B, R, P, f, Q),
         NEW b \in B, NEW order \in BookOrders(R, P),
         NEW k, NEW idx, NEW mem2, NEW books2,
         RestsIn(mem, books, b, order, k, idx, mem2, books2)
  PROVE  /\ Store(mem2, books2, B, R, P, Rest(f), SetAt(Q, k, Append(Q[k], idx)))
         /\ Joins(Q, SetAt(Q, k, Append(Q[k], idx)), k, idx)
         /\ AddsOrder(mem.nodes, mem2.nodes, idx, order)
<1>1. PICK s, p, q, rest :
        /\ s = order.buySellIndicator /\ p = order.price /\ q = Q[k]
        /\ rest = restOrder(mem, books[b], order)
  BY Zenon
<1>2. /\ k = At(b, s, p) /\ idx = allocatedIdx(mem)
      /\ mem2 = rest.pool /\ books2 = [books EXCEPT ![b] = rest.book]
  BY <1>1, Zenon DEF RestsIn
<1>3. /\ Store(rest.pool, books2, B, R, P, Rest(f), SetAt(Q, k, Append(q, idx)))
      /\ Joins(Q, SetAt(Q, k, Append(q, idx)), k, idx)
      /\ AddsOrder(mem.nodes, rest.pool.nodes, idx, order)
  BY <1>1, <1>2, StoreRest, ZenonT(60)
<1> QED
  BY Zenon, <1>1, <1>2, <1>3

(* free() writes `next' of the slot and makes it the first free one.       *)
LEMMA FreeWrites ==
  ASSUME NEW O, NEW mem, PoolTypeOK(mem, O), NEW idx \in DOMAIN mem.nodes,
         NEW mem2, mem2 = free(mem, idx)
  PROVE  /\ PoolTypeOK(mem2, O) /\ mem2.freeHead = idx
         /\ SetsNext(mem.nodes, mem2.nodes, idx, mem.freeHead)
<1> DEFINE D == 0 .. mem.size - 1
<1>1. mem.nodes \in [D -> PoolNodes(O, D)] /\ idx \in D
  BY Zenon DEF PoolTypeOK
<1>2. /\ PoolTypeOK(free(mem, idx), O)
      /\ free(mem, idx) = [nodes    |-> [mem.nodes EXCEPT ![idx].next = mem.freeHead],
                           size     |-> mem.size,
                           freeHead |-> idx]
  BY Zenon, <1>1, FreeType
<1>3. mem2.nodes = [mem.nodes EXCEPT ![idx].next = mem.freeHead] /\ mem2.freeHead = idx
  BY <1>2
<1>4. SetsNext(mem.nodes, [mem.nodes EXCEPT ![idx].next = mem.freeHead], idx, mem.freeHead)
  <2> HIDE DEF D
  <2>1. PICK ns \in [D -> PoolNodes(O, D)] : ns = mem.nodes
    BY Zenon, <1>1
  <2> QED
    BY Zenon, <1>1, <2>1, NextWrites
<1> QED
  BY Zenon, <1>2, <1>3, <1>4

(* The sides of one book change and the books stay well typed.             *)
LEMMA BooksType ==
  ASSUME NEW B, NEW P, NEW D, NEW books, books = [c \in B |-> books[c]],
         \A c \in B : BookTypeOK(books[c], D, P), NEW b \in B, NEW book,
         BookTypeOK(book, D, P)
  PROVE  \A c \in B : BookTypeOK([books EXCEPT ![b] = book][c], D, P)
<1>1. \A c \in B : [books EXCEPT ![b] = book][c] = IF c = b THEN book ELSE books[c]
  BY Zenon
<1> QED
  BY Zenon, <1>1

(* removeByIndex: a resting order leaves its queue and its slot.           *)
LEMMA StoreRemove ==
  ASSUME NEW B, NEW R, NEW P, P \subseteq Nat, NEW mem, NEW books, NEW f, NEW Q,
         Store(mem, books, B, R, P, f, Q),
         NEW b \in B, NEW s \in Sides, NEW p \in P, NEW n \in DOMAIN Q[At(b, s, p)],
         mem.nodes[Q[At(b, s, p)][n]].order.buySellIndicator = s,
         mem.nodes[Q[At(b, s, p)][n]].order.price = p,
         NEW rest, rest = removeByIndex(mem, books[b], Q[At(b, s, p)][n])
  PROVE  Taken(mem, B, R, P, f, Q, At(b, s, p), n, rest.pool, [books EXCEPT ![b] = rest.book])
<1>1. PICK k, q, idx, side, lvl :
         /\ k = At(b, s, p) /\ q = Q[k] /\ idx = q[n] /\ side = books[b][s]
         /\ lvl = LevelAt(side, p)
  BY Zenon
<1> DEFINE O == BookOrders(R, P)
           D == DOMAIN mem.nodes
           new == unlink(mem.nodes, lvl, idx)
           cut == [mem EXCEPT !.nodes = new.nodes]
           side2 == Drain(s, side, p, new.level)
           books2 == [books EXCEPT ![b] = rest.book]
<1>2. k \in DOMAIN Q /\ Place(mem.nodes, side, lvl, q, s, P)
  <2>1. At(b, s, p) \in DOMAIN Q
    BY Zenon, StorePlace
  <2>2. Place(mem.nodes, books[b][s], LevelAt(books[b][s], p), Q[At(b, s, p)], s, P)
    BY Zenon, StorePlace
  <2> QED
    BY Zenon, <1>1, <2>1, <2>2
<1>3. /\ PoolTypeOK(mem, O) /\ D = 0 .. mem.size - 1
      /\ mem.nodes \in [D -> PoolNodes(O, D)] /\ INVALID_INDEX \notin D
      /\ books = [c \in B |-> books[c]] /\ \A c \in B : BookTypeOK(books[c], D, P)
  BY InvalidIndexAssumption DEF Store, PoolTypeOK
<1> HIDE DEF O, D
<1>4. /\ n \in DOMAIN q /\ q \in Seq(D) /\ idx \in D /\ q # <<>>
  <2>1. n \in DOMAIN q /\ q \in Seq(D)
    BY Zenon, <1>1, <1>2 DEF Place, D
  <2> QED
    BY <1>1, <2>1, SeqFacts
<1>5. /\ SideTypeOK(side, D, P) /\ lvl \in Levels(D) /\ lvl.head # INVALID_INDEX
      /\ IsQueue(mem.nodes, lvl, q) /\ Distinct(q)
  BY Zenon, <1>2, <1>4 DEF Place, D
<1>6. new.nodes \in [D -> PoolNodes(O, D)]
  <2>1. PICK ns \in [D -> PoolNodes(O, D)] : ns = mem.nodes
    BY Zenon, <1>3
  <2>2. unlink(ns, lvl, q[n]).nodes \in [D -> PoolNodes(O, D)]
    BY ZenonT(40), <1>3, <1>4, <1>5, <2>1, QueueCut
  <2> QED
    BY Zenon, <1>1, <2>1, <2>2
<1>7. removeByIndex(mem, books[b], idx) =
        [pool |-> free([mem EXCEPT !.nodes = remove(s, side, mem.nodes, p, idx).nodes], idx),
         book |-> [books[b] EXCEPT ![s] = remove(s, side, mem.nodes, p, idx).side]]
  <2>1. /\ mem.nodes[idx].order.price = p
        /\ (IF mem.nodes[idx].order.buySellIndicator = "B" THEN "B" ELSE "S") = s
    BY Zenon, <1>1 DEF Sides
  <2> QED
    BY <1>1, <2>1, Zenon DEF removeByIndex
<1>8. /\ remove(s, side, mem.nodes, p, idx).nodes = new.nodes
      /\ remove(s, side, mem.nodes, p, idx).side = side2
  <2>1. PICK nw : nw = new
    BY Zenon
  <2>2. nw = unlink(mem.nodes, LevelAt(side, p), idx) /\ LevelAt(side, p).head # INVALID_INDEX
    BY ZenonT(40), <1>1, <1>5, <2>1
  <2>3. /\ remove(s, side, mem.nodes, p, idx).nodes = nw.nodes
        /\ remove(s, side, mem.nodes, p, idx).side = Drain(s, side, p, nw.level)
    BY <1>5, <2>2, RemoveIsDrain
  <2> QED
    BY Zenon, <2>1, <2>3
<1> HIDE DEF new, side2
<1>9. rest = [pool |-> free(cut, idx), book |-> [books[b] EXCEPT ![s] = side2]]
  BY <1>1, <1>7, <1>8, Zenon
<1>10. /\ cut = [nodes |-> new.nodes, size |-> mem.size, freeHead |-> mem.freeHead]
       /\ PoolTypeOK(cut, O) /\ cut.nodes = new.nodes /\ cut.freeHead = mem.freeHead
  <2>1. cut = [nodes |-> new.nodes, size |-> mem.size, freeHead |-> mem.freeHead]
    BY ZenonT(40), <1>3, ExceptPool DEF PoolTypeOK
  <2> HIDE DEF cut
  <2>2. PoolTypeOK(cut, O) /\ cut.nodes = new.nodes /\ cut.freeHead = mem.freeHead
    BY <1>3, <1>6, <2>1, SetNodesType
  <2> QED
    BY Zenon, <2>1, <2>2
<1> HIDE DEF cut
<1>11. /\ PoolTypeOK(rest.pool, O) /\ rest.pool.freeHead = idx
       /\ SetsNext(new.nodes, rest.pool.nodes, idx, mem.freeHead)
  <2>1. idx \in DOMAIN cut.nodes
    BY ZenonT(40), <1>4, <1>6, <1>10
  <2>2. rest.pool = free(cut, idx)
    BY <1>9
  <2>3. /\ PoolTypeOK(rest.pool, O) /\ rest.pool.freeHead = idx
        /\ SetsNext(cut.nodes, rest.pool.nodes, idx, cut.freeHead)
    BY SMTT(40), <1>10, <2>1, <2>2, FreeWrites
  <2> QED
    BY Zenon, <1>10, <2>3
<1>12. SetsSide(books, books2, B, b, s, side2)
  <2>1. SetsSide(books, [books EXCEPT ![b] = [books[b] EXCEPT ![s] = side2]], B, b, s, side2)
    BY Zenon, <1>3, SideWrites
  <2> QED
    BY <1>9, <2>1
<1>13. \A c \in B : BookTypeOK(books2[c], D, P)
  <2>1. PICK book : book = books[b] /\ BookTypeOK(book, 0 .. mem.size - 1, P)
    BY Zenon, <1>3
  <2>2. rest = removeByIndex(mem, book, idx) /\ idx \in 0 .. mem.size - 1
    BY ZenonT(60), <1>1, <1>3, <1>4, <2>1
  <2>3. BookTypeOK(rest.book, 0 .. mem.size - 1, P)
    BY <1>3, <2>1, <2>2, RemoveByIndexType DEF O
  <2> QED
    BY Zenon, <1>3, <2>3, BooksType
<1> HIDE DEF books2
<1>14. Taken(mem, B, R, P, f, Q, At(b, s, p), n, rest.pool, books2)
  <2>1. Unlinked(mem, books[b][s], s, p, Q[At(b, s, p)][n], new, rest.pool, side2)
    BY Zenon, <1>1, <1>11 DEF new, side2, Unlinked
  <2>2. PoolTypeOK(rest.pool, BookOrders(R, P)) /\ \A c \in B : BookTypeOK(books2[c], DOMAIN mem.nodes, P)
    BY Zenon, <1>11, <1>13 DEF O, D
  <2> QED
    BY Zenon, <1>12, <2>1, <2>2, StoreTake
<1> QED
  BY Zenon, <1>14 DEF books2

-----------------------------------------------------------------------------
(* The order in slot idx has t shares less, and nothing else changes.      *)
Pays(nodes, nodes2, idx, t) ==
  /\ DOMAIN nodes2 = DOMAIN nodes
  /\ nodes2[idx].next = nodes[idx].next /\ nodes2[idx].prev = nodes[idx].prev
  /\ nodes2[idx].order = [nodes[idx].order EXCEPT !.shares = @ - t]
  /\ \A i \in DOMAIN nodes : i # idx => nodes2[i] = nodes[i]

(* The pool once the order in slot idx has traded or given up t shares.    *)
PaidPool(mem, idx, t) == [mem EXCEPT !.nodes[idx].order.shares = @ - t]

(* The shares of one slot are reduced and nothing else of the pool         *)
(* changes.                                                                *)
LEMMA PayPool ==
  ASSUME NEW R, NEW P, NEW mem, PoolTypeOK(mem, BookOrders(R, P)),
         NEW idx \in DOMAIN mem.nodes, NEW t \in Nat, t <= mem.nodes[idx].order.shares,
         NEW mem2, mem2 = PaidPool(mem, idx, t)
  PROVE  /\ PoolTypeOK(mem2, BookOrders(R, P))
         /\ mem2.size = mem.size /\ mem2.freeHead = mem.freeHead
         /\ Pays(mem.nodes, mem2.nodes, idx, t)
<1> DEFINE O == BookOrders(R, P)
           D == 0 .. mem.size - 1
           node == mem.nodes[idx]
           less == [node.order EXCEPT !.shares = @ - t]
           ns == [mem.nodes EXCEPT ![idx].order.shares = @ - t]
<1>1. mem.nodes \in [D -> PoolNodes(O, D)] /\ idx \in D
  BY Zenon DEF PoolTypeOK
<1>2. node \in PoolNodes(O, D)
  BY Zenon, <1>1
<1>3. node.order \in O /\ node.order.shares \in Nat
  BY Zenon, <1>2 DEF PoolNodes, BookOrders
<1>4. less \in O
  <2>1. node.order.shares - t \in Nat
    BY <1>3
  <2> HIDE DEF node
  <2> QED
    BY Zenon, <1>3, <2>1 DEF BookOrders
<1>5. ns = [mem.nodes EXCEPT ![idx] = [node EXCEPT !.order = less]]
  BY Zenon, <1>1
<1>6. /\ [node EXCEPT !.order = less] \in PoolNodes(O, D)
      /\ [node EXCEPT !.order = less].order = less
      /\ [node EXCEPT !.order = less].next = node.next
      /\ [node EXCEPT !.order = less].prev = node.prev
  <2> HIDE DEF O, D, node, less
  <2> QED
    BY Zenon, <1>2, <1>4 DEF PoolNodes
<1> HIDE DEF O, D, less, ns
<1>7. ns \in [D -> PoolNodes(O, D)]
  <2> HIDE DEF node
  <2> QED
    BY Zenon, <1>1, <1>5, <1>6
<1>8. Pays(mem.nodes, ns, idx, t)
  <2>1. /\ ns[idx] = [node EXCEPT !.order = less] /\ DOMAIN ns = DOMAIN mem.nodes
        /\ \A i \in DOMAIN mem.nodes : i # idx => ns[i] = mem.nodes[i]
    BY Zenon, <1>1, <1>5
  <2> QED
    BY Zenon, <1>6, <2>1 DEF Pays, less
<1>9. mem2 = [nodes |-> ns, size |-> mem.size, freeHead |-> mem.freeHead]
  <2>1. PaidPool(mem, idx, t) = [mem EXCEPT !.nodes = ns]
    BY Zenon DEF PoolTypeOK, ns, PaidPool
  <2>2. [mem EXCEPT !.nodes = ns] = [nodes |-> ns, size |-> mem.size, freeHead |-> mem.freeHead]
    BY Zenon, ExceptPool DEF PoolTypeOK
  <2> QED
    BY <2>1, <2>2, Zenon
<1>10. /\ PoolTypeOK(mem2, O) /\ mem2.size = mem.size
       /\ mem2.nodes = ns /\ mem2.freeHead = mem.freeHead
  <2>1. PICK w : w = [nodes |-> ns, size |-> mem.size, freeHead |-> mem.freeHead]
    BY Zenon
  <2>2. PoolTypeOK(mem, O)
    BY Zenon DEF O
  <2>3. PoolTypeOK(w, O) /\ w.size = mem.size /\ w.nodes = ns /\ w.freeHead = mem.freeHead
    BY <1>7, <2>1, <2>2, SetNodesType DEF D
  <2> QED
    BY <1>9, <2>1, <2>3, Zenon
<1> QED
  BY <1>8, <1>10, Zenon DEF O

(* A payment moves no order.                                               *)
LEMMA StorePay ==
  ASSUME NEW B, NEW R, NEW P, NEW mem, NEW books, NEW f, NEW Q,
         Store(mem, books, B, R, P, f, Q),
         NEW mem2, PoolTypeOK(mem2, BookOrders(R, P)), mem2.freeHead = mem.freeHead,
         NEW idx \in DOMAIN mem.nodes, NEW t, Pays(mem.nodes, mem2.nodes, idx, t)
  PROVE  Store(mem2, books, B, R, P, f, Q)
<1>1. /\ DOMAIN mem2.nodes = DOMAIN mem.nodes
      /\ \A i \in DOMAIN mem.nodes : /\ mem2.nodes[i].next = mem.nodes[i].next
                                     /\ mem2.nodes[i].prev = mem.nodes[i].prev
  BY Zenon DEF Pays
<1>2. Arena(mem, LevelsOf(books, B, P), f, Q)
  BY Zenon DEF Store
<1>3. Arena(mem2, LevelsOf(books, B, P), f, Q)
  BY Zenon, <1>1, <1>2, ArenaKept
<1> QED
  BY Zenon, <1>1, <1>3 DEF Store

(* What the first order of a queue and the incoming one trade.             *)
TradeSize(nodes, idx, order) ==
  IF order.shares < nodes[idx].order.shares THEN order.shares
  ELSE nodes[idx].order.shares

(* The other slots keep their order.                                       *)
OthersKeep(nodes, nodes2, idx) ==
  /\ DOMAIN nodes2 = DOMAIN nodes
  /\ \A i \in DOMAIN nodes : i # idx => nodes2[i].order = nodes[i].order

(* m is a trade of the incoming order with the first order of queue k.     *)
FirstTrade(mem, order, idx, m) ==
  /\ m.shares = order.shares - TradeSize(mem.nodes, idx, order)
  /\ m.executed = <<[ref    |-> mem.nodes[idx].order.ref,
                     shares |-> TradeSize(mem.nodes, idx, order)]>>
  /\ m.removed = IF TradeSize(mem.nodes, idx, order) = mem.nodes[idx].order.shares
                 THEN {mem.nodes[idx].order.ref} ELSE {}

Filled(mem, B, R, P, f, Q, k, mem2, books2) ==
  /\ Store(mem2, books2, B, R, P, <<Q[k][1]>> \o f, SetAt(Q, k, Cut(Q[k], 1)))
  /\ Drops(Q, SetAt(Q, k, Cut(Q[k], 1)), Q[k][1])
  /\ OthersKeep(mem.nodes, mem2.nodes, Q[k][1])

(* matchHead, with the level's head named.                                 *)
Popped(node, lvl) ==
  [head |-> node.next,
   tail |-> IF node.next = INVALID_INDEX THEN INVALID_INDEX ELSE lvl.tail]

PopCut(paid, next) ==
  IF next = INVALID_INDEX THEN paid
  ELSE [paid EXCEPT !.nodes[next].prev = INVALID_INDEX]

FillsFirst(nodes, idx, order) == TradeSize(nodes, idx, order) = nodes[idx].order.shares

TradePool(mem, idx, order) ==
  IF FillsFirst(mem.nodes, idx, order)
  THEN free(PopCut(PaidPool(mem, idx, TradeSize(mem.nodes, idx, order)),
                   mem.nodes[idx].next), idx)
  ELSE PaidPool(mem, idx, TradeSize(mem.nodes, idx, order))

TradeSide(mem, side, order, o, p, lvl) ==
  IF ~FillsFirst(mem.nodes, lvl.head, order) THEN side
  ELSE Drain(o, side, p, Popped(mem.nodes[lvl.head], lvl))

TradeResult(mem, book, order, o, p, lvl) ==
  [pool     |-> TradePool(mem, lvl.head, order),
   book     |-> [book EXCEPT ![o] = TradeSide(mem, book[o], order, o, p, lvl)],
   shares   |-> order.shares - TradeSize(mem.nodes, lvl.head, order),
   executed |-> <<[ref    |-> mem.nodes[lvl.head].order.ref,
                   shares |-> TradeSize(mem.nodes, lvl.head, order)]>>,
   removed  |-> IF FillsFirst(mem.nodes, lvl.head, order)
                THEN {mem.nodes[lvl.head].order.ref} ELSE {}]

(* matchHead() with its local variables named: the opposite side o, its    *)
(* best price p and the level lvl there.                                   *)
LEMMA MatchHeadIs ==
  ASSUME NEW mem, NEW book, NEW order, NEW o, NEW p, NEW lvl
  PROVE  /\ o = Opposite(order.buySellIndicator) /\ p = bestPrice(o, book[o])
         /\ lvl = LevelAt(book[o], p) /\ lvl.head # INVALID_INDEX
         => matchHead(mem, book, order) = TradeResult(mem, book, order, o, p, lvl)
<1> DEFINE o0 == Opposite(order.buySellIndicator)
           p0 == bestPrice(o0, book[o0])
           l0 == LevelAt(book[o0], p0)
           node == mem.nodes[l0.head]
           t == TradeSize(mem.nodes, l0.head, order)
           paid == PaidPool(mem, l0.head, t)
           set == setLevel(book[o0], p0, Popped(node, l0))
           filled == FillsFirst(mem.nodes, l0.head, order)
<1>1. ASSUME l0.head # INVALID_INDEX
      PROVE  matchHead(mem, book, order) =
               [pool     |-> IF filled THEN free(PopCut(paid, node.next), l0.head) ELSE paid,
                book     |-> [book EXCEPT ![o0] =
                                IF ~filled THEN book[o0]
                                ELSE IF node.next = INVALID_INDEX
                                THEN removeEmptyBest(o0, set, p0)
                                ELSE set],
                shares   |-> order.shares - t,
                executed |-> <<[ref |-> node.order.ref, shares |-> t]>>,
                removed  |-> IF filled THEN {node.order.ref} ELSE {}]
  BY <1>1, Zenon DEF matchHead, TradeSize, PopCut, Popped, PaidPool, FillsFirst
<1>2. Popped(node, l0).head = node.next
  <2> HIDE DEF node, l0
  <2> QED BY Zenon DEF Popped
<1>3. TradeSide(mem, book[o0], order, o0, p0, l0) =
        IF ~filled THEN book[o0]
        ELSE IF node.next = INVALID_INDEX THEN removeEmptyBest(o0, set, p0)
        ELSE set
  BY <1>2, Zenon DEF TradeSide, Drain
<1>4. TradePool(mem, l0.head, order) =
        IF filled THEN free(PopCut(paid, node.next), l0.head) ELSE paid
  BY Zenon DEF TradePool
<1>5. ASSUME l0.head # INVALID_INDEX
      PROVE  matchHead(mem, book, order) = TradeResult(mem, book, order, o0, p0, l0)
  <2>1. matchHead(mem, book, order) =
               [pool     |-> TradePool(mem, l0.head, order),
                book     |-> [book EXCEPT ![o0] = TradeSide(mem, book[o0], order, o0, p0, l0)],
                shares   |-> order.shares - t,
                executed |-> <<[ref |-> node.order.ref, shares |-> t]>>,
                removed  |-> IF filled THEN {node.order.ref} ELSE {}]
    BY <1>1, <1>3, <1>4, <1>5, Zenon
  <2> QED
    BY <2>1, Zenon DEF TradeResult
<1> QED
  BY <1>5, Zenon

(* Popping the first order of a queue is unlinking it.                     *)
Pops(mem, lvl, idx, new, cut) ==
  /\ cut.nodes = new.nodes /\ cut.freeHead = mem.freeHead /\ cut.size = mem.size
  /\ new.level = Popped(mem.nodes[idx], lvl)

(* Popping the head writes what unlink() would: the head has no            *)
(* predecessor.                                                            *)
LEMMA PopUnlinks ==
  ASSUME NEW O, NEW mem, PoolTypeOK(mem, O), NEW lvl, NEW idx \in DOMAIN mem.nodes,
         mem.nodes[idx].prev = INVALID_INDEX,
         NEW D, D = 0 .. mem.size - 1,
         unlink(mem.nodes, lvl, idx).nodes \in [D -> PoolNodes(O, D)]
  PROVE  /\ PoolTypeOK(PopCut(mem, mem.nodes[idx].next), O)
         /\ Pops(mem, lvl, idx, unlink(mem.nodes, lvl, idx), PopCut(mem, mem.nodes[idx].next))
<1>0. PICK next, prev : next = mem.nodes[idx].next /\ prev = mem.nodes[idx].prev
  BY Zenon
<1> DEFINE new == unlink(mem.nodes, lvl, idx)
           cut == PopCut(mem, next)
           first == IF prev # INVALID_INDEX THEN [mem.nodes EXCEPT ![prev].next = next] ELSE mem.nodes
           ns == IF next # INVALID_INDEX THEN [mem.nodes EXCEPT ![next].prev = prev] ELSE mem.nodes
<1>1. new = [nodes |-> IF next # INVALID_INDEX THEN [first EXCEPT ![next].prev = prev] ELSE first,
             level |-> [head |-> IF prev # INVALID_INDEX THEN lvl.head ELSE next,
                        tail |-> IF next # INVALID_INDEX THEN lvl.tail ELSE prev]]
  BY <1>0, Zenon DEF unlink
<1>2. prev = INVALID_INDEX
  BY Zenon, <1>0
<1>3. first = mem.nodes
  BY <1>2, Zenon
<1> HIDE DEF first
<1>4. new = [nodes |-> ns, level |-> [head |-> next,
                                      tail |-> IF next # INVALID_INDEX THEN lvl.tail ELSE prev]]
  BY <1>1, <1>2, <1>3, Zenon
<1> HIDE DEF ns, new
<1>5. new.nodes = ns /\ new.level = Popped(mem.nodes[idx], lvl)
  BY Zenon, <1>0, <1>2, <1>4 DEF Popped
<1>6. cut = [nodes |-> ns, size |-> mem.size, freeHead |-> mem.freeHead]
  <2>1. CASE next = INVALID_INDEX
    BY Zenon, <2>1 DEF PopCut, ns, PoolTypeOK
  <2>2. CASE next # INVALID_INDEX
    <3>1. [mem EXCEPT !.nodes[next].prev = INVALID_INDEX] =
            [mem EXCEPT !.nodes = [mem.nodes EXCEPT ![next].prev = INVALID_INDEX]]
      BY Zenon DEF PoolTypeOK
    <3>2. [mem EXCEPT !.nodes = ns] = [nodes |-> ns, size |-> mem.size, freeHead |-> mem.freeHead]
      BY Zenon, ExceptPool DEF PoolTypeOK
    <3>3. ns = [mem.nodes EXCEPT ![next].prev = INVALID_INDEX]
      BY <1>2, <2>2, Zenon DEF ns
    <3>4. cut = [mem EXCEPT !.nodes[next].prev = INVALID_INDEX]
      BY <2>2, Zenon DEF PopCut
    <3> QED
      BY <3>1, <3>2, <3>3, <3>4, Zenon
  <2> QED
    BY Zenon, <2>1, <2>2
<1> HIDE DEF cut
<1>7. ns \in [D -> PoolNodes(O, D)]
  BY Zenon, <1>5 DEF new
<1>8. PoolTypeOK(cut, O) /\ cut.nodes = ns /\ cut.size = mem.size /\ cut.freeHead = mem.freeHead
  BY <1>6, <1>7, SetNodesType
<1> QED
  BY <1>0, <1>5, <1>8, Zenon DEF Pops, new, cut

(* The two results of a trade.                                             *)
TradeWrites(mem, books, b, order, o, p, lvl, mem2, books2) ==
  /\ lvl = LevelAt(books[b][o], p)
  /\ mem2 = TradePool(mem, lvl.head, order)
  /\ books2 = [books EXCEPT ![b] =
                 [books[b] EXCEPT ![o] = TradeSide(mem, books[b][o], order, o, p, lvl)]]

(* The first order of a queue trades less than it has.                     *)
LEMMA StorePartly ==
  ASSUME NEW B, NEW R, NEW P, P \subseteq Nat, NEW mem, NEW books, NEW f, NEW Q,
         Store(mem, books, B, R, P, f, Q),
         NEW b \in B, NEW o \in Sides, NEW p \in P, NEW order \in BookOrders(R, P),
         NEW lvl, lvl.head \in DOMAIN mem.nodes, NEW mem2, NEW books2,
         TradeWrites(mem, books, b, order, o, p, lvl, mem2, books2),
         ~FillsFirst(mem.nodes, lvl.head, order)
  PROVE  /\ Store(mem2, books, B, R, P, f, Q) /\ books2 = books
         /\ Pays(mem.nodes, mem2.nodes, lvl.head, TradeSize(mem.nodes, lvl.head, order))
<1>1. PICK idx, t : idx = lvl.head /\ t = TradeSize(mem.nodes, lvl.head, order)
  BY Zenon
<1>2. PoolTypeOK(mem, BookOrders(R, P)) /\ idx \in DOMAIN mem.nodes
  BY Zenon, <1>1 DEF Store
<1>3. t \in Nat /\ t <= mem.nodes[idx].order.shares
  <2>1. mem.nodes[idx].order \in BookOrders(R, P)
    BY Zenon, <1>2 DEF PoolTypeOK, PoolNodes
  <2>2. mem.nodes[idx].order.shares \in Nat /\ order.shares \in Nat
    BY Zenon, <2>1 DEF BookOrders
  <2> QED
    BY <1>1, <2>2 DEF TradeSize
<1>4. mem2 = PaidPool(mem, idx, t)
  BY <1>1, Zenon DEF TradeWrites, TradePool
<1>5. /\ PoolTypeOK(mem2, BookOrders(R, P)) /\ mem2.freeHead = mem.freeHead
      /\ Pays(mem.nodes, mem2.nodes, idx, t)
  BY <1>2, <1>3, <1>4, PayPool
<1>6. Store(mem2, books, B, R, P, f, Q)
  BY Zenon, <1>2, <1>5, StorePay
<1>7. books2 = books
  <2>1. TradeSide(mem, books[b][o], order, o, p, lvl) = books[b][o]
    BY Zenon DEF TradeSide
  <2>2. books = [c \in B |-> books[c]] /\ books[b] = [s \in Sides |-> books[b][s]]
    BY Zenon DEF Store, BookTypeOK
  <2>3. [books[b] EXCEPT ![o] = books[b][o]] = books[b]
    BY Zenon, <2>2
  <2>4. [books EXCEPT ![b] = books[b]] = books
    BY Zenon, <2>2
  <2> QED
    BY <2>1, <2>3, <2>4, Zenon DEF TradeWrites
<1> QED
  BY Zenon, <1>1, <1>5, <1>6, <1>7

(* The first order of a queue is filled.                                   *)
LEMMA StoreFill ==
  ASSUME NEW B, NEW R, NEW P, P \subseteq Nat, NEW mem, NEW books, NEW f, NEW Q,
         Store(mem, books, B, R, P, f, Q),
         NEW b \in B, NEW o \in Sides, NEW p \in P, NEW order \in BookOrders(R, P),
         NEW lvl, lvl.head # INVALID_INDEX, NEW mem2, NEW books2,
         TradeWrites(mem, books, b, order, o, p, lvl, mem2, books2),
         FillsFirst(mem.nodes, lvl.head, order),
         BookTypeOK(books2[b], DOMAIN mem.nodes, P)
  PROVE  Filled(mem, B, R, P, f, Q, At(b, o, p), mem2, books2)
<1>1. PICK idx, t, side, k, q :
         /\ idx = lvl.head /\ t = TradeSize(mem.nodes, lvl.head, order)
         /\ side = books[b][o] /\ k = At(b, o, p) /\ q = Q[k]
  BY Zenon
<1> DEFINE O == BookOrders(R, P)
           D == 0 .. mem.size - 1
           paid == PaidPool(mem, idx, t)
           new == unlink(paid.nodes, lvl, idx)
           cut == PopCut(paid, paid.nodes[idx].next)
           side2 == Drain(o, side, p, new.level)
<1>2. k \in DOMAIN Q /\ Place(mem.nodes, side, lvl, q, o, P) /\ lvl = LevelAt(side, p)
  <2>1. At(b, o, p) \in DOMAIN Q
    BY Zenon, StorePlace
  <2>2. Place(mem.nodes, books[b][o], LevelAt(books[b][o], p), Q[At(b, o, p)], o, P)
    BY Zenon, StorePlace
  <2> QED
    BY Zenon, <1>1, <2>1, <2>2 DEF TradeWrites
<1>3. /\ PoolTypeOK(mem, O) /\ DOMAIN mem.nodes = D /\ INVALID_INDEX \notin D
      /\ books = [c \in B |-> books[c]] /\ \A c \in B : BookTypeOK(books[c], D, P)
  BY InvalidIndexAssumption DEF Store, PoolTypeOK
<1>4. /\ lvl \in Levels(D) /\ IsQueue(mem.nodes, lvl, q) /\ Distinct(q)
      /\ q \in Seq(D) /\ q # <<>> /\ q[1] = idx /\ 1 \in DOMAIN q /\ idx \in D
  <2>1. /\ lvl \in Levels(D) /\ IsQueue(mem.nodes, lvl, q) /\ Distinct(q)
        /\ q \in Seq(D) /\ q # <<>>
    BY Zenon, <1>2, <1>3 DEF Place
  <2>2. q[1] = idx
    BY Zenon, <1>1, <2>1 DEF IsQueue, IsList
  <2>3. 1 \in DOMAIN q
    BY <2>1
  <2> QED
    BY Zenon, <2>1, <2>2, <2>3, SeqFacts
<1>5. t \in Nat /\ t <= mem.nodes[idx].order.shares
  <2>1. mem.nodes[idx].order \in O
    BY Zenon, <1>3, <1>4 DEF PoolTypeOK, PoolNodes
  <2>2. mem.nodes[idx].order.shares \in Nat /\ order.shares \in Nat
    BY Zenon, <2>1 DEF BookOrders
  <2> QED
    BY <1>1, <2>2 DEF TradeSize
<1>6. /\ PoolTypeOK(paid, O) /\ paid.size = mem.size /\ paid.freeHead = mem.freeHead
      /\ Pays(mem.nodes, paid.nodes, idx, t)
  <2>1. PICK w : w = PaidPool(mem, idx, t)
    BY Zenon
  <2>2. /\ PoolTypeOK(w, BookOrders(R, P)) /\ w.size = mem.size /\ w.freeHead = mem.freeHead
        /\ Pays(mem.nodes, w.nodes, idx, t)
    BY SMTT(40), <1>3, <1>4, <1>5, <2>1, PayPool
  <2> QED
    BY <2>1, <2>2, Zenon
<1> HIDE DEF paid
<1>7. Store(paid, books, B, R, P, f, Q)
  BY ZenonT(40), <1>3, <1>4, <1>6, StorePay DEF O
<1> HIDE DEF O, D
<1>8. /\ paid.nodes[idx].next = mem.nodes[idx].next
      /\ paid.nodes[idx].prev = INVALID_INDEX
      /\ DOMAIN paid.nodes = D /\ paid.nodes \in [D -> PoolNodes(O, D)]
  <2>1. mem.nodes[idx].prev = INVALID_INDEX
    BY Zenon, <1>4 DEF IsQueue
  <2> QED
    BY ZenonT(40), <1>3, <1>6, <2>1 DEF Pays, PoolTypeOK, D
<1>9. IsQueue(paid.nodes, lvl, q)
  <2>1. Place(paid.nodes, books[b][o], LevelAt(books[b][o], p), Q[At(b, o, p)], o, P)
    BY Zenon, <1>7, StorePlace
  <2> QED
    BY ZenonT(40), <1>1, <1>2, <2>1 DEF Place
<1>10. new.nodes \in [D -> PoolNodes(O, D)]
  <2>1. PICK ns \in [D -> PoolNodes(O, D)] : ns = paid.nodes
    BY Zenon, <1>8
  <2>2. unlink(ns, lvl, q[1]).nodes \in [D -> PoolNodes(O, D)]
    BY ZenonT(40), <1>3, <1>4, <1>9, <2>1, QueueCut
  <2> QED
    BY Zenon, <1>4, <2>1, <2>2
<1>11. PoolTypeOK(cut, O) /\ Pops(paid, lvl, idx, new, cut)
  <2>1. D = 0 .. paid.size - 1
    BY Zenon, <1>6 DEF D
  <2> QED
    BY ZenonT(40), <1>4, <1>6, <1>8, <1>10, <2>1, PopUnlinks
<1> HIDE DEF new, cut
<1>12. /\ cut.nodes = new.nodes /\ cut.freeHead = mem.freeHead
       /\ new.level = Popped(mem.nodes[idx], lvl)
  BY ZenonT(40), <1>6, <1>8, <1>11 DEF Pops, Popped
<1>13. mem2 = free(cut, idx)
  BY <1>1, <1>8, Zenon DEF TradeWrites, TradePool, cut, paid
<1>14. /\ PoolTypeOK(mem2, O) /\ mem2.freeHead = idx
       /\ SetsNext(new.nodes, mem2.nodes, idx, paid.freeHead)
  <2>1. idx \in DOMAIN cut.nodes
    BY Zenon, <1>4, <1>10, <1>12
  <2>2. /\ PoolTypeOK(mem2, O) /\ mem2.freeHead = idx
        /\ SetsNext(cut.nodes, mem2.nodes, idx, cut.freeHead)
    BY ZenonT(40), <1>11, <1>13, <2>1, FreeWrites
  <2> QED
    BY Zenon, <1>6, <1>12, <2>2
<1>15. SetsSide(books, books2, B, b, o, side2)
  <2>1. TradeSide(mem, books[b][o], order, o, p, lvl) = side2
    BY <1>1, <1>12, Zenon DEF TradeSide
  <2>2. SetsSide(books, [books EXCEPT ![b] = [books[b] EXCEPT ![o] = side2]], B, b, o, side2)
    BY Zenon, <1>3, SideWrites
  <2> QED
    BY <2>1, <2>2, Zenon DEF TradeWrites
<1>16. \A c \in B : BookTypeOK(books2[c], DOMAIN paid.nodes, P)
  <2>1. \A c \in B : c # b => books2[c] = books[c]
    BY Zenon, <1>3 DEF TradeWrites
  <2> QED
    BY ZenonT(40), <1>3, <1>8, <2>1
<1> HIDE DEF side2
<1>17. Taken(paid, B, R, P, f, Q, At(b, o, p), 1, mem2, books2)
  <2>1. Unlinked(paid, books[b][o], o, p, Q[At(b, o, p)][1], new, mem2, side2)
    <3>1. new = unlink(paid.nodes, LevelAt(books[b][o], p), idx)
      BY Zenon, <1>1, <1>2 DEF new
    <3>2. side2 = Drain(o, books[b][o], p, new.level) /\ Q[At(b, o, p)][1] = idx
      BY Zenon, <1>1, <1>4 DEF side2
    <3> QED
      BY ZenonT(40), <1>14, <3>1, <3>2 DEF Unlinked
  <2>2. PoolTypeOK(mem2, BookOrders(R, P)) /\ 1 \in DOMAIN Q[At(b, o, p)]
    BY ZenonT(40), <1>1, <1>4, <1>14 DEF O
  <2> QED
    BY ZenonT(40), <1>7, <1>15, <1>16, <2>1, <2>2, StoreTake
<1>18. OthersKeep(mem.nodes, mem2.nodes, Q[At(b, o, p)][1])
  <2>1. SameOrders(paid.nodes, mem2.nodes)
    BY Zenon, <1>17 DEF Taken
  <2>2. Q[At(b, o, p)][1] = idx
    BY Zenon, <1>1, <1>4
  <2> QED
    BY Zenon, <1>6, <2>1, <2>2 DEF OthersKeep, SameOrders, Pays
<1> QED
  BY Zenon, <1>17, <1>18 DEF Filled, Taken

(* An order that crosses meets the first order of the best opposite queue. *)
Meets(mem, books, b, order, P, Q, o, p) ==
  /\ o \in Sides /\ o = Opposite(order.buySellIndicator) /\ order.shares > 0
  /\ p \in P /\ p = bestPrice(o, books[b][o])
  /\ ~Better(o, order.price, p)
  /\ \A x \in P : Q[At(b, o, x)] # <<>> => ~Better(o, x, p)
  /\ At(b, o, p) \in DOMAIN Q /\ Q[At(b, o, p)] # <<>>
  /\ 1 \in DOMAIN Q[At(b, o, p)]
  /\ LevelAt(books[b][o], p).head = Q[At(b, o, p)][1]
  /\ Q[At(b, o, p)][1] \in DOMAIN mem.nodes

(* The order an incoming one meets: the first of the best populated level  *)
(* of the other side.                                                      *)
LEMMA StoreMeets ==
  ASSUME NEW max \in Nat, NEW B, NEW R, NEW P, P \subseteq 0 .. max,
         NEW mem, NEW books, NEW f, NEW Q, Store(mem, books, B, R, P, f, Q),
         NEW b \in B, NEW order \in BookOrders(R, P), crosses(books[b], order),
         NEW o, o = Opposite(order.buySellIndicator), NEW p, p = bestPrice(o, books[b][o])
  PROVE  Meets(mem, books, b, order, P, Q, o, p)
<1>0. P \subseteq Nat
  OBVIOUS
<1>1. o \in Sides
  BY Zenon DEF Opposite, BookOrders, Sides
<1>2. PICK side : side = books[b][o]
  BY Zenon
<1>3. SideTypeOK(side, DOMAIN mem.nodes, P) /\ SideInv(o, side, P)
  BY Zenon, <1>1, <1>2 DEF Store, BookTypeOK
<1>4. TopOf(o, side, P)
  BY Zenon, <1>3, BestOf
<1>5. hasBest(side) /\ order.shares > 0 /\ ~Better(o, order.price, p)
  BY <1>2, Zenon DEF crosses
<1>6. /\ p \in P /\ LevelAt(side, p).head # INVALID_INDEX
      /\ \A x \in P : LevelAt(side, x).head # INVALID_INDEX => ~Better(o, x, p)
  BY <1>2, <1>4, <1>5, ZenonT(40) DEF TopOf
<1>7. \A x \in P : /\ At(b, o, x) \in DOMAIN Q
                   /\ Place(mem.nodes, books[b][o], LevelAt(books[b][o], x), Q[At(b, o, x)], o, P)
  BY ZenonT(40), <1>0, <1>1, StorePlace
<1>8. \A x \in P : Q[At(b, o, x)] # <<>> => ~Better(o, x, p)
  BY ZenonT(40), <1>2, <1>6, <1>7 DEF Place
<1>9. PICK k, q : k = At(b, o, p) /\ q = Q[k]
  BY Zenon
<1>10. k \in DOMAIN Q /\ Place(mem.nodes, side, LevelAt(side, p), q, o, P)
  BY ZenonT(40), <1>2, <1>6, <1>7, <1>9
<1>11. q \in Seq(DOMAIN mem.nodes) /\ q # <<>> /\ LevelAt(side, p).head = q[1]
  BY Zenon, <1>6, <1>10 DEF Place, IsQueue, IsList
<1>12. 1 \in DOMAIN q /\ q[1] \in DOMAIN mem.nodes
  <2>1. 1 \in DOMAIN q
    BY <1>11
  <2> QED
    BY ZenonT(40), <1>11, <2>1, SeqFacts
<1> QED
  BY <1>1, <1>2, <1>5, <1>6, <1>8, <1>9, <1>10, <1>11, <1>12, ZenonT(40) DEF Meets

(* What one iteration of the matching loop does.                           *)
Trades(mem, books, B, R, P, f, Q, b, order, k, m) ==
  /\ FirstTrade(mem, order, Q[k][1], m)
  /\ FillsFirst(mem.nodes, Q[k][1], order) =>
       Filled(mem, B, R, P, f, Q, k, m.pool, [books EXCEPT ![b] = m.book])
  /\ ~FillsFirst(mem.nodes, Q[k][1], order) =>
       /\ Store(m.pool, books, B, R, P, f, Q) /\ [books EXCEPT ![b] = m.book] = books
       /\ Pays(mem.nodes, m.pool.nodes, Q[k][1], TradeSize(mem.nodes, Q[k][1], order))

(* matchHead(): the met order is paid, and leaves its queue and its slot   *)
(* when that fills it.                                                     *)
LEMMA StoreTrade ==
  ASSUME NEW max \in Nat, NEW B, NEW R, NEW P, P \subseteq 0 .. max,
         NEW mem, NEW books, NEW f, NEW Q, Store(mem, books, B, R, P, f, Q),
         NEW b \in B, NEW order \in BookOrders(R, P), crosses(books[b], order),
         NEW o, NEW p, Meets(mem, books, b, order, P, Q, o, p),
         NEW m, m = matchHead(mem, books[b], order)
  PROVE  Trades(mem, books, B, R, P, f, Q, b, order, At(b, o, p), m)
<1>0. P \subseteq Nat
  OBVIOUS
<1>1. PICK lvl, idx, books2, side2 :
         /\ lvl = LevelAt(books[b][o], p) /\ idx = Q[At(b, o, p)][1]
         /\ books2 = [books EXCEPT ![b] = m.book]
         /\ side2 = TradeSide(mem, books[b][o], order, o, p, lvl)
  BY Zenon
<1>2. /\ o \in Sides /\ p \in P /\ lvl.head = idx /\ idx \in DOMAIN mem.nodes
      /\ idx # INVALID_INDEX
  <2>1. INVALID_INDEX \notin DOMAIN mem.nodes
    BY InvalidIndexAssumption DEF Store, PoolTypeOK
  <2> QED
    BY Zenon, <1>1, <2>1 DEF Meets
<1>3. m = TradeResult(mem, books[b], order, o, p, lvl)
  <2>1. PICK book : book = books[b]
    BY Zenon
  <2>2. /\ o = Opposite(order.buySellIndicator) /\ p = bestPrice(o, book[o])
        /\ lvl = LevelAt(book[o], p) /\ lvl.head # INVALID_INDEX
    BY ZenonT(40), <1>1, <1>2, <2>1 DEF Meets
  <2>3. matchHead(mem, book, order) = TradeResult(mem, book, order, o, p, lvl)
    BY ZenonT(40), <2>2, MatchHeadIs
  <2> QED
    BY Zenon, <2>1, <2>3
<1>4. /\ m.pool = TradePool(mem, idx, order)
      /\ m.book = [books[b] EXCEPT ![o] = side2]
      /\ m.shares = order.shares - TradeSize(mem.nodes, idx, order)
      /\ m.executed = <<[ref    |-> mem.nodes[idx].order.ref,
                         shares |-> TradeSize(mem.nodes, idx, order)]>>
      /\ m.removed = IF FillsFirst(mem.nodes, idx, order)
                     THEN {mem.nodes[idx].order.ref} ELSE {}
  <2>1. m = [pool     |-> TradePool(mem, idx, order),
             book     |-> [books[b] EXCEPT ![o] = side2],
             shares   |-> order.shares - TradeSize(mem.nodes, idx, order),
             executed |-> <<[ref    |-> mem.nodes[idx].order.ref,
                             shares |-> TradeSize(mem.nodes, idx, order)]>>,
             removed  |-> IF FillsFirst(mem.nodes, idx, order)
                          THEN {mem.nodes[idx].order.ref} ELSE {}]
    BY <1>1, <1>2, <1>3, Zenon DEF TradeResult
  <2> QED
    BY <2>1
<1>5. FirstTrade(mem, order, idx, m)
  BY <1>4, Zenon DEF FirstTrade, FillsFirst
<1>6. TradeWrites(mem, books, b, order, o, p, lvl, m.pool, books2)
  BY <1>1, <1>2, <1>4, ZenonT(40) DEF TradeWrites
<1>7. ASSUME ~FillsFirst(mem.nodes, idx, order)
      PROVE  /\ Store(m.pool, books, B, R, P, f, Q) /\ books2 = books
             /\ Pays(mem.nodes, m.pool.nodes, idx, TradeSize(mem.nodes, idx, order))
  <2>1. PICK mem2 : mem2 = m.pool
    BY Zenon
  <2>2. lvl.head \in DOMAIN mem.nodes /\ ~FillsFirst(mem.nodes, lvl.head, order)
        /\ TradeWrites(mem, books, b, order, o, p, lvl, mem2, books2)
    BY ZenonT(40), <1>2, <1>6, <1>7, <2>1
  <2>3. /\ Store(mem2, books, B, R, P, f, Q) /\ books2 = books
        /\ Pays(mem.nodes, mem2.nodes, lvl.head, TradeSize(mem.nodes, lvl.head, order))
    BY ZenonT(40), <1>0, <1>2, <2>2, StorePartly
  <2> QED
    BY ZenonT(40), <1>2, <2>1, <2>3
<1>8. ASSUME FillsFirst(mem.nodes, idx, order)
      PROVE  Filled(mem, B, R, P, f, Q, At(b, o, p), m.pool, books2)
  <2>1. PICK mem2 : mem2 = m.pool
    BY Zenon
  <2>2. lvl.head # INVALID_INDEX /\ FillsFirst(mem.nodes, lvl.head, order)
        /\ TradeWrites(mem, books, b, order, o, p, lvl, mem2, books2)
    BY ZenonT(40), <1>2, <1>6, <1>8, <2>1
  <2>3. BookTypeOK(books2[b], DOMAIN mem.nodes, P)
    <3>1. PICK book : book = books[b]
      BY Zenon
    <3>2. /\ PoolTypeOK(mem, BookOrders(R, P)) /\ BookTypeOK(book, 0 .. mem.size - 1, P)
          /\ crosses(book, order) /\ m = matchHead(mem, book, order)
      BY Zenon, <3>1 DEF Store, PoolTypeOK
    <3>3. BookTypeOK(m.book, 0 .. mem.size - 1, P)
      <4>1. BookTypeOK(matchHead(mem, book, order).book, 0 .. mem.size - 1, P)
        BY ZenonT(40), <3>2, MatchHeadType
      <4> QED
        BY Zenon, <3>2, <4>1
    <3>4. books2[b] = m.book
      <4>1. b \in DOMAIN books
        BY Zenon DEF Store
      <4>2. books2 = [books EXCEPT ![b] = m.book]
        BY Zenon, <1>1
      <4> QED
        BY <4>1, <4>2, ZenonT(40)
    <3> QED
      BY ZenonT(40), <3>2, <3>3, <3>4 DEF PoolTypeOK
  <2>4. Filled(mem, B, R, P, f, Q, At(b, o, p), mem2, books2)
    BY ZenonT(40), <1>0, <1>2, <2>2, <2>3, StoreFill
  <2> QED
    BY ZenonT(40), <2>1, <2>4
<1> QED
  BY <1>1, <1>5, <1>7, <1>8, ZenonT(40) DEF Trades

-----------------------------------------------------------------------------
(***************************************************************************)
(* What the resting orders have to do with the queues they are in and with *)
(* the order map.                                                          *)
(***************************************************************************)

(* A queue holds orders of its own side and price, with shares left.       *)
Filed(nodes, Q) ==
  \A k \in DOMAIN Q : \A i \in Members(Q[k]) :
    /\ nodes[i].order.buySellIndicator = k[2]
    /\ nodes[i].order.price = k[3]
    /\ nodes[i].order.shares > 0

(* A live entry leads to a resting order of its stock and reference.       *)
Mapped(nodes, Q, map, live) ==
  \A r \in live : \E k \in DOMAIN Q :
    /\ k[1] = map[r].stockLocate
    /\ map[r].poolIdx \in Members(Q[k])
    /\ nodes[map[r].poolIdx].order.ref = r

(* A resting order whose reference is fresh has its entry.                 *)
Entered(nodes, Q, map, live, fresh) ==
  \A k \in DOMAIN Q : \A i \in Members(Q[k]) :
    nodes[i].order.ref \in fresh =>
      /\ nodes[i].order.ref \in live
      /\ map[nodes[i].order.ref].stockLocate = k[1]
      /\ map[nodes[i].order.ref].poolIdx = i

(* No bid meets an ask.                                                    *)
Uncrossed(Q) ==
  \A k, l \in DOMAIN Q :
    k[1] = l[1] /\ k[2] = "B" /\ l[2] = "S" /\ Members(Q[k]) # {} /\ Members(Q[l]) # {}
    => k[3] < l[3]

(* Queues are lists of slots.                                              *)
Slotted(nodes, Q) == \A k \in DOMAIN Q : Members(Q[k]) \subseteq DOMAIN nodes

Consistent(nodes, Q, map, live, fresh) ==
  /\ Filed(nodes, Q)
  /\ Mapped(nodes, Q, map, live)
  /\ Entered(nodes, Q, map, live, fresh)
  /\ Uncrossed(Q)

(* An order leaves its queue and its reference the live ones.              *)
LEMMA TakeKeeps ==
  ASSUME NEW nodes, NEW Q, NEW map, NEW live, NEW fresh,
         Consistent(nodes, Q, map, live, fresh), Slotted(nodes, Q),
         NEW idx, NEW k \in DOMAIN Q, idx \in Members(Q[k]),
         NEW nodes2, NEW Q2, NEW map2, Drops(Q, Q2, idx), OthersKeep(nodes, nodes2, idx),
         \A r \in live \ {nodes[idx].order.ref} : map2[r] = map[r]
  PROVE  Consistent(nodes2, Q2, map2, live \ {nodes[idx].order.ref}, fresh)
<1>1. /\ DOMAIN Q2 = DOMAIN Q
      /\ \A l \in DOMAIN Q : Members(Q2[l]) = Members(Q[l]) \ {idx}
      /\ \A l \in DOMAIN Q : \A i \in Members(Q2[l]) :
           /\ i \in Members(Q[l]) /\ i # idx /\ nodes2[i].order = nodes[i].order
  BY Zenon DEF Drops, OthersKeep, Slotted
<1>2. Filed(nodes2, Q2)
  BY <1>1 DEF Consistent, Filed
<1>3. Uncrossed(Q2)
  BY ZenonT(40), <1>1 DEF Consistent, Uncrossed
<1>4. Mapped(nodes2, Q2, map2, live \ {nodes[idx].order.ref})
  <2> SUFFICES ASSUME NEW r \in live, r # nodes[idx].order.ref
               PROVE  \E l \in DOMAIN Q2 : /\ l[1] = map2[r].stockLocate
                                           /\ map2[r].poolIdx \in Members(Q2[l])
                                           /\ nodes2[map2[r].poolIdx].order.ref = r
    BY Zenon DEF Mapped
  <2>1. PICK l \in DOMAIN Q : /\ l[1] = map[r].stockLocate
                              /\ map[r].poolIdx \in Members(Q[l])
                              /\ nodes[map[r].poolIdx].order.ref = r
    BY Zenon DEF Consistent, Mapped
  <2>2. map2[r] = map[r] /\ map[r].poolIdx # idx
    BY Zenon, <2>1
  <2> QED
    BY <1>1, <2>1, <2>2
<1>5. Entered(nodes2, Q2, map2, live \ {nodes[idx].order.ref}, fresh)
  <2> SUFFICES ASSUME NEW l \in DOMAIN Q2, NEW i \in Members(Q2[l]), NEW r,
                      r = nodes2[i].order.ref, r \in fresh
               PROVE  /\ r \in live \ {nodes[idx].order.ref}
                      /\ map2[r].stockLocate = l[1] /\ map2[r].poolIdx = i
    BY DEF Entered
  <2>1. l \in DOMAIN Q /\ i \in Members(Q[l]) /\ i # idx /\ r = nodes[i].order.ref
    BY ZenonT(40), <1>1
  <2>2. r \in live /\ map[r].stockLocate = l[1] /\ map[r].poolIdx = i
    BY <2>1 DEF Consistent, Entered
  <2>3. nodes[idx].order.ref = r => map[r].poolIdx = idx
    BY Zenon DEF Consistent, Entered
  <2> QED
    BY ZenonT(40), <2>1, <2>2, <2>3
<1> QED
  BY ZenonT(40), <1>2, <1>3, <1>4, <1>5 DEF Consistent

(* A resting order loses some of its shares.                               *)
LEMMA PayKeeps ==
  ASSUME NEW nodes, NEW Q, NEW map, NEW live, NEW fresh,
         Consistent(nodes, Q, map, live, fresh), Slotted(nodes, Q),
         NEW idx, NEW t \in Nat, nodes[idx].order.shares \in Nat,
         t < nodes[idx].order.shares,
         NEW R, NEW P, nodes[idx].order \in BookOrders(R, P),
         NEW nodes2, Pays(nodes, nodes2, idx, t)
  PROVE  Consistent(nodes2, Q, map, live, fresh)
<1>1. PICK o : o = nodes[idx].order /\ o \in BookOrders(R, P)
  BY Zenon
<1>2. nodes2[idx].order = [o EXCEPT !.shares = @ - t]
  BY Zenon, <1>1 DEF Pays
<1>3. /\ nodes2[idx].order.ref = o.ref /\ nodes2[idx].order.price = o.price
      /\ nodes2[idx].order.buySellIndicator = o.buySellIndicator
      /\ nodes2[idx].order.shares = o.shares - t
  BY Zenon, <1>1, <1>2 DEF BookOrders
<1>4. \A i \in DOMAIN nodes :
        /\ nodes2[i].order.ref = nodes[i].order.ref
        /\ nodes2[i].order.price = nodes[i].order.price
        /\ nodes2[i].order.buySellIndicator = nodes[i].order.buySellIndicator
        /\ nodes[i].order.shares > 0 => nodes2[i].order.shares > 0
  <2>1. o.shares - t > 0
    BY <1>1
  <2> QED
    BY ZenonT(40), <1>1, <1>3, <2>1 DEF Pays
<1>5. \A k \in DOMAIN Q : \A i \in Members(Q[k]) : i \in DOMAIN nodes
  BY Zenon DEF Slotted
<1>6. Filed(nodes2, Q)
  BY ZenonT(40), <1>4, <1>5 DEF Consistent, Filed
<1>7. Mapped(nodes2, Q, map, live)
  <2> SUFFICES ASSUME NEW r \in live
               PROVE  \E l \in DOMAIN Q : /\ l[1] = map[r].stockLocate
                                          /\ map[r].poolIdx \in Members(Q[l])
                                          /\ nodes2[map[r].poolIdx].order.ref = r
    BY Zenon DEF Mapped
  <2>1. PICK l \in DOMAIN Q : /\ l[1] = map[r].stockLocate
                              /\ map[r].poolIdx \in Members(Q[l])
                              /\ nodes[map[r].poolIdx].order.ref = r
    BY ZenonT(40) DEF Consistent, Mapped
  <2> QED
    BY ZenonT(40), <1>4, <1>5, <2>1
<1>8. Entered(nodes2, Q, map, live, fresh)
  BY <1>4, <1>5 DEF Consistent, Entered
<1> QED
  BY ZenonT(40), <1>6, <1>7, <1>8 DEF Consistent

(* An order belongs in queue k.                                            *)
BelongsIn(order, k) ==
  order.buySellIndicator = k[2] /\ order.price = k[3] /\ order.shares > 0

(* The entry of ref leads to slot idx of book b, and no other live one     *)
(* changes.                                                                *)
Enters(map, map2, live, ref, b, idx) ==
  /\ map2[ref].stockLocate = b /\ map2[ref].poolIdx = idx
  /\ \A r \in live \ {ref} : map2[r] = map[r]

(* An order whose reference is not live joins the queue of its price.      *)
LEMMA JoinKeeps ==
  ASSUME NEW nodes, NEW Q, NEW map, NEW live, NEW fresh,
         Consistent(nodes, Q, map, live, fresh), Slotted(nodes, Q),
         NEW idx, NEW k \in DOMAIN Q, NEW order, BelongsIn(order, k),
         order.ref \in fresh => order.ref \notin live,
         NEW nodes2, NEW Q2, Joins(Q, Q2, k, idx), AddsOrder(nodes, nodes2, idx, order),
         NEW map2, Enters(map, map2, live, order.ref, k[1], idx), Uncrossed(Q2)
  PROVE  Consistent(nodes2, Q2, map2, live \cup {order.ref}, fresh)
<1>1. /\ DOMAIN Q2 = DOMAIN Q /\ idx \in Members(Q2[k])
      /\ \A l \in DOMAIN Q : Members(Q[l]) \subseteq Members(Q2[l])
      /\ \A l \in DOMAIN Q : \A i \in Members(Q2[l]) :
           \/ i \in Members(Q[l]) /\ i # idx /\ i \in DOMAIN nodes
           \/ i = idx /\ l = k
  BY Zenon DEF Joins, Unused, Slotted
<1>2. /\ nodes2[idx].order = order
      /\ \A i \in DOMAIN nodes : i # idx => nodes2[i].order = nodes[i].order
  BY Zenon DEF AddsOrder
<1>3. Filed(nodes2, Q2)
  BY <1>1, <1>2 DEF Consistent, Filed, BelongsIn
<1>4. /\ map2[order.ref].stockLocate = k[1] /\ map2[order.ref].poolIdx = idx
      /\ \A r \in live \ {order.ref} : map2[r] = map[r]
  BY Zenon DEF Enters
<1>5. Mapped(nodes2, Q2, map2, live \cup {order.ref})
  <2> SUFFICES ASSUME NEW r \in live \cup {order.ref}
               PROVE  \E l \in DOMAIN Q2 : /\ l[1] = map2[r].stockLocate
                                           /\ map2[r].poolIdx \in Members(Q2[l])
                                           /\ nodes2[map2[r].poolIdx].order.ref = r
    BY ZenonT(40) DEF Mapped
  <2>1. CASE r = order.ref
    BY <1>1, <1>2, <1>4, <2>1
  <2>2. CASE r # order.ref
    <3>1. PICK l \in DOMAIN Q : /\ l[1] = map[r].stockLocate
                                /\ map[r].poolIdx \in Members(Q[l])
                                /\ nodes[map[r].poolIdx].order.ref = r
      BY Zenon, <2>2 DEF Consistent, Mapped
    <3>2. map2[r] = map[r]
      BY Zenon, <1>4, <2>2
    <3>3. map[r].poolIdx # idx /\ map[r].poolIdx \in DOMAIN nodes
      BY Zenon, <3>1 DEF Joins, Unused, Slotted
    <3> QED
      BY ZenonT(40), <1>1, <1>2, <3>1, <3>2, <3>3
  <2> QED
    BY ZenonT(40), <2>1, <2>2
<1>6. Entered(nodes2, Q2, map2, live \cup {order.ref}, fresh)
  <2> SUFFICES ASSUME NEW l \in DOMAIN Q2, NEW i \in Members(Q2[l]), NEW r,
                      r = nodes2[i].order.ref, r \in fresh
               PROVE  /\ r \in live \cup {order.ref}
                      /\ map2[r].stockLocate = l[1] /\ map2[r].poolIdx = i
    BY DEF Entered
  <2>1. CASE i = idx /\ l = k
    BY Zenon, <1>2, <1>4, <2>1
  <2>2. CASE l \in DOMAIN Q /\ i \in Members(Q[l]) /\ i # idx /\ i \in DOMAIN nodes
    <3>1. r = nodes[i].order.ref
      BY ZenonT(40), <1>2, <2>2
    <3>2. r \in live /\ map[r].stockLocate = l[1] /\ map[r].poolIdx = i
      BY <2>2, <3>1 DEF Consistent, Entered
    <3>3. map2[r] = map[r]
      <4>1. r = order.ref => order.ref \notin live
        BY Zenon
      <4> QED
        BY ZenonT(40), <1>4, <3>2, <4>1
    <3> QED
      BY Zenon, <3>2, <3>3
  <2> QED
    BY ZenonT(40), <1>1, <2>1, <2>2
<1> QED
  BY ZenonT(40), <1>3, <1>5, <1>6 DEF Consistent

(* The queues of a store are lists of its slots, one for each place.       *)
PlacesOf(B, P) == B \X Sides \X P

(* A place is a stock, a side and a price.                                 *)
LEMMA PlaceIs ==
  ASSUME NEW B, NEW P, NEW k \in PlacesOf(B, P)
  PROVE  /\ k[1] \in B /\ k[2] \in Sides /\ k[3] \in P
         /\ k = At(k[1], k[2], k[3])
<1>1. k \in B \X Sides \X P
  BY Zenon DEF PlacesOf
<1> QED
  BY <1>1 DEF At

(* The queues of a store are those of its places, and hold slots of its    *)
(* pool.                                                                   *)
LEMMA StoreSlotted ==
  ASSUME NEW B, NEW R, NEW P, NEW mem, NEW books, NEW f, NEW Q,
         Store(mem, books, B, R, P, f, Q)
  PROVE  /\ Slotted(mem.nodes, Q)
         /\ DOMAIN Q = PlacesOf(B, P)
<1>1. Arena(mem, LevelsOf(books, B, P), f, Q)
  BY Zenon DEF Store
<1>2. DOMAIN Q = PlacesOf(B, P)
  BY Zenon, <1>1 DEF Arena, LevelsOf, PlacesOf
<1>3. ASSUME NEW k \in DOMAIN Q PROVE Members(Q[k]) \subseteq DOMAIN mem.nodes
  <2>1. IsList(mem.nodes, LevelsOf(books, B, P)[k].head, Q[k])
    BY Zenon, <1>1 DEF Arena, IsQueue
  <2> QED
    BY ZenonT(40), <2>1, ListMembers
<1> QED
  BY ZenonT(40), <1>2, <1>3 DEF Slotted

(* A queue is empty when it has no members.                                *)
LEMMA EmptyQueue ==
  ASSUME NEW S, NEW q \in Seq(S)
  PROVE  Members(q) = {} <=> q = <<>>
<1>1. q # <<>> => 1 \in DOMAIN q
  OBVIOUS
<1> QED
  BY <1>1 DEF Members

(* handleOrder rests what no longer crosses, so no book becomes crossed.   *)
LEMMA RestUncrossed ==
  ASSUME NEW max \in Nat, NEW B, NEW R, NEW P, P \subseteq 0 .. max,
         NEW mem, NEW books, NEW f, NEW Q, Store(mem, books, B, R, P, f, Q),
         Uncrossed(Q),
         NEW b \in B, NEW order \in BookOrders(R, P), order.shares > 0,
         ~crosses(books[b], order),
         NEW s, s = order.buySellIndicator, NEW p, p = order.price,
         NEW idx, NEW Q2, Joins(Q, Q2, At(b, s, p), idx)
  PROVE  Uncrossed(Q2)
<1>0. P \subseteq Nat /\ p \in P /\ s \in Sides
  BY DEF BookOrders
<1>1. PICK o : o = Opposite(s)
  BY Zenon
<1>2. o \in Sides /\ o # s /\ {o, s} = {"B", "S"}
  BY Zenon, <1>0, <1>1 DEF Opposite, Sides
<1>3. PICK side : side = books[b][o]
  BY Zenon
<1>4. SideTypeOK(side, DOMAIN mem.nodes, P) /\ SideInv(o, side, P)
  BY ZenonT(40), <1>2, <1>3 DEF Store, BookTypeOK
<1>5. TopOf(o, side, P)
  BY ZenonT(40), <1>4, BestOf
<1>6. ASSUME NEW x \in P, Q[At(b, o, x)] # <<>> PROVE Better(o, p, x)
  <2>1. hasBest(side) => Better(o, p, bestPrice(o, side))
    BY ZenonT(40), <1>1, <1>3 DEF crosses
  <2>2. Place(mem.nodes, books[b][o], LevelAt(books[b][o], x), Q[At(b, o, x)], o, P)
    BY ZenonT(40), <1>0, <1>2, StorePlace
  <2>3. LevelAt(side, x).head # INVALID_INDEX
    BY ZenonT(40), <1>3, <1>6, <2>2 DEF Place
  <2>4. /\ hasBest(side) /\ bestPrice(o, side) \in P
        /\ ~Better(o, x, bestPrice(o, side))
    BY ZenonT(40), <1>5, <2>3 DEF TopOf
  <2>5. PICK best \in Nat : best = bestPrice(o, side)
    BY ZenonT(40), <1>0, <2>4
  <2>6. Better(o, p, best) /\ ~Better(o, x, best) /\ x \in Nat /\ p \in Nat
    BY ZenonT(40), <1>0, <2>1, <2>4, <2>5
  <2> QED
    BY SMTT(40), <2>6 DEF Better
<1>7. /\ DOMAIN Q = B \X Sides \X P
      /\ \A k \in DOMAIN Q : Members(Q[k]) # {} => Q[k] # <<>>
  <2>1. DOMAIN Q = PlacesOf(B, P)
    BY Zenon, StoreSlotted
  <2>2. Members(<<>>) = {}
    BY DEF Members
  <2> QED
    BY Zenon, <2>1, <2>2 DEF PlacesOf
<1> SUFFICES ASSUME NEW k \in DOMAIN Q2, NEW l \in DOMAIN Q2,
                    k[1] = l[1], k[2] = "B", l[2] = "S",
                    Members(Q2[k]) # {}, Members(Q2[l]) # {}
             PROVE  k[3] < l[3]
  BY Zenon DEF Uncrossed
<1>8. PICK u : u = At(b, s, p) /\ u[1] = b /\ u[2] = s /\ u[3] = p
  BY DEF At
<1>9. /\ k \in DOMAIN Q /\ l \in DOMAIN Q
      /\ k # u => Members(Q[k]) # {}
      /\ l # u => Members(Q[l]) # {}
  BY ZenonT(40), <1>8 DEF Joins
<1>10. \A v \in DOMAIN Q : v = At(v[1], v[2], v[3]) /\ v[3] \in P
  BY <1>7 DEF At
<1>11. CASE k # u /\ l # u
  BY ZenonT(40), <1>9, <1>11 DEF Uncrossed
<1>12. CASE k = u
  <2>1. l # u /\ o = "S" /\ s = "B"
    BY ZenonT(40), <1>2, <1>8, <1>12
  <2>2. Q[l] # <<>> /\ l = At(b, o, l[3]) /\ l[3] \in P
    BY ZenonT(40), <1>7, <1>8, <1>9, <1>10, <1>12, <2>1
  <2>3. Better("S", p, l[3])
    BY ZenonT(40), <1>6, <2>1, <2>2
  <2> QED
    BY ZenonT(40), <1>8, <1>12, <2>3 DEF Better
<1>13. CASE l = u
  <2>1. k # u /\ o = "B" /\ s = "S"
    BY ZenonT(40), <1>2, <1>8, <1>13
  <2>2. Q[k] # <<>> /\ k = At(b, o, k[3]) /\ k[3] \in P
    BY ZenonT(40), <1>7, <1>8, <1>9, <1>10, <1>13, <2>1
  <2>3. Better("B", p, k[3])
    BY ZenonT(40), <1>6, <2>1, <2>2
  <2>4. p \in Nat /\ k[3] \in Nat
    BY ZenonT(40), <1>0, <2>2
  <2> QED
    BY ZenonT(40), <1>8, <1>13, <2>3, <2>4 DEF Better
<1> QED
  BY ZenonT(40), <1>11, <1>12, <1>13

-----------------------------------------------------------------------------
(***************************************************************************)
(* The queues and the free list are functions of the arena and the books:  *)
(* what the walks along `next' find.                                       *)
(***************************************************************************)
FreeOf(mem) == Chain(mem, mem.freeHead)

ChainsOf(mem, books, B, P) ==
  [k \in PlacesOf(B, P) |-> WalkOf(mem, books[k[1]][k[2]], k[3])]

(* The state of pool, books and order map that the engine maintains.       *)
Sound(mem, books, B, R, P, map, live, fresh) ==
  /\ Store(mem, books, B, R, P, FreeOf(mem), ChainsOf(mem, books, B, P))
  /\ Consistent(mem.nodes, ChainsOf(mem, books, B, P), map, live, fresh)

SameQueues(Q, Q2) ==
  /\ DOMAIN Q2 = DOMAIN Q
  /\ \A k \in DOMAIN Q : Q2[k] = Q[k]

(* The free list and the queues of a store are the ones Chain walks: there *)
(* are no others.                                                          *)
LEMMA StoreWalks ==
  ASSUME NEW B, NEW R, NEW P, P \subseteq Nat, NEW mem, NEW books, NEW f, NEW Q,
         Store(mem, books, B, R, P, f, Q)
  PROVE  f = FreeOf(mem) /\ SameQueues(Q, ChainsOf(mem, books, B, P))
<1>1. Chain(mem, mem.freeHead) = f
  BY Zenon, FreeChain
<1>2. DOMAIN Q = PlacesOf(B, P)
  BY Zenon, StoreSlotted
<1> DEFINE C == ChainsOf(mem, books, B, P)
<1>3. DOMAIN C = PlacesOf(B, P)
  BY Zenon DEF ChainsOf
<1>4. ASSUME NEW k \in PlacesOf(B, P) PROVE C[k] = Q[k]
  <2> HIDE DEF C
  <2>0. k[1] \in B /\ k[2] \in Sides /\ k[3] \in P /\ k = At(k[1], k[2], k[3])
    BY Zenon, PlaceIs
  <2>1. PICK b \in B, s \in Sides, p \in P : b = k[1] /\ s = k[2] /\ p = k[3] /\ k = At(b, s, p)
    BY Zenon, <2>0
  <2>3. C[k] = WalkOf(mem, books[k[1]][k[2]], k[3])
    BY Zenon DEF C, ChainsOf
  <2>4. WalksTo(mem, books[b][s], p, Q[At(b, s, p)])
    BY Zenon, QueueChain
  <2> QED
    BY <2>1, <2>3, <2>4, ZenonT(40) DEF WalksTo
<1> HIDE DEF C
<1> QED
  BY ZenonT(40), <1>1, <1>2, <1>3, <1>4 DEF FreeOf, SameQueues, C

(* A store said with queues that are equal place by place.                 *)
LEMMA SameStore ==
  ASSUME NEW B, NEW R, NEW P, NEW mem, NEW books, NEW f, NEW Q, NEW Q2,
         Store(mem, books, B, R, P, f, Q), SameQueues(Q, Q2)
  PROVE  Store(mem, books, B, R, P, f, Q2)
<1>1. PICK lv : lv = LevelsOf(books, B, P) /\ Arena(mem, lv, f, Q)
  BY Zenon DEF Store
<1>2. DOMAIN Q2 = DOMAIN Q /\ \A k \in DOMAIN Q : Q2[k] = Q[k]
  BY Zenon DEF SameQueues
<1>3. /\ DOMAIN Q2 = DOMAIN lv
      /\ IsList(mem.nodes, mem.freeHead, f) /\ Distinct(f)
      /\ \A k \in DOMAIN Q2 : IsQueue(mem.nodes, lv[k], Q2[k]) /\ Distinct(Q2[k])
      /\ \A k \in DOMAIN Q2 : Members(f) \cap Members(Q2[k]) = {}
      /\ \A k, l \in DOMAIN Q2 : k # l => Members(Q2[k]) \cap Members(Q2[l]) = {}
  BY ZenonT(40), <1>1, <1>2 DEF Arena
<1>4. DOMAIN mem.nodes \subseteq Members(f) \cup UNION {Members(Q2[k]) : k \in DOMAIN Q2}
  BY ZenonT(40), <1>1, <1>2 DEF Arena
<1>5. Arena(mem, lv, f, Q2)
  BY ZenonT(40), <1>3, <1>4 DEF Arena
<1> QED
  BY ZenonT(40), <1>1, <1>5 DEF Store

(* Consistency said with queues that are equal place by place.             *)
LEMMA SameConsistent ==
  ASSUME NEW nodes, NEW Q, NEW Q2, NEW map, NEW live, NEW fresh,
         Consistent(nodes, Q, map, live, fresh), SameQueues(Q, Q2)
  PROVE  Consistent(nodes, Q2, map, live, fresh)
<1>1. DOMAIN Q2 = DOMAIN Q /\ \A k \in DOMAIN Q : Q2[k] = Q[k]
  BY Zenon DEF SameQueues
<1>2. Filed(nodes, Q2)
  BY Zenon, <1>1 DEF Consistent, Filed
<1>3. Mapped(nodes, Q2, map, live)
  BY Zenon, <1>1 DEF Consistent, Mapped
<1>4. Entered(nodes, Q2, map, live, fresh)
  BY Zenon, <1>1 DEF Consistent, Entered
<1>5. Uncrossed(Q2)
  BY Zenon, <1>1 DEF Consistent, Uncrossed
<1> QED
  BY ZenonT(40), <1>2, <1>3, <1>4, <1>5 DEF Consistent

(* A consistent store is sound, whichever free list and queues show it.    *)
LEMMA SoundBy ==
  ASSUME NEW B, NEW R, NEW P, P \subseteq Nat, NEW mem, NEW books, NEW f, NEW Q,
         NEW map, NEW live, NEW fresh, Store(mem, books, B, R, P, f, Q),
         Consistent(mem.nodes, Q, map, live, fresh)
  PROVE  Sound(mem, books, B, R, P, map, live, fresh)
<1>1. PICK C : C = ChainsOf(mem, books, B, P)
  BY Zenon
<1>2. f = FreeOf(mem) /\ SameQueues(Q, C)
  BY Zenon, <1>1, StoreWalks
<1>3. Store(mem, books, B, R, P, f, C)
  BY Zenon, <1>2, SameStore
<1>4. Consistent(mem.nodes, C, map, live, fresh)
  BY Zenon, <1>2, SameConsistent
<1> QED
  BY ZenonT(40), <1>1, <1>2, <1>3, <1>4 DEF Sound

=============================================================================
