-------------------------- MODULE OrderBookProofs ----------------------------
(***************************************************************************)
(* Lemmas about the operators of OrderPool, LadderSide and OrderBook, for  *)
(* every arena, every TICK, every WINDOW and every set of prices: the      *)
(* linked lists that the arena holds, the types, and what keeps a side's   *)
(* caches right.                                                           *)
(***************************************************************************)
EXTENDS OrderBook, WellFoundedInduction, TLAPS

(* A non-empty set of naturals has a least element.                        *)
LEMMA LeastExists ==
  ASSUME NEW S, S \subseteq Nat, S # {}
  PROVE  \E x \in S : \A y \in S : x <= y
<1> DEFINE R == {ss \in Nat \X Nat : ss[1] < ss[2]}
<1>1. IsWellFoundedOn(R, Nat)
  BY Zenon, NatLessThanWellFounded DEF OpToRel
<1> HIDE DEF R
<1>2. PICK x \in S : \A y \in S : ~(<<y, x>> \in R)
  BY Zenon, <1>1, WFMin
<1>3. ASSUME NEW y \in S PROVE x <= y
  <2>1. <<y, x>> \notin R
    BY Zenon, <1>2
  <2> QED BY <2>1 DEF R
<1> QED
  BY Zenon, <1>3


-----------------------------------------------------------------------------
(***************************************************************************)
(* The pool and the queues.                                                *)
(***************************************************************************)

(* linkAtTail stays within the arena.                                      *)
LEMMA LinkAtTailType ==
  ASSUME NEW O, NEW D, NEW nodes \in [D -> PoolNodes(O, D)],
         NEW lvl \in Levels(D), NEW idx \in D
  PROVE  /\ linkAtTail(nodes, lvl, idx).nodes \in [D -> PoolNodes(O, D)]
         /\ linkAtTail(nodes, lvl, idx).level \in Levels(D)
<1> DEFINE linked == [nodes EXCEPT ![idx].prev = lvl.tail,
                                   ![idx].next = INVALID_INDEX]
<1>1. linked \in [D -> PoolNodes(O, D)]
  BY Zenon DEF PoolNodes, Levels, Links
<1>2. lvl.tail # INVALID_INDEX =>
        [linked EXCEPT ![lvl.tail].next = idx] \in [D -> PoolNodes(O, D)]
  <2> HIDE DEF linked
  <2> QED BY Zenon, <1>1 DEF PoolNodes, Levels, Links
<1>3. /\ [lvl EXCEPT !.tail = idx] \in Levels(D)
      /\ [head |-> idx, tail |-> idx] \in Levels(D)
  BY Zenon DEF Levels, Links
<1> QED
  BY Zenon, <1>1, <1>2, <1>3 DEF linkAtTail

(* unlink stays within the arena.                                          *)
LEMMA UnlinkType ==
  ASSUME NEW O, NEW D, NEW nodes \in [D -> PoolNodes(O, D)],
         NEW lvl \in Levels(D), NEW idx \in D
  PROVE  /\ unlink(nodes, lvl, idx).nodes \in [D -> PoolNodes(O, D)]
         /\ unlink(nodes, lvl, idx).level \in Levels(D)
  BY DEF unlink, PoolNodes, Levels, Links

(* Writing the nodes of a pool leaves its size and its free list.          *)
LEMMA ExceptPool ==
  ASSUME NEW pool,
         pool = [nodes |-> pool.nodes, size |-> pool.size,
                 freeHead |-> pool.freeHead],
         NEW x
  PROVE  /\ [pool EXCEPT !.nodes = x] =
              [nodes |-> x, size |-> pool.size, freeHead |-> pool.freeHead]
         /\ [pool EXCEPT !.freeHead = x] =
              [nodes |-> pool.nodes, size |-> pool.size, freeHead |-> x]
<1>1. pool \in [nodes : {pool.nodes}, size : {pool.size},
                freeHead : {pool.freeHead}]
  BY Zenon
<1>2. [pool EXCEPT !.nodes = x] =
        [nodes |-> x, size |-> pool.size, freeHead |-> pool.freeHead]
  BY <1>1
<1>3. [pool EXCEPT !.freeHead = x] =
        [nodes |-> pool.nodes, size |-> pool.size, freeHead |-> x]
  BY <1>1
<1> QED
  BY <1>2, <1>3, Zenon

(* New nodes over the same slots.                                          *)
LEMMA SetNodesType ==
  ASSUME NEW O, NEW pool, PoolTypeOK(pool, O),
         NEW nodes \in [0 .. pool.size - 1 -> PoolNodes(O, 0 .. pool.size - 1)],
         NEW q, q = [nodes |-> nodes, size |-> pool.size,
                     freeHead |-> pool.freeHead]
  PROVE  /\ PoolTypeOK(q, O)
         /\ q.size = pool.size
         /\ q.nodes = nodes
         /\ q.freeHead = pool.freeHead
  BY Zenon DEF PoolTypeOK

(* allocate() returns a slot of the arena, which never shrinks.            *)
LEMMA AllocateType ==
  ASSUME NEW O, NEW pool, PoolTypeOK(pool, O), NEW order \in O
  PROVE  /\ PoolTypeOK(allocate(pool, order), O)
         /\ allocatedIdx(pool) \in 0 .. allocate(pool, order).size - 1
         /\ 0 .. pool.size - 1 \subseteq 0 .. allocate(pool, order).size - 1
<1> DEFINE idx  == allocatedIdx(pool)
           node == [order |-> order, next |-> INVALID_INDEX,
                    prev |-> INVALID_INDEX]
           grow == pool.freeHead = INVALID_INDEX
           D    == 0 .. pool.size - 1
           size == IF grow THEN pool.size + 1 ELSE pool.size
           E    == 0 .. size - 1
           ns   == [i \in DOMAIN pool.nodes \cup {idx} |->
                      IF i = idx THEN node ELSE pool.nodes[i]]
           fh   == IF grow THEN INVALID_INDEX ELSE pool.nodes[idx].next
<1>1. allocate(pool, order) = [nodes |-> ns, size |-> size, freeHead |-> fh]
  BY Zenon DEF allocate
<1>2. size \in Nat /\ D \subseteq E /\ idx \in E /\ D \cup {idx} = E
  BY InvalidIndexAssumption DEF PoolTypeOK, Links, allocatedIdx
<1>3. DOMAIN pool.nodes = D
  BY Zenon DEF PoolTypeOK
<1>4. node \in PoolNodes(O, E)
  BY Zenon DEF PoolNodes, Links
<1>5. ASSUME NEW i \in D PROVE pool.nodes[i] \in PoolNodes(O, E)
  <2>1. pool.nodes[i] \in PoolNodes(O, D)
    BY Zenon, <1>5 DEF PoolTypeOK
  <2> HIDE DEF D, E
  <2> QED BY Zenon, <1>2, <2>1 DEF PoolNodes, Links
<1>6. ns \in [E -> PoolNodes(O, E)]
  <2> HIDE DEF D, E, node, idx
  <2> QED BY Zenon, <1>2, <1>3, <1>4, <1>5
<1>7. fh \in Links(E)
  <2>1. CASE grow
    BY Zenon, <2>1 DEF Links
  <2>2. CASE ~grow
    <3>1. idx \in D
      BY Zenon, <2>2 DEF PoolTypeOK, Links, allocatedIdx
    <3>2. pool.nodes[idx].next \in Links(E)
      BY Zenon, <1>5, <3>1 DEF PoolNodes
    <3> QED BY Zenon, <2>2, <3>2
  <2> QED BY Zenon, <2>1, <2>2
<1> HIDE DEF ns, fh, size, idx
<1>8. allocate(pool, order).size = size
  BY <1>1
<1> QED
  BY <1>1, <1>2, <1>6, <1>7, <1>8 DEF PoolTypeOK, idx

(* free() keeps the pool well typed.                                       *)
LEMMA FreeType ==
  ASSUME NEW O, NEW pool, PoolTypeOK(pool, O), NEW idx \in 0 .. pool.size - 1
  PROVE  /\ PoolTypeOK(free(pool, idx), O)
         /\ free(pool, idx) =
              [nodes    |-> [pool.nodes EXCEPT ![idx].next = pool.freeHead],
               size     |-> pool.size,
               freeHead |-> idx]
<1> DEFINE D  == 0 .. pool.size - 1
           ns == [pool.nodes EXCEPT ![idx].next = pool.freeHead]
           cut == [pool EXCEPT !.nodes[idx].next = pool.freeHead]
<1>1. ns \in [D -> PoolNodes(O, D)]
  <2> HIDE DEF D
  <2>1. pool.nodes \in [D -> PoolNodes(O, D)] /\ pool.freeHead \in Links(D)
    BY Zenon DEF PoolTypeOK, D
  <2> QED BY Zenon, <2>1 DEF PoolNodes
<1>2. cut = [nodes |-> ns, size |-> pool.size, freeHead |-> pool.freeHead]
  BY Zenon, ExceptPool DEF PoolTypeOK
<1>3. free(pool, idx) = [cut EXCEPT !.freeHead = idx]
  BY Zenon DEF free
<1> HIDE DEF ns, cut
<1>4. free(pool, idx) = [nodes |-> ns, size |-> pool.size, freeHead |-> idx]
  BY Zenon, <1>2, <1>3, ExceptPool
<1>5. PoolTypeOK(free(pool, idx), O)
  BY <1>1, <1>4 DEF PoolTypeOK, Links
<1> QED
  BY Zenon, <1>4, <1>5 DEF ns

-----------------------------------------------------------------------------
(***************************************************************************)
(* Sequences, index by index.                                              *)
(***************************************************************************)
LEMMA SeqFacts ==
  ASSUME NEW S, NEW q \in Seq(S)
  PROVE  /\ DOMAIN q = 1 .. Len(q) /\ Len(q) \in Nat
         /\ q = <<>> <=> Len(q) = 0
         /\ \A n \in DOMAIN q : q[n] \in S
OBVIOUS

(* Two sequences with the same length and entries are the same.            *)
LEMMA SameSeq ==
  ASSUME NEW S, NEW q \in Seq(S), NEW r \in Seq(S), Len(q) = Len(r),
         \A n \in 1 .. Len(q) : q[n] = r[n]
  PROVE  q = r
OBVIOUS

(* What Tail leaves of a sequence.                                         *)
LEMMA TailFacts ==
  ASSUME NEW S, NEW q \in Seq(S), q # <<>>
  PROVE  /\ Tail(q) \in Seq(S) /\ Len(Tail(q)) = Len(q) - 1
         /\ DOMAIN Tail(q) = 1 .. Len(q) - 1
         /\ \A n \in 1 .. Len(q) - 1 : Tail(q)[n] = q[n + 1]
         /\ Head(q) = q[1]
OBVIOUS

(* What Append makes of a sequence.                                        *)
LEMMA AppendFacts ==
  ASSUME NEW S, NEW q \in Seq(S), NEW x \in S
  PROVE  /\ Append(q, x) \in Seq(S) /\ Len(Append(q, x)) = Len(q) + 1
         /\ DOMAIN Append(q, x) = 1 .. Len(q) + 1
         /\ Append(q, x)[Len(q) + 1] = x
         /\ \A n \in 1 .. Len(q) : Append(q, x)[n] = q[n]
OBVIOUS

(* What putting an entry in front makes of a sequence.                     *)
LEMMA ConsFacts ==
  ASSUME NEW S, NEW q \in Seq(S), NEW x \in S
  PROVE  /\ <<x>> \o q \in Seq(S) /\ Len(<<x>> \o q) = Len(q) + 1
         /\ DOMAIN (<<x>> \o q) = 1 .. Len(q) + 1
         /\ (<<x>> \o q)[1] = x
         /\ \A n \in 2 .. Len(q) + 1 : (<<x>> \o q)[n] = q[n - 1]
OBVIOUS

(* What is left of a sequence from its k-th element on.                    *)
From(q, k) == SubSeq(q, k, Len(q))

(* From unfolds by one entry.                                              *)
LEMMA FromStep ==
  ASSUME NEW S, NEW q \in Seq(S), NEW k \in 1 .. Len(q)
  PROVE  /\ From(q, Len(q)) = <<q[Len(q)]>>
         /\ From(q, 1) = q
         /\ k < Len(q) => From(q, k) = <<q[k]>> \o From(q, k + 1)
<1>0. Len(q) \in Nat /\ k \in Nat /\ k <= Len(q) /\ 1 <= k
  OBVIOUS
<1>1. From(q, Len(q)) = <<q[Len(q)]>>
  <2>1. PICK x \in S : x = q[Len(q)]
    BY <1>0
  <2>2. /\ From(q, Len(q)) \in Seq(S) /\ Len(From(q, Len(q))) = 1
        /\ From(q, Len(q))[1] = x
    BY <1>0, <2>1 DEF From
  <2>3. <<x>> \in Seq(S) /\ Len(<<x>>) = 1 /\ <<x>>[1] = x
    OBVIOUS
  <2> QED
    BY <2>1, <2>2, <2>3, SameSeq
<1>2. From(q, 1) = q
  <2>1. /\ From(q, 1) \in Seq(S) /\ Len(From(q, 1)) = Len(q)
        /\ \A n \in 1 .. Len(q) : From(q, 1)[n] = q[n]
    BY <1>0 DEF From
  <2> QED
    BY Zenon, <2>1, SameSeq
<1>3. ASSUME k < Len(q) PROVE From(q, k) = <<q[k]>> \o From(q, k + 1)
  <2>1. /\ From(q, k) \in Seq(S) /\ Len(From(q, k)) = Len(q) - k + 1
        /\ \A n \in 1 .. Len(q) - k + 1 : From(q, k)[n] = q[k + n - 1]
    BY <1>0, <1>3 DEF From
  <2>2. /\ From(q, k + 1) \in Seq(S) /\ Len(From(q, k + 1)) = Len(q) - k
        /\ \A n \in 1 .. Len(q) - k : From(q, k + 1)[n] = q[k + n]
    BY <1>0, <1>3 DEF From
  <2> DEFINE r == <<q[k]>> \o From(q, k + 1)
  <2>3. /\ r \in Seq(S) /\ Len(r) = Len(q) - k + 1 /\ r[1] = q[k]
        /\ \A n \in 2 .. Len(q) - k + 1 : r[n] = From(q, k + 1)[n - 1]
    <3>1. PICK x \in S : x = q[k]
      BY <1>0
    <3>2. PICK v \in Seq(S) : v = From(q, k + 1)
      BY Zenon, <2>2
    <3>3. /\ <<x>> \o v \in Seq(S) /\ Len(<<x>> \o v) = Len(v) + 1
          /\ (<<x>> \o v)[1] = x
          /\ \A n \in 2 .. Len(v) + 1 : (<<x>> \o v)[n] = v[n - 1]
      BY ConsFacts
    <3>4. Len(v) + 1 = Len(q) - k + 1
      BY Zenon, <1>0, <2>2, <3>2
    <3> QED
      BY <3>1, <3>2, <3>3, <3>4, Zenon
  <2> HIDE DEF r
  <2>4. ASSUME NEW n \in 1 .. Len(q) - k + 1 PROVE From(q, k)[n] = r[n]
    <3>1. CASE n = 1
      BY <1>0, <2>1, <2>3, <3>1
    <3>2. CASE n # 1
      <4>1. n - 1 \in 1 .. Len(q) - k /\ n \in 2 .. Len(q) - k + 1 /\ k + (n - 1) = k + n - 1
        BY <1>0, <3>2
      <4> QED
        BY Zenon, <2>1, <2>2, <2>3, <4>1
    <3> QED
      BY Zenon, <3>1, <3>2
  <2> QED
    BY Zenon, <2>1, <2>3, <2>4, SameSeq DEF r
<1> QED
  BY Zenon, <1>1, <1>2, <1>3

-----------------------------------------------------------------------------
(***************************************************************************)
(* Chain.  Its recursive function exists, and unfolds.                     *)
(***************************************************************************)
Reach(nodes) == DOMAIN nodes \cup {INVALID_INDEX}

WalkStep(nodes, w, n, i) ==
  IF n = 0 \/ i = INVALID_INDEX THEN <<>>
  ELSE <<i>> \o w[n - 1][nodes[i].next]

IsWalk(nodes, N, w) ==
  w = [n \in 0 .. N |-> [i \in Reach(nodes) |-> WalkStep(nodes, w, n, i)]]

(* Chain is the walk from a head over as many steps as the pool has slots. *)
LEMMA ChainByWalk ==
  ASSUME NEW P, NEW start
  PROVE  Chain(P, start) =
           (CHOOSE w : IsWalk(P.nodes, P.size + 1, w))[P.size + 1][start]
BY Zenon DEF Chain, IsWalk, WalkStep, Reach

(* The recursive function of a walk satisfies its defining equation.       *)
LEMMA WalkUnfolds ==
  ASSUME NEW nodes, NEW N \in Nat, NEW w, IsWalk(nodes, N, w)
  PROVE  \A n \in 0 .. N, i \in Reach(nodes) : w[n][i] = WalkStep(nodes, w, n, i)
<1> DEFINE g == [n \in 0 .. N |-> [i \in Reach(nodes) |-> WalkStep(nodes, w, n, i)]]
<1>1. w = g
  BY Zenon DEF IsWalk
<1>2. \A n \in 0 .. N, i \in Reach(nodes) : g[n][i] = WalkStep(nodes, w, n, i)
  BY Zenon
<1> HIDE DEF g
<1> QED
  BY Zenon, <1>1, <1>2

(* A walk over n steps extends to one over n + 1.                          *)
LEMMA WalkGrows ==
  ASSUME NEW nodes, NEW N \in Nat, NEW w, IsWalk(nodes, N, w),
         \A i \in DOMAIN nodes : nodes[i].next \in Reach(nodes)
  PROVE  \E v : IsWalk(nodes, N + 1, v)
<1> DEFINE v == [n \in 0 .. N + 1 |-> [i \in Reach(nodes) |-> WalkStep(nodes, w, n, i)]]
<1>1. \A n \in 0 .. N, i \in Reach(nodes) : v[n][i] = w[n][i]
  BY WalkUnfolds
<1> HIDE DEF v
<1>2. \A n \in 0 .. N + 1, i \in Reach(nodes) :
        WalkStep(nodes, v, n, i) = WalkStep(nodes, w, n, i)
  BY <1>1 DEF WalkStep, Reach
<1>3. v = [n \in 0 .. N + 1 |-> [i \in Reach(nodes) |-> WalkStep(nodes, v, n, i)]]
  BY Zenon, <1>2 DEF v
<1> QED
  BY Zenon, <1>3 DEF IsWalk

(* By a least counterexample.                                              *)
LEMMA WalkExists ==
  ASSUME NEW nodes, \A i \in DOMAIN nodes : nodes[i].next \in Reach(nodes),
         NEW N \in Nat
  PROVE  \E w : IsWalk(nodes, N, w)
<1> DEFINE T == {n \in Nat : ~ \E w : IsWalk(nodes, n, w)}
<1> SUFFICES ASSUME N \in T PROVE FALSE
  BY Zenon
<1>1. PICK n \in T : \A m \in T : n <= m
  BY Zenon, LeastExists
<1>2. CASE n = 0
  <2> DEFINE v == [k \in 0 .. 0 |-> [i \in Reach(nodes) |-> <<>>]]
  <2>1. v = [k \in 0 .. 0 |-> [i \in Reach(nodes) |-> WalkStep(nodes, v, k, i)]]
    BY DEF WalkStep
  <2>2. IsWalk(nodes, 0, v)
    BY Zenon, <2>1 DEF IsWalk
  <2> QED
    BY Zenon, <1>1, <1>2, <2>2
<1>3. CASE n # 0
  <2>1. n - 1 \in Nat /\ n - 1 \notin T /\ (n - 1) + 1 = n
    BY <1>1, <1>3
  <2>2. PICK w : IsWalk(nodes, n - 1, w)
    BY Zenon, <2>1
  <2>3. \E v : IsWalk(nodes, (n - 1) + 1, v)
    BY Zenon, <2>1, <2>2, WalkGrows
  <2> QED
    BY Zenon, <1>1, <2>1, <2>3
<1> QED
  BY Zenon, <1>2, <1>3

-----------------------------------------------------------------------------
(***************************************************************************)
(* Lists and queues.                                                       *)
(***************************************************************************)

(* The nodes q, in this order, are the list that begins at `start'.        *)
IsList(nodes, start, q) ==
  /\ q \in Seq(DOMAIN nodes)
  /\ start = IF q = <<>> THEN INVALID_INDEX ELSE q[1]
  /\ \A n \in DOMAIN q :
       nodes[q[n]].next = IF n = Len(q) THEN INVALID_INDEX ELSE q[n + 1]

(* They are the queue of the level lvl.                                    *)
IsQueue(nodes, lvl, q) ==
  /\ IsList(nodes, lvl.head, q)
  /\ lvl.tail = IF q = <<>> THEN INVALID_INDEX ELSE q[Len(q)]
  /\ \A n \in DOMAIN q :
       nodes[q[n]].prev = IF n = 1 THEN INVALID_INDEX ELSE q[n - 1]

(* The slots of a list, as a set.                                          *)
Members(q) == {q[n] : n \in DOMAIN q}

(* No slot is in a list twice.                                            *)
Distinct(q) == \A m, n \in DOMAIN q : q[m] = q[n] => m = n

(* Only nodes in S have other links, and no node has another order.        *)
Relinks(nodes, ns, S) ==
  /\ DOMAIN ns = DOMAIN nodes
  /\ \A i \in DOMAIN nodes : ns[i].order = nodes[i].order
  /\ \A i \in DOMAIN nodes : i \notin S => ns[i] = nodes[i]

(* q is a list of L different slots below N.                               *)
ShortList(q, L, N) ==
  /\ \A n \in 1 .. L : q[n] \in 0 .. N - 1
  /\ \A m, n \in 1 .. L : q[m] = q[n] => m = n

(* One slot less leaves room for one element less.                         *)
LEMMA ShorterList ==
  ASSUME NEW N \in Nat, N # 0, NEW q, NEW L \in Nat, L # 0, ShortList(q, L, N)
  PROVE  \E r : ShortList(r, L - 1, N - 1)
<1>1. CASE \A n \in 1 .. L - 1 : q[n] # N - 1
  <2>1. \A n \in 1 .. L - 1 : n \in 1 .. L /\ q[n] \in 0 .. N - 2
    BY <1>1 DEF ShortList
  <2>2. ShortList(q, L - 1, N - 1)
    BY <2>1 DEF ShortList
  <2> QED
    BY Zenon, <2>2
<1>2. ASSUME NEW k \in 1 .. L - 1, q[k] = N - 1 PROVE \E r : ShortList(r, L - 1, N - 1)
  <2> DEFINE r == [n \in 1 .. L - 1 |-> IF n = k THEN q[L] ELSE q[n]]
  <2>1. \A n \in 1 .. L - 1 : n \in 1 .. L /\ n # L /\ L \in 1 .. L /\ k \in 1 .. L
    OBVIOUS
  <2>2. \A n \in 1 .. L - 1 : r[n] = IF n = k THEN q[L] ELSE q[n]
    BY Zenon
  <2> HIDE DEF r
  <2>3. \A n \in 1 .. L : n # k => q[n] \in 0 .. N - 2
    <3>1. ASSUME NEW n \in 1 .. L, n # k PROVE q[n] \in 0 .. N - 2
      <4>1. q[n] \in 0 .. N - 1 /\ q[n] # N - 1
        BY Zenon, <1>2, <2>1, <3>1 DEF ShortList
      <4> QED
        BY <4>1
    <3> QED
      BY Zenon, <3>1
  <2>4. \A n \in 1 .. L - 1 : r[n] \in 0 .. (N - 1) - 1
    BY <2>1, <2>2, <2>3
  <2>5. \A m, n \in 1 .. L - 1 : r[m] = r[n] => m = n
    BY Zenon, <2>1, <2>2 DEF ShortList
  <2> QED
    BY Zenon, <2>4, <2>5 DEF ShortList
<1> QED
  BY Zenon, <1>1, <1>2

(* A list without repetition is not longer than the arena.  By a least     *)
(* counterexample on the size of the arena.                                *)
LEMMA ListFits ==
  ASSUME NEW N \in Nat, NEW q \in Seq(0 .. N - 1), Distinct(q)
  PROVE  Len(q) <= N
<1> DEFINE T == {n \in Nat : \E L, r : L \in Nat /\ L > n /\ ShortList(r, L, n)}
<1>1. ASSUME NEW n \in T PROVE FALSE
  <2>1. PICK k \in T : \A m \in T : k <= m
    BY Zenon, <1>1, LeastExists
  <2>2. PICK L, r : L \in Nat /\ L > k /\ ShortList(r, L, k)
    BY Zenon, <2>1
  <2>3. k \in Nat /\ L # 0
    BY <2>1, <2>2
  <2>4. k # 0
    <3>1. 1 \in 1 .. L
      BY <2>2, <2>3
    <3> QED
      BY <2>2, <3>1 DEF ShortList
  <2>5. PICK u : ShortList(u, L - 1, k - 1)
    BY Zenon, <2>2, <2>3, <2>4, ShorterList
  <2>6. k - 1 \in T
    BY <2>2, <2>3, <2>4, <2>5
  <2> QED
    BY <2>1, <2>3, <2>6
<1>2. ShortList(q, Len(q), N) /\ Len(q) \in Nat
  BY DEF Distinct, ShortList
<1> QED
  BY <1>1, <1>2

(* Chain returns the list.  By a least counterexample on the number of     *)
(* steps that are left.                                                    *)
LEMMA ChainIs ==
  ASSUME NEW O, NEW P, PoolTypeOK(P, O), NEW start, NEW q,
         IsList(P.nodes, start, q), Distinct(q)
  PROVE  Chain(P, start) = q
<1> DEFINE D == 0 .. P.size - 1
           N == P.size + 1
           w == CHOOSE v : IsWalk(P.nodes, P.size + 1, v)
<1>1. /\ P.size \in Nat /\ DOMAIN P.nodes = D /\ N \in Nat
      /\ \A i \in DOMAIN P.nodes : P.nodes[i].next \in Reach(P.nodes)
  BY DEF PoolTypeOK, PoolNodes, Links, Reach
<1>2. IsWalk(P.nodes, N, w)
  BY Zenon, <1>1, WalkExists
<1>3. Chain(P, start) = w[N][start]
  BY Zenon, ChainByWalk
<1> HIDE DEF w
<1>4. \A n \in 0 .. N, i \in Reach(P.nodes) : w[n][i] = WalkStep(P.nodes, w, n, i)
  BY <1>1, <1>2, WalkUnfolds
<1>5. q \in Seq(D) /\ Len(q) \in Nat /\ DOMAIN q = 1 .. Len(q)
  BY <1>1 DEF IsList
<1>6. Len(q) <= P.size
  BY Zenon, <1>1, <1>5, ListFits
<1>7. \A n \in 0 .. N : w[n][INVALID_INDEX] = <<>>
  BY Zenon, <1>4 DEF WalkStep, Reach
<1>8. CASE q = <<>>
  <2>1. start = INVALID_INDEX /\ N \in 0 .. N
    BY <1>1, <1>8 DEF IsList
  <2> QED
    BY Zenon, <1>3, <1>7, <1>8, <2>1
<1>9. CASE q # <<>>
  <2> DEFINE T == {n \in Nat : /\ n <= N
                               /\ \E k \in 1 .. Len(q) : /\ n >= Len(q) - k + 1
                                                         /\ w[n][q[k]] # From(q, k)}
  <2>1. ASSUME T # {} PROVE FALSE
    <3>1. PICK n \in T : \A m \in T : n <= m
      BY Zenon, <2>1, LeastExists
    <3>2. n \in Nat /\ n <= N
      BY Zenon, <3>1
    <3>3. PICK k \in 1 .. Len(q) : n >= Len(q) - k + 1 /\ w[n][q[k]] # From(q, k)
      BY Zenon, <3>1
    <3>a. k \in Nat /\ k <= Len(q) /\ k >= 1 /\ k \in DOMAIN q
      BY <1>5
    <3> HIDE DEF T, N
    <3>b. n - 1 \in Nat /\ n # 0 /\ n - 1 \in 0 .. N /\ n \in 0 .. N /\ n - 1 <= N
      BY <1>1, <1>5, <3>2, <3>3, <3>a
    <3>c. n - 1 \notin T
      BY <3>1, <3>2, <3>b
    <3>4. ASSUME NEW j \in 1 .. Len(q), n - 1 >= Len(q) - j + 1
          PROVE  w[n - 1][q[j]] = From(q, j)
      BY Zenon, <3>b, <3>c, <3>4 DEF T
    <3>5. q[k] \in D /\ q[k] # INVALID_INDEX /\ q[k] \in Reach(P.nodes)
      <4>1. q[k] \in D
        BY Zenon, <1>5, <3>a, SeqFacts
      <4> QED
        BY <1>1, <4>1, InvalidIndexAssumption DEF Reach
    <3>6. w[n][q[k]] = <<q[k]>> \o w[n - 1][P.nodes[q[k]].next]
      BY Zenon, <1>4, <3>b, <3>5 DEF WalkStep
    <3>7. CASE k = Len(q)
      <4>1. P.nodes[q[k]].next = INVALID_INDEX
        BY Zenon, <1>5, <3>7 DEF IsList
      <4>2. w[n][q[k]] = <<q[k]>> \o <<>>
        BY Zenon, <1>7, <3>b, <3>6, <4>1
      <4>3. <<q[k]>> \o <<>> = <<q[k]>>
        BY <3>5
      <4> QED
        BY Zenon, <1>5, <3>3, <3>7, <4>2, <4>3, FromStep
    <3>8. CASE k # Len(q)
      <4>1. P.nodes[q[k]].next = q[k + 1]
        BY Zenon, <3>8, <3>a DEF IsList
      <4>2. k + 1 \in 1 .. Len(q) /\ k < Len(q) /\ n - 1 >= Len(q) - (k + 1) + 1
        <5>1. Len(q) \in Nat /\ n \in Nat /\ k \in Nat /\ k <= Len(q) /\ k # Len(q) /\ k >= 1
          BY Zenon, <1>5, <3>2, <3>8, <3>a
        <5>2. n >= Len(q) - k + 1
          BY Zenon, <3>3
        <5> QED
          BY <5>1, <5>2
      <4>3. w[n - 1][q[k + 1]] = From(q, k + 1)
        BY Zenon, <3>4, <4>2
      <4>4. From(q, k) = <<q[k]>> \o From(q, k + 1)
        BY Zenon, <1>5, <4>2, FromStep
      <4> QED
        BY Zenon, <3>3, <3>6, <4>1, <4>3, <4>4
    <3> QED
      BY Zenon, <3>7, <3>8
  <2>2. N >= Len(q) - 1 + 1 /\ 1 \in 1 .. Len(q) /\ N <= N
    BY <1>1, <1>5, <1>6, <1>9
  <2>3. w[N][q[1]] = From(q, 1)
    BY Zenon, <1>1, <2>1, <2>2
  <2> QED
    BY Zenon, <1>3, <1>5, <1>9, <2>2, <2>3, FromStep DEF IsList
<1> QED
  BY Zenon, <1>8, <1>9

-----------------------------------------------------------------------------
(***************************************************************************)
(* What the operations write, node by node.                                *)
(***************************************************************************)

(* A list whose links are not written stays.                               *)
LEMMA ListFrame ==
  ASSUME NEW nodes, NEW ns, NEW start, NEW q, IsList(nodes, start, q),
         DOMAIN nodes \subseteq DOMAIN ns,
         \A n \in DOMAIN q : ns[q[n]].next = nodes[q[n]].next
  PROVE  IsList(ns, start, q)
<1>1. q \in Seq(DOMAIN ns)
  BY DEF IsList
<1> QED
  BY Zenon, <1>1 DEF IsList

(* A queue none of whose nodes had a link written is still that queue.     *)
LEMMA QueueFrame ==
  ASSUME NEW nodes, NEW ns, NEW lvl, NEW q, IsQueue(nodes, lvl, q),
         DOMAIN nodes \subseteq DOMAIN ns,
         \A n \in DOMAIN q : /\ ns[q[n]].next = nodes[q[n]].next
                             /\ ns[q[n]].prev = nodes[q[n]].prev
  PROVE  IsQueue(ns, lvl, q)
BY ListFrame DEF IsQueue

(* The first node leaves a list.                                           *)
LEMMA ListPop ==
  ASSUME NEW nodes, NEW start, NEW q, IsList(nodes, start, q), q # <<>>
  PROVE  IsList(nodes, nodes[start].next, Tail(q))
<1> DEFINE S == DOMAIN nodes
<1>1. q \in Seq(S) /\ start = q[1]
  BY Zenon DEF IsList
<1> HIDE DEF S
<1>2. DOMAIN q = 1 .. Len(q) /\ Len(q) \in Nat /\ Len(q) # 0
  BY Zenon, <1>1, SeqFacts
<1>3. PICK r \in Seq(S) : /\ r = Tail(q) /\ Len(r) = Len(q) - 1
                          /\ DOMAIN r = 1 .. Len(q) - 1
                          /\ \A n \in 1 .. Len(q) - 1 : r[n] = q[n + 1]
  <2>1. /\ Tail(q) \in Seq(S) /\ Len(Tail(q)) = Len(q) - 1
        /\ DOMAIN Tail(q) = 1 .. Len(q) - 1
        /\ \A n \in 1 .. Len(q) - 1 : Tail(q)[n] = q[n + 1]
    BY Zenon, <1>1, TailFacts
  <2> QED
    BY <2>1, Zenon
<1>4. nodes[start].next = IF r = <<>> THEN INVALID_INDEX ELSE r[1]
  <2>1. r = <<>> <=> Len(q) = 1
    BY <1>2, <1>3, SeqFacts
  <2>2. 1 \in DOMAIN q
    BY <1>2
  <2>3. Len(q) # 1 => 1 \in 1 .. Len(q) - 1
    BY <1>2
  <2> QED
    BY Zenon, <1>1, <1>3, <2>1, <2>2, <2>3 DEF IsList
<1>5. ASSUME NEW n \in DOMAIN r
      PROVE  nodes[r[n]].next = IF n = Len(r) THEN INVALID_INDEX ELSE r[n + 1]
  <2>1. n + 1 \in DOMAIN q /\ r[n] = q[n + 1] /\ n \in Nat
    BY <1>2, <1>3
  <2>2. n = Len(r) <=> n + 1 = Len(q)
    BY <1>2, <1>3, <2>1
  <2>3. n # Len(r) => n + 1 \in 1 .. Len(q) - 1
    BY <1>2, <1>3, <2>1
  <2> QED
    BY Zenon, <1>3, <2>1, <2>2, <2>3 DEF IsList
<1> QED
  BY Zenon, <1>3, <1>4, <1>5 DEF IsList, S

(* A node becomes the first of a list.                                     *)
LEMMA ListPush ==
  ASSUME NEW nodes, NEW ns, NEW start, NEW q, IsList(nodes, start, q),
         DOMAIN ns = DOMAIN nodes, NEW idx \in DOMAIN nodes,
         ns[idx].next = start,
         \A n \in DOMAIN q : ns[q[n]].next = nodes[q[n]].next
  PROVE  IsList(ns, idx, <<idx>> \o q)
<1> DEFINE S == DOMAIN nodes
<1>1. q \in Seq(S) /\ idx \in S
  BY Zenon DEF IsList
<1>d. DOMAIN ns = S
  BY Zenon
<1> HIDE DEF S
<1>2. DOMAIN q = 1 .. Len(q) /\ Len(q) \in Nat
  BY Zenon, <1>1, SeqFacts
<1>3. PICK r \in Seq(S) : /\ r = <<idx>> \o q /\ Len(r) = Len(q) + 1
                          /\ DOMAIN r = 1 .. Len(q) + 1 /\ r[1] = idx
                          /\ \A n \in 2 .. Len(q) + 1 : r[n] = q[n - 1]
  <2>1. /\ <<idx>> \o q \in Seq(S) /\ Len(<<idx>> \o q) = Len(q) + 1
        /\ DOMAIN (<<idx>> \o q) = 1 .. Len(q) + 1 /\ (<<idx>> \o q)[1] = idx
        /\ \A n \in 2 .. Len(q) + 1 : (<<idx>> \o q)[n] = q[n - 1]
    BY <1>1, ConsFacts
  <2> QED
    BY <2>1, Zenon
<1>4. r # <<>>
  BY <1>2, <1>3
<1>5. ASSUME NEW n \in DOMAIN r
      PROVE  ns[r[n]].next = IF n = Len(r) THEN INVALID_INDEX ELSE r[n + 1]
  <2>1. CASE n = 1
    <3>1. q = <<>> <=> 1 = Len(r)
      BY <1>1, <1>2, <1>3, SeqFacts
    <3>2. 1 # Len(r) => 2 \in 2 .. Len(q) + 1
      BY <1>2, <1>3
    <3>3. 1 # Len(r) => r[2] = q[1]
      BY <1>3, <3>2
    <3> QED
      BY <1>3, <2>1, <3>1, <3>3 DEF IsList
  <2>2. CASE n # 1
    <3>1. n - 1 \in DOMAIN q /\ n \in 2 .. Len(q) + 1 /\ n \in Nat
      BY <1>2, <1>3, <2>2
    <3>2. r[n] = q[n - 1] /\ ns[r[n]].next = nodes[q[n - 1]].next
      BY Zenon, <1>3, <3>1
    <3>3. n = Len(r) <=> n - 1 = Len(q)
      BY <1>2, <1>3, <3>1
    <3>4. n # Len(r) => n + 1 \in 2 .. Len(q) + 1 /\ (n + 1) - 1 = (n - 1) + 1
      BY <1>2, <1>3, <3>1
    <3>5. n # Len(r) => r[n + 1] = q[(n - 1) + 1]
      BY Zenon, <1>3, <3>4
    <3> QED
      BY Zenon, <3>1, <3>2, <3>3, <3>5 DEF IsList
  <2> QED
    BY Zenon, <2>1, <2>2
<1> QED
  BY Zenon, <1>3, <1>4, <1>5, <1>d DEF IsList

(* linkAtTail.                                                             *)
LEMMA LinkWrites ==
  ASSUME NEW O, NEW D, NEW nodes \in [D -> PoolNodes(O, D)],
         NEW lvl \in Levels(D), NEW idx \in D, lvl.tail # idx
  PROVE  LET new == linkAtTail(nodes, lvl, idx)
         IN  /\ new.nodes \in [D -> PoolNodes(O, D)]
             /\ new.nodes[idx].prev = lvl.tail
             /\ new.nodes[idx].next = INVALID_INDEX
             /\ lvl.tail # INVALID_INDEX => /\ new.nodes[lvl.tail].next = idx
                                            /\ new.nodes[lvl.tail].prev = nodes[lvl.tail].prev
             /\ \A i \in D \ {idx, lvl.tail} : new.nodes[i] = nodes[i]
             /\ \A i \in D : new.nodes[i].order = nodes[i].order
             /\ new.level.tail = idx
             /\ new.level.head = IF lvl.tail = INVALID_INDEX THEN idx ELSE lvl.head
<1> DEFINE linked == [nodes EXCEPT ![idx].prev = lvl.tail,
                                   ![idx].next = INVALID_INDEX]
           tied   == [linked EXCEPT ![lvl.tail].next = idx]
           new    == linkAtTail(nodes, lvl, idx)
<1>0. new.nodes \in [D -> PoolNodes(O, D)]
  BY Zenon, LinkAtTailType
<1>1. lvl.tail \in D \cup {INVALID_INDEX}
  BY Zenon DEF Levels, Links
<1>2. /\ linked \in [D -> PoolNodes(O, D)]
      /\ linked[idx].prev = lvl.tail /\ linked[idx].next = INVALID_INDEX
      /\ \A i \in D \ {idx} : linked[i] = nodes[i]
      /\ \A i \in D : linked[i].order = nodes[i].order
  BY Zenon, <1>1 DEF PoolNodes, Links
<1> HIDE DEF linked
<1>3. CASE lvl.tail # INVALID_INDEX
  <2>1. new = [nodes |-> tied, level |-> [lvl EXCEPT !.tail = idx]]
    BY <1>3, Zenon DEF linkAtTail, linked
  <2>2. lvl.tail \in D
    BY Zenon, <1>1, <1>3
  <2>3. /\ tied[lvl.tail].next = idx /\ tied[lvl.tail].prev = linked[lvl.tail].prev
        /\ \A i \in D \ {lvl.tail} : tied[i] = linked[i]
        /\ \A i \in D : tied[i].order = linked[i].order
    BY <1>2, <2>2 DEF PoolNodes
  <2>4. [lvl EXCEPT !.tail = idx].tail = idx /\ [lvl EXCEPT !.tail = idx].head = lvl.head
    BY Zenon DEF Levels
  <2> HIDE DEF tied, new
  <2>5. new.nodes = tied /\ new.level.tail = idx /\ new.level.head = lvl.head
    BY Zenon, <2>1, <2>4
  <2> QED
    BY <1>0, <1>2, <1>3, <2>2, <2>3, <2>5 DEF new
<1>4. CASE lvl.tail = INVALID_INDEX
  <2>1. new = [nodes |-> linked, level |-> [head |-> idx, tail |-> idx]]
    BY <1>4, Zenon DEF linkAtTail, linked
  <2> HIDE DEF new
  <2>2. new.nodes = linked /\ new.level.tail = idx /\ new.level.head = idx
    BY Zenon, <2>1
  <2> QED
    BY Zenon, <1>0, <1>2, <1>4, <2>2 DEF new
<1> QED
  BY Zenon, <1>3, <1>4

(* unlink.                                                                 *)
Unlinks(nodes, a, c, lvl, new) ==
  /\ a # INVALID_INDEX => new.nodes[a].next = c /\ new.nodes[a].prev = nodes[a].prev
  /\ c # INVALID_INDEX => new.nodes[c].prev = a /\ new.nodes[c].next = nodes[c].next
  /\ \A i \in DOMAIN nodes \ {a, c} : new.nodes[i] = nodes[i]
  /\ \A i \in DOMAIN nodes : new.nodes[i].order = nodes[i].order
  /\ new.level = [head |-> IF a # INVALID_INDEX THEN lvl.head ELSE c,
                  tail |-> IF c # INVALID_INDEX THEN lvl.tail ELSE a]

(* unlink() writes the links of the neighbours, or the ends of the level,  *)
(* and nothing else.                                                       *)
LEMMA UnlinkWrites ==
  ASSUME NEW O, NEW D, NEW nodes \in [D -> PoolNodes(O, D)], INVALID_INDEX \notin D,
         NEW lvl \in Levels(D), NEW idx \in D,
         NEW a, a = nodes[idx].prev, NEW c, c = nodes[idx].next,
         a # idx, c # idx, a = c => a = INVALID_INDEX
  PROVE  /\ unlink(nodes, lvl, idx).nodes \in [D -> PoolNodes(O, D)]
         /\ Unlinks(nodes, a, c, lvl, unlink(nodes, lvl, idx))
<1> DEFINE cut == IF a # INVALID_INDEX THEN [nodes EXCEPT ![a].next = c] ELSE nodes
           ns  == IF c # INVALID_INDEX THEN [cut EXCEPT ![c].prev = a] ELSE cut
           new == unlink(nodes, lvl, idx)
<1>0. new.nodes \in [D -> PoolNodes(O, D)]
  BY Zenon, UnlinkType
<1>1. a \in D \cup {INVALID_INDEX} /\ c \in D \cup {INVALID_INDEX}
  BY Zenon DEF PoolNodes, Links
<1>2. new = [nodes |-> ns,
             level |-> [head |-> IF a # INVALID_INDEX THEN lvl.head ELSE c,
                        tail |-> IF c # INVALID_INDEX THEN lvl.tail ELSE a]]
  BY Zenon DEF unlink
<1>3. /\ cut \in [D -> PoolNodes(O, D)]
      /\ a # INVALID_INDEX => cut[a].next = c /\ cut[a].prev = nodes[a].prev
      /\ \A i \in D \ {a} : cut[i] = nodes[i]
      /\ \A i \in D : cut[i].order = nodes[i].order
  BY <1>1 DEF PoolNodes, Links
<1> HIDE DEF cut
<1>4. /\ c # INVALID_INDEX => ns[c].prev = a /\ ns[c].next = cut[c].next
      /\ \A i \in D \ {c} : ns[i] = cut[i]
      /\ \A i \in D : ns[i].order = cut[i].order
  BY <1>1, <1>3 DEF PoolNodes
<1> HIDE DEF ns, new
<1>5. /\ new.nodes = ns
      /\ new.level = [head |-> IF a # INVALID_INDEX THEN lvl.head ELSE c,
                      tail |-> IF c # INVALID_INDEX THEN lvl.tail ELSE a]
  BY Zenon, <1>2
<1> QED
  BY <1>0, <1>1, <1>3, <1>4, <1>5 DEF new, Unlinks

-----------------------------------------------------------------------------
(***************************************************************************)
(* linkAtTail appends to a queue, and unlink takes a node out of it.       *)
(***************************************************************************)
Appends(nodes, q, idx, new) ==
  /\ IsQueue(new.nodes, new.level, Append(q, idx))
  /\ Relinks(nodes, new.nodes, Members(q) \cup {idx})
  /\ new.level.head # INVALID_INDEX

(* linkAtTail() makes the slot the last one of the queue.                  *)
LEMMA QueueAppend ==
  ASSUME NEW O, NEW D, NEW nodes \in [D -> PoolNodes(O, D)], INVALID_INDEX \notin D,
         NEW lvl \in Levels(D), NEW idx \in D,
         NEW q, IsQueue(nodes, lvl, q), Distinct(q), idx \notin Members(q)
  PROVE  /\ Appends(nodes, q, idx, linkAtTail(nodes, lvl, idx))
         /\ linkAtTail(nodes, lvl, idx).nodes \in [D -> PoolNodes(O, D)]
<1> DEFINE new == linkAtTail(nodes, lvl, idx)
<1>1. q \in Seq(D) /\ DOMAIN nodes = D
  BY Zenon DEF IsQueue, IsList
<1>2. /\ DOMAIN q = 1 .. Len(q) /\ Len(q) \in Nat /\ \A n \in DOMAIN q : q[n] \in D
      /\ q = <<>> <=> Len(q) = 0
  BY Zenon, <1>1, SeqFacts
<1>3. /\ lvl.tail = INVALID_INDEX <=> Len(q) = 0
      /\ Len(q) # 0 => lvl.tail = q[Len(q)] /\ lvl.head = q[1] /\ 1 \in DOMAIN q /\ Len(q) \in DOMAIN q
  BY <1>2 DEF IsQueue, IsList
<1>m. \A n \in DOMAIN q : q[n] # idx
  BY Zenon DEF Members
<1>4. lvl.tail # idx
  BY Zenon, <1>3, <1>m
<1>5. /\ new.nodes \in [D -> PoolNodes(O, D)]
      /\ new.nodes[idx].prev = lvl.tail
      /\ new.nodes[idx].next = INVALID_INDEX
      /\ lvl.tail # INVALID_INDEX => /\ new.nodes[lvl.tail].next = idx
                                     /\ new.nodes[lvl.tail].prev = nodes[lvl.tail].prev
      /\ \A i \in D \ {idx, lvl.tail} : new.nodes[i] = nodes[i]
      /\ \A i \in D : new.nodes[i].order = nodes[i].order
      /\ new.level.tail = idx
      /\ new.level.head = IF lvl.tail = INVALID_INDEX THEN idx ELSE lvl.head
  BY <1>4, LinkWrites
<1> HIDE DEF new
<1>6. PICK r \in Seq(D) : /\ r = Append(q, idx) /\ Len(r) = Len(q) + 1
                          /\ DOMAIN r = 1 .. Len(q) + 1 /\ r[Len(q) + 1] = idx
                          /\ \A n \in 1 .. Len(q) : r[n] = q[n]
  <2>1. /\ Append(q, idx) \in Seq(D) /\ Len(Append(q, idx)) = Len(q) + 1
        /\ DOMAIN Append(q, idx) = 1 .. Len(q) + 1 /\ Append(q, idx)[Len(q) + 1] = idx
        /\ \A n \in 1 .. Len(q) : Append(q, idx)[n] = q[n]
    BY <1>1, AppendFacts
  <2> QED
    BY <2>1, Zenon
<1>7. ASSUME NEW n \in DOMAIN r
      PROVE  /\ new.nodes[r[n]].next = IF n = Len(r) THEN INVALID_INDEX ELSE r[n + 1]
             /\ new.nodes[r[n]].prev = IF n = 1 THEN INVALID_INDEX ELSE r[n - 1]
  <2>0. n \in 1 .. Len(q) + 1 /\ n \in Nat /\ (n # 1 => n - 1 \in 1 .. Len(q))
    BY <1>2, <1>6
  <2>1. CASE n = Len(q) + 1
    <3>1. r[n] = idx /\ n = Len(r) /\ (n = 1 <=> Len(q) = 0) /\ (n # 1 => r[n - 1] = q[Len(q)])
      <4>1. n - 1 = Len(q) /\ (n # 1 => Len(q) \in 1 .. Len(q)) /\ (n = 1 <=> Len(q) = 0)
        BY <1>2, <2>0, <2>1
      <4>2. n # 1 => r[Len(q)] = q[Len(q)]
        BY Zenon, <1>6, <4>1
      <4> QED
        BY Zenon, <1>6, <2>1, <4>1, <4>2
    <3> QED
      BY Zenon, <1>3, <1>5, <3>1
  <2>2. CASE n # Len(q) + 1
    <3>1. n \in DOMAIN q /\ r[n] = q[n] /\ n # Len(r) /\ (n # 1 => r[n - 1] = q[n - 1])
      BY <1>2, <1>6, <2>0, <2>2
    <3>2. nodes[q[n]].prev = IF n = 1 THEN INVALID_INDEX ELSE q[n - 1]
      BY Zenon, <3>1 DEF IsQueue
    <3>3. CASE n = Len(q)
      <4>1. r[n] = lvl.tail /\ r[n + 1] = idx /\ lvl.tail # INVALID_INDEX
        <5>1. Len(q) # 0
          BY <1>2, <3>1
        <5> QED
          BY Zenon, <1>3, <1>6, <3>1, <3>3, <5>1
      <4> QED
        BY <1>5, <3>1, <3>2, <4>1
    <3>4. CASE n # Len(q)
      <4>1. q[n] # lvl.tail /\ q[n] # idx /\ q[n] \in D
        <5>1. Len(q) # 0
          BY <1>2, <3>1
        <5> QED
          BY Zenon, <1>2, <1>3, <1>m, <3>1, <3>4, <5>1 DEF Distinct
      <4>2. new.nodes[r[n]] = nodes[q[n]]
        BY Zenon, <1>5, <3>1, <4>1
      <4>3. n + 1 \in 1 .. Len(q)
        BY <1>2, <2>0, <2>2, <3>4
      <4>4. nodes[q[n]].next = q[n + 1] /\ r[n + 1] = q[n + 1]
        BY Zenon, <1>6, <3>1, <3>4, <4>3 DEF IsQueue, IsList
      <4> QED
        BY Zenon, <3>1, <3>2, <4>2, <4>4
    <3> QED
      BY Zenon, <3>3, <3>4
  <2> QED
    BY Zenon, <2>1, <2>2
<1>8. /\ r # <<>> /\ new.level.tail = r[Len(r)] /\ new.level.head = r[1]
      /\ new.level.head # INVALID_INDEX
  <2>1. r # <<>>
    BY <1>2, <1>6
  <2>2. new.level.tail = r[Len(r)]
    BY Zenon, <1>5, <1>6
  <2>3. new.level.head = r[1] /\ r[1] \in D
    <3>1. CASE Len(q) = 0
      BY <1>3, <1>5, <1>6, <3>1
    <3>2. CASE Len(q) # 0
      <4>1. 1 \in 1 .. Len(q)
        BY <1>2, <3>2
      <4> QED
        BY Zenon, <1>2, <1>3, <1>5, <1>6, <3>2, <4>1
    <3> QED
      BY Zenon, <3>1, <3>2
  <2> QED
    BY Zenon, <2>1, <2>2, <2>3
<1>9. IsQueue(new.nodes, new.level, r)
  <2>1. DOMAIN new.nodes = D
    BY Zenon, <1>5
  <2> QED
    BY Zenon, <1>7, <1>8, <2>1 DEF IsQueue, IsList
<1>10. ASSUME NEW i \in D, i # idx, \A n \in DOMAIN q : q[n] # i
       PROVE  new.nodes[i] = nodes[i]
  <2>1. i # lvl.tail
    BY Zenon, <1>3, <1>10
  <2> QED
    BY Zenon, <1>5, <1>10, <2>1
<1>11. Relinks(nodes, new.nodes, Members(q) \cup {idx})
  BY Zenon, <1>1, <1>5, <1>10 DEF Relinks, Members
<1> QED
  BY Zenon, <1>5, <1>6, <1>8, <1>9, <1>11 DEF new, Appends

(* q without its n-th element.                                             *)
Cut(q, n) == SubSeq(q, 1, n - 1) \o SubSeq(q, n + 1, Len(q))

(* What Cut leaves of a sequence.                                          *)
LEMMA CutFacts ==
  ASSUME NEW S, NEW q \in Seq(S), NEW n \in 1 .. Len(q)
  PROVE  /\ Cut(q, n) \in Seq(S) /\ Len(Cut(q, n)) = Len(q) - 1
         /\ DOMAIN Cut(q, n) = 1 .. Len(q) - 1
         /\ \A m \in 1 .. Len(q) - 1 : Cut(q, n)[m] = IF m < n THEN q[m] ELSE q[m + 1]
<1> DEFINE u == SubSeq(q, 1, n - 1)
           v == SubSeq(q, n + 1, Len(q))
<1>1. Len(q) \in Nat /\ n \in Nat /\ 1 <= n /\ n <= Len(q)
  OBVIOUS
<1>2. u \in Seq(S) /\ Len(u) = n - 1 /\ \A m \in 1 .. n - 1 : u[m] = q[m]
  BY <1>1
<1>3. v \in Seq(S) /\ Len(v) = Len(q) - n /\ \A m \in 1 .. Len(q) - n : v[m] = q[m + n]
  BY <1>1
<1> HIDE DEF u, v
<1>4. Cut(q, n) = u \o v
  BY Zenon DEF Cut, u, v
<1>5. /\ u \o v \in Seq(S) /\ Len(u \o v) = Len(q) - 1
      /\ DOMAIN (u \o v) = 1 .. Len(q) - 1
      /\ \A m \in 1 .. n - 1 : (u \o v)[m] = u[m]
      /\ \A m \in n .. Len(q) - 1 : (u \o v)[m] = v[m - (n - 1)]
  BY <1>1, <1>2, <1>3
<1>6. ASSUME NEW m \in 1 .. Len(q) - 1
      PROVE  (u \o v)[m] = IF m < n THEN q[m] ELSE q[m + 1]
  <2>1. CASE m < n
    <3>1. m \in 1 .. n - 1
      BY <1>1, <2>1
    <3> QED
      BY Zenon, <1>2, <1>5, <2>1, <3>1
  <2>2. CASE ~(m < n)
    <3>1. m \in n .. Len(q) - 1 /\ m - (n - 1) \in 1 .. Len(q) - n /\ (m - (n - 1)) + n = m + 1
      BY <1>1, <2>2
    <3> QED
      BY Zenon, <1>3, <1>5, <2>2, <3>1
  <2> QED
    BY Zenon, <2>1, <2>2
<1> QED
  BY Zenon, <1>4, <1>5, <1>6

(* unlink() takes the n-th slot out of the queue and keeps the order of    *)
(* the others.                                                             *)
LEMMA QueueCut ==
  ASSUME NEW O, NEW D, NEW nodes \in [D -> PoolNodes(O, D)], INVALID_INDEX \notin D,
         NEW lvl \in Levels(D),
         NEW q, IsQueue(nodes, lvl, q), Distinct(q), NEW n \in DOMAIN q
  PROVE  /\ IsQueue(unlink(nodes, lvl, q[n]).nodes,
                    unlink(nodes, lvl, q[n]).level, Cut(q, n))
         /\ Relinks(nodes, unlink(nodes, lvl, q[n]).nodes, Members(q))
         /\ unlink(nodes, lvl, q[n]).nodes \in [D -> PoolNodes(O, D)]
<1> DEFINE new == unlink(nodes, lvl, q[n])
           a == nodes[q[n]].prev
           c == nodes[q[n]].next
           L == Len(q)
<1>1. q \in Seq(D) /\ DOMAIN nodes = D
  BY Zenon DEF IsQueue, IsList
<1>2. /\ DOMAIN q = 1 .. L /\ L \in Nat /\ \A m \in DOMAIN q : q[m] \in D
      /\ n \in Nat /\ 1 <= n /\ n <= L /\ n \in 1 .. L
  BY <1>1, SeqFacts
<1>3. /\ a = IF n = 1 THEN INVALID_INDEX ELSE q[n - 1]
      /\ c = IF n = L THEN INVALID_INDEX ELSE q[n + 1]
      /\ n # 1 => n - 1 \in DOMAIN q
      /\ n # L => n + 1 \in DOMAIN q
  BY <1>2 DEF IsQueue, IsList
<1>4. /\ a = INVALID_INDEX <=> n = 1
      /\ c = INVALID_INDEX <=> n = L
      /\ n # 1 => a = q[n - 1]
      /\ n # L => c = q[n + 1]
  BY Zenon, <1>2, <1>3
<1>5. ASSUME NEW m \in DOMAIN q
      PROVE  /\ q[m] = a => m = n - 1
             /\ q[m] = c => m = n + 1
             /\ q[m] = q[n] => m = n
  BY <1>2, <1>3, <1>4 DEF Distinct
<1> HIDE DEF a, c
<1>6. a # q[n] /\ c # q[n] /\ (a = c => a = INVALID_INDEX)
  <2>1. a # q[n] /\ c # q[n]
    BY <1>2, <1>5
  <2>2. ASSUME a = c, a # INVALID_INDEX PROVE FALSE
    <3>1. n - 1 \in DOMAIN q /\ q[n - 1] = a
      BY Zenon, <1>3, <1>4, <2>2
    <3>2. n - 1 = n + 1
      BY Zenon, <1>5, <2>2, <3>1
    <3> QED
      BY <1>2, <3>2
  <2> QED
    BY Zenon, <2>1, <2>2
<1>7. /\ new.nodes \in [D -> PoolNodes(O, D)]
      /\ a # INVALID_INDEX => new.nodes[a].next = c /\ new.nodes[a].prev = nodes[a].prev
      /\ c # INVALID_INDEX => new.nodes[c].prev = a /\ new.nodes[c].next = nodes[c].next
      /\ \A i \in D \ {a, c} : new.nodes[i] = nodes[i]
      /\ \A i \in D : new.nodes[i].order = nodes[i].order
      /\ new.level = [head |-> IF a # INVALID_INDEX THEN lvl.head ELSE c,
                      tail |-> IF c # INVALID_INDEX THEN lvl.tail ELSE a]
  <2>1. PICK idx \in D : idx = q[n]
    BY Zenon, <1>2
  <2>2. a = nodes[idx].prev /\ c = nodes[idx].next /\ new = unlink(nodes, lvl, idx)
    BY Zenon, <2>1 DEF a, c
  <2>3. a # idx /\ c # idx
    BY Zenon, <1>6, <2>1
  <2> HIDE DEF new, L
  <2>4. new.nodes \in [D -> PoolNodes(O, D)] /\ Unlinks(nodes, a, c, lvl, new)
    BY <1>6, <2>2, <2>3, UnlinkWrites
  <2> QED
    BY <1>1, <2>4, Zenon DEF Unlinks
<1> HIDE DEF new
<1>8. PICK r \in Seq(D) : /\ r = Cut(q, n) /\ Len(r) = L - 1 /\ DOMAIN r = 1 .. L - 1
                          /\ \A m \in 1 .. L - 1 : r[m] = IF m < n THEN q[m] ELSE q[m + 1]
  <2>1. /\ Cut(q, n) \in Seq(D) /\ Len(Cut(q, n)) = Len(q) - 1
        /\ DOMAIN Cut(q, n) = 1 .. Len(q) - 1
        /\ \A m \in 1 .. Len(q) - 1 : Cut(q, n)[m] = IF m < n THEN q[m] ELSE q[m + 1]
    BY Zenon, <1>1, <1>2, CutFacts
  <2> QED
    BY <2>1, Zenon
<1>l. /\ \A m \in DOMAIN q : nodes[q[m]].next = IF m = L THEN INVALID_INDEX ELSE q[m + 1]
      /\ \A m \in DOMAIN q : nodes[q[m]].prev = IF m = 1 THEN INVALID_INDEX ELSE q[m - 1]
      /\ lvl.head = q[1] /\ lvl.tail = q[L]
  BY <1>2 DEF IsQueue, IsList
<1> HIDE DEF L
<1>9. ASSUME NEW m \in DOMAIN r
      PROVE  /\ new.nodes[r[m]].next = IF m = Len(r) THEN INVALID_INDEX ELSE r[m + 1]
             /\ new.nodes[r[m]].prev = IF m = 1 THEN INVALID_INDEX ELSE r[m - 1]
  <2>0. m \in Nat /\ 1 <= m /\ m <= L - 1 /\ m \in 1 .. L - 1
    BY <1>2, <1>8
  <2>1. CASE m < n - 1
    <3>1. /\ m \in DOMAIN q /\ m < n /\ m # L /\ m # L - 1 /\ m + 1 < n /\ m + 1 \in 1 .. L - 1
          /\ m # n - 1 /\ m # n + 1
          /\ m # 1 => m - 1 \in 1 .. L - 1 /\ m - 1 < n
      BY <1>2, <2>0, <2>1
    <3>2. /\ r[m] = q[m] /\ r[m + 1] = q[m + 1] /\ (m # 1 => r[m - 1] = q[m - 1])
      BY Zenon, <1>8, <2>0, <3>1
    <3>3. new.nodes[q[m]] = nodes[q[m]]
      BY Zenon, <1>2, <1>5, <1>7, <3>1
    <3> QED
      BY <1>8, <1>l, <3>1, <3>2, <3>3
  <2>2. CASE m = n - 1
    <3>1. /\ m \in DOMAIN q /\ m < n /\ n # 1 /\ (m = L - 1 <=> n = L)
          /\ n # L => m + 1 = n /\ ~(n < n) /\ n \in 1 .. L - 1
          /\ m # 1 => m - 1 \in 1 .. L - 1 /\ m - 1 < n
      BY <1>2, <2>0, <2>2
    <3>2. /\ r[m] = q[m] /\ (m # 1 => r[m - 1] = q[m - 1])
      BY Zenon, <1>8, <2>0, <3>1
    <3>3. n # L => r[m + 1] = q[n + 1]
      BY Zenon, <1>8, <2>0, <3>1
    <3>4. r[m] = a /\ a # INVALID_INDEX
      BY Zenon, <1>4, <2>2, <3>1, <3>2
    <3>5. new.nodes[r[m]].next = c /\ new.nodes[r[m]].prev = nodes[q[m]].prev
      BY Zenon, <1>7, <3>2, <3>4
    <3>6. new.nodes[r[m]].prev = IF m = 1 THEN INVALID_INDEX ELSE r[m - 1]
      BY Zenon, <1>l, <3>1, <3>2, <3>5
    <3> QED
      BY Zenon, <1>4, <1>8, <3>1, <3>3, <3>5, <3>6
  <2>3. CASE m = n
    <3>1. /\ m + 1 \in DOMAIN q /\ ~(m < n) /\ n # L /\ (m = L - 1 <=> n + 1 = L) /\ n + 1 # 1
          /\ m # L - 1 => m + 1 \in 1 .. L - 1 /\ ~(m + 1 < n)
          /\ m # 1 => m - 1 \in 1 .. L - 1 /\ m - 1 < n /\ m - 1 = n - 1
      BY <1>2, <2>0, <2>3
    <3>2. /\ r[m] = q[m + 1] /\ (m # 1 => r[m - 1] = q[n - 1])
          /\ m # L - 1 => r[m + 1] = q[(m + 1) + 1]
      BY Zenon, <1>8, <2>0, <3>1
    <3>4. r[m] = c /\ c # INVALID_INDEX
      BY Zenon, <1>4, <2>3, <3>1, <3>2
    <3>5. new.nodes[r[m]].prev = a /\ new.nodes[r[m]].next = nodes[q[m + 1]].next
      BY Zenon, <1>7, <3>2, <3>4
    <3>6. new.nodes[r[m]].next = IF m = Len(r) THEN INVALID_INDEX ELSE r[m + 1]
      BY Zenon, <1>8, <1>l, <2>3, <3>1, <3>2, <3>5
    <3> QED
      BY Zenon, <1>4, <2>3, <3>1, <3>2, <3>5, <3>6
  <2>4. CASE m > n
    <3>0. L \in Nat /\ n \in Nat /\ 1 <= n /\ n < m
      BY Zenon, <1>2, <2>4, <2>0
    <3>1. /\ m + 1 \in DOMAIN q /\ ~(m < n) /\ (m = L - 1 <=> m + 1 = L)
          /\ m + 1 # n - 1 /\ m + 1 # n + 1 /\ m + 1 # 1 /\ m # 1
          /\ m # L - 1 => m + 1 \in 1 .. L - 1 /\ ~(m + 1 < n)
          /\ m - 1 \in 1 .. L - 1 /\ ~(m - 1 < n) /\ (m - 1) + 1 = (m + 1) - 1
      <4>1. DOMAIN q = 1 .. L
        BY Zenon, <1>2
      <4>2. m + 1 \in 1 .. L /\ m - 1 \in 1 .. L - 1 /\ (m # L - 1 => m + 1 \in 1 .. L - 1)
        BY <2>0, <3>0
      <4>3. /\ ~(m < n) /\ (m = L - 1 <=> m + 1 = L)
            /\ m + 1 # n - 1 /\ m + 1 # n + 1 /\ m + 1 # 1 /\ m # 1
        BY <2>0, <3>0
      <4>4. ~(m + 1 < n) /\ ~(m - 1 < n) /\ (m - 1) + 1 = (m + 1) - 1
        BY <2>0, <3>0
      <4> QED
        BY Zenon, <4>1, <4>2, <4>3, <4>4
    <3>2. /\ r[m] = q[m + 1] /\ r[m - 1] = q[(m + 1) - 1]
          /\ m # L - 1 => r[m + 1] = q[(m + 1) + 1]
      BY Zenon, <1>8, <2>0, <3>1
    <3>3. new.nodes[q[m + 1]] = nodes[q[m + 1]]
      BY Zenon, <1>2, <1>5, <1>7, <3>1
    <3> QED
      BY <1>8, <1>l, <3>1, <3>2, <3>3
  <2> QED
    BY <1>2, <2>0, <2>1, <2>2, <2>3, <2>4
<1>10. /\ new.level.head = IF r = <<>> THEN INVALID_INDEX ELSE r[1]
       /\ new.level.tail = IF r = <<>> THEN INVALID_INDEX ELSE r[Len(r)]
  <2>0. r = <<>> <=> L = 1
    BY <1>2, <1>8, SeqFacts
  <2>1. CASE L = 1
    BY <1>2, <1>4, <1>7, <2>0, <2>1
  <2>2. CASE L # 1
    <3>0. 1 \in 1 .. L - 1 /\ L - 1 \in 1 .. L - 1 /\ (L - 1) + 1 = L
      BY <1>2, <2>2
    <3>1. r[1] = IF n = 1 THEN q[n + 1] ELSE q[1]
      BY <1>2, <1>8, <3>0
    <3>2. n # L => r[L - 1] = q[L]
      BY <1>2, <1>8, <3>0
    <3>3. n = L => r[L - 1] = q[n - 1]
      BY <1>2, <1>8, <3>0
    <3>4. ~(n = 1 /\ n = L)
      BY Zenon, <2>2
    <3> QED
      BY <1>4, <1>7, <1>8, <1>l, <2>0, <2>2, <3>1, <3>2, <3>3, <3>4
  <2> QED
    BY Zenon, <2>1, <2>2
<1>11. IsQueue(new.nodes, new.level, r)
  <2>1. DOMAIN new.nodes = D
    BY Zenon, <1>7
  <2> QED
    BY Zenon, <1>9, <1>10, <2>1 DEF IsQueue, IsList
<1>12. ASSUME NEW i \in D, \A m \in DOMAIN q : q[m] # i PROVE new.nodes[i] = nodes[i]
  <2>1. i # a /\ i # c
    BY Zenon, <1>2, <1>3, <1>4, <1>12
  <2> QED
    BY Zenon, <1>7, <2>1
<1>13. Relinks(nodes, new.nodes, Members(q))
  BY Zenon, <1>1, <1>7, <1>12 DEF Relinks, Members
<1> QED
  BY Zenon, <1>7, <1>8, <1>11, <1>13 DEF new

-----------------------------------------------------------------------------
(* The slots of a queue after an append.                                   *)
LEMMA MembersAppend ==
  ASSUME NEW S, NEW q \in Seq(S), Distinct(q), NEW x \in S, x \notin Members(q)
  PROVE  /\ Members(Append(q, x)) = Members(q) \cup {x}
         /\ Distinct(Append(q, x))
<1>1. PICK r \in Seq(S) : /\ r = Append(q, x) /\ Len(r) = Len(q) + 1
                          /\ DOMAIN r = 1 .. Len(q) + 1 /\ r[Len(q) + 1] = x
                          /\ \A n \in 1 .. Len(q) : r[n] = q[n]
  <2>1. /\ Append(q, x) \in Seq(S) /\ Len(Append(q, x)) = Len(q) + 1
        /\ DOMAIN Append(q, x) = 1 .. Len(q) + 1
        /\ Append(q, x)[Len(q) + 1] = x
        /\ \A n \in 1 .. Len(q) : Append(q, x)[n] = q[n]
    BY AppendFacts
  <2> QED
    BY <2>1, Zenon
<1>2. DOMAIN q = 1 .. Len(q) /\ Len(q) \in Nat
  BY Zenon, SeqFacts
<1>3. \A n \in DOMAIN r : n = Len(q) + 1 \/ n \in DOMAIN q
  BY <1>1, <1>2
<1>4. \A n \in DOMAIN q : n \in DOMAIN r /\ r[n] = q[n]
  BY <1>1, <1>2
<1>5. Len(q) + 1 \in DOMAIN r /\ r[Len(q) + 1] = x
  BY <1>1, <1>2
<1>6. \A n \in DOMAIN q : q[n] # x
  BY Zenon DEF Members
<1>7. Members(r) = Members(q) \cup {x}
  BY Zenon, <1>3, <1>4, <1>5 DEF Members
<1>8. Distinct(r)
  BY Zenon, <1>3, <1>4, <1>5, <1>6 DEF Distinct
<1> QED
  BY Zenon, <1>1, <1>7, <1>8

(* The slots of a list after a slot is put in front.                       *)
LEMMA MembersCons ==
  ASSUME NEW S, NEW q \in Seq(S), Distinct(q), NEW x \in S, x \notin Members(q)
  PROVE  /\ Members(<<x>> \o q) = Members(q) \cup {x}
         /\ Distinct(<<x>> \o q)
<1>1. PICK r \in Seq(S) : /\ r = <<x>> \o q /\ Len(r) = Len(q) + 1
                          /\ DOMAIN r = 1 .. Len(q) + 1 /\ r[1] = x
                          /\ \A n \in 2 .. Len(q) + 1 : r[n] = q[n - 1]
  <2>1. /\ <<x>> \o q \in Seq(S) /\ Len(<<x>> \o q) = Len(q) + 1
        /\ DOMAIN (<<x>> \o q) = 1 .. Len(q) + 1
        /\ (<<x>> \o q)[1] = x
        /\ \A n \in 2 .. Len(q) + 1 : (<<x>> \o q)[n] = q[n - 1]
    BY ConsFacts
  <2> QED
    BY <2>1, Zenon
<1>2. DOMAIN q = 1 .. Len(q) /\ Len(q) \in Nat
  BY Zenon, SeqFacts
<1>3. \A n \in DOMAIN r : n = 1 \/ (n - 1 \in DOMAIN q /\ r[n] = q[n - 1])
  BY <1>1, <1>2
<1>4. \A n \in DOMAIN q : n + 1 \in DOMAIN r /\ r[n + 1] = q[n]
  <2> SUFFICES ASSUME NEW n \in DOMAIN q PROVE n + 1 \in DOMAIN r /\ r[n + 1] = q[n]
    BY Zenon
  <2>1. n + 1 \in 2 .. Len(q) + 1 /\ (n + 1) - 1 = n /\ n + 1 \in 1 .. Len(q) + 1
    BY <1>2
  <2> QED
    BY Zenon, <1>1, <2>1
<1>5. 1 \in DOMAIN r /\ r[1] = x
  BY <1>1, <1>2
<1>6. \A n \in DOMAIN q : q[n] # x
  BY Zenon DEF Members
<1>7. Members(r) = Members(q) \cup {x}
  BY <1>3, <1>4, <1>5 DEF Members
<1>8. Distinct(r)
  <2>1. ASSUME NEW m \in DOMAIN r, NEW n \in DOMAIN r, r[m] = r[n] PROVE m = n
    <3>1. m \in Nat /\ n \in Nat
      BY <1>1, <1>2
    <3>2. CASE m = 1 \/ n = 1
      BY Zenon, <1>3, <1>5, <1>6, <2>1, <3>2
    <3>3. CASE m # 1 /\ n # 1
      <4>1. m - 1 = n - 1
        BY Zenon, <1>3, <2>1, <3>3 DEF Distinct
      <4> QED
        BY <3>1, <4>1
    <3> QED
      BY Zenon, <3>2, <3>3
  <2> QED
    BY Zenon, <2>1 DEF Distinct
<1> QED
  BY Zenon, <1>1, <1>7, <1>8

(* The slots of a list without its first.                                  *)
LEMMA MembersTail ==
  ASSUME NEW S, NEW q \in Seq(S), Distinct(q), q # <<>>
  PROVE  /\ Members(Tail(q)) = Members(q) \ {q[1]}
         /\ q[1] \in Members(q)
         /\ Distinct(Tail(q))
<1>1. PICK r \in Seq(S) : /\ r = Tail(q) /\ DOMAIN r = 1 .. Len(q) - 1
                          /\ \A n \in 1 .. Len(q) - 1 : r[n] = q[n + 1]
  <2>1. /\ Tail(q) \in Seq(S)
        /\ DOMAIN Tail(q) = 1 .. Len(q) - 1
        /\ \A n \in 1 .. Len(q) - 1 : Tail(q)[n] = q[n + 1]
    BY Zenon, TailFacts
  <2> QED
    BY <2>1, Zenon
<1>2. DOMAIN q = 1 .. Len(q) /\ Len(q) \in Nat /\ Len(q) # 0
  BY Zenon, SeqFacts
<1>3. \A n \in DOMAIN r : /\ n + 1 \in DOMAIN q /\ r[n] = q[n + 1] /\ n + 1 # 1
                          /\ n \in Nat
  BY <1>1, <1>2
<1>4. \A n \in DOMAIN q : n = 1 \/ (n - 1 \in DOMAIN r /\ r[n - 1] = q[n])
  <2> SUFFICES ASSUME NEW n \in DOMAIN q, n # 1 PROVE n - 1 \in DOMAIN r /\ r[n - 1] = q[n]
    BY Zenon
  <2>1. n - 1 \in 1 .. Len(q) - 1 /\ (n - 1) + 1 = n
    BY <1>2
  <2> QED
    BY Zenon, <1>1, <2>1
<1>5. 1 \in DOMAIN q
  BY <1>2
<1>6. \A n \in DOMAIN r : r[n] # q[1]
  BY Zenon, <1>3, <1>5 DEF Distinct
<1>7. Members(r) = Members(q) \ {q[1]}
  BY <1>3, <1>4, <1>6 DEF Members
<1>8. Distinct(r)
  <2>1. ASSUME NEW m \in DOMAIN r, NEW n \in DOMAIN r, r[m] = r[n] PROVE m = n
    <3>1. m + 1 = n + 1 /\ m \in Nat /\ n \in Nat
      BY Zenon, <1>3, <2>1 DEF Distinct
    <3> QED
      BY <3>1
  <2> QED
    BY Zenon, <2>1 DEF Distinct
<1> QED
  BY <1>1, <1>5, <1>7, <1>8 DEF Members

(* The slots of a queue without its n-th.                                  *)
LEMMA MembersCut ==
  ASSUME NEW S, NEW q \in Seq(S), Distinct(q), NEW n \in DOMAIN q
  PROVE  /\ Cut(q, n) \in Seq(S)
         /\ Members(Cut(q, n)) = Members(q) \ {q[n]}
         /\ Distinct(Cut(q, n))
<1> DEFINE L == Len(q)
<1>2. DOMAIN q = 1 .. L /\ L \in Nat /\ n \in Nat /\ 1 <= n /\ n <= L /\ n \in 1 .. L
  BY SeqFacts
<1>1. PICK r \in Seq(S) : /\ r = Cut(q, n) /\ DOMAIN r = 1 .. L - 1
                          /\ \A m \in 1 .. L - 1 : r[m] = IF m < n THEN q[m] ELSE q[m + 1]
  <2>1. /\ Cut(q, n) \in Seq(S)
        /\ DOMAIN Cut(q, n) = 1 .. Len(q) - 1
        /\ \A m \in 1 .. Len(q) - 1 : Cut(q, n)[m] = IF m < n THEN q[m] ELSE q[m + 1]
    BY Zenon, <1>2, CutFacts
  <2> QED
    BY <2>1, Zenon
<1> HIDE DEF L
<1>3. ASSUME NEW m \in DOMAIN r
      PROVE  /\ m \in Nat
             /\ m < n => m \in DOMAIN q /\ m # n /\ r[m] = q[m]
             /\ ~(m < n) => m + 1 \in DOMAIN q /\ m + 1 # n /\ r[m] = q[m + 1]
  <2>1. m \in Nat /\ 1 <= m /\ m <= L - 1
    BY <1>1, <1>2
  <2>2. m \in 1 .. L /\ m + 1 \in 1 .. L
    BY <1>2, <2>1
  <2> QED
    BY <1>1, <1>2, <2>1, <2>2
<1>4. ASSUME NEW m \in DOMAIN q, m # n
      PROVE  \E k \in DOMAIN r : r[k] = q[m]
  <2>0. m \in Nat /\ 1 <= m /\ m <= L
    BY <1>2
  <2>1. CASE m < n
    <3>1. m \in 1 .. L - 1
      BY <1>2, <2>0, <2>1
    <3> QED
      BY Zenon, <1>1, <2>1, <3>1
  <2>2. CASE ~(m < n)
    <3>1. m - 1 \in 1 .. L - 1 /\ ~(m - 1 < n) /\ (m - 1) + 1 = m
      BY <1>2, <1>4, <2>0, <2>2
    <3> QED
      BY Zenon, <1>1, <3>1
  <2> QED
    BY Zenon, <2>1, <2>2
<1>5. \A m \in DOMAIN r : r[m] # q[n] /\ \E k \in DOMAIN q : r[m] = q[k]
  BY Zenon, <1>3 DEF Distinct
<1>6. Members(r) = Members(q) \ {q[n]}
  <2>1. ASSUME NEW x \in Members(r) PROVE x \in Members(q) \ {q[n]}
    BY Zenon, <1>5 DEF Members
  <2>2. ASSUME NEW x \in Members(q), x # q[n] PROVE x \in Members(r)
    <3>1. PICK m \in DOMAIN q : x = q[m] /\ m # n
      BY Zenon, <2>2 DEF Members
    <3> QED
      BY Zenon, <1>4, <3>1 DEF Members
  <2> QED
    BY Zenon, <2>1, <2>2
<1>7. Distinct(r)
  <2>1. ASSUME NEW k \in DOMAIN r, NEW m \in DOMAIN r, r[k] = r[m] PROVE k = m
    <3>1. k \in Nat /\ m \in Nat
      BY Zenon, <1>3
    <3>2. CASE k < n /\ m < n
      BY Zenon, <1>3, <2>1, <3>2 DEF Distinct
    <3>3. CASE k < n /\ ~(m < n)
      <4>1. k = m + 1
        BY <1>3, <2>1, <3>3 DEF Distinct
      <4> QED
        BY <1>2, <3>1, <3>3, <4>1
    <3>4. CASE ~(k < n) /\ m < n
      <4>1. m = k + 1
        BY Zenon, <1>3, <2>1, <3>4 DEF Distinct
      <4> QED
        BY <1>2, <3>1, <3>4, <4>1
    <3>5. CASE ~(k < n) /\ ~(m < n)
      <4>1. m + 1 = k + 1
        BY <1>3, <2>1, <3>5 DEF Distinct
      <4> QED
        BY <3>1, <4>1
    <3> QED
      BY Zenon, <3>2, <3>3, <3>4, <3>5
  <2> QED
    BY Zenon, <2>1 DEF Distinct
<1> QED
  BY Zenon, <1>1, <1>6, <1>7

-----------------------------------------------------------------------------
(***************************************************************************)
(* The arena: the free list f and the queues Q of the levels lv share its  *)
(* slots out among themselves.                                             *)
(***************************************************************************)
Arena(P, lv, f, Q) ==
  /\ DOMAIN Q = DOMAIN lv
  /\ IsList(P.nodes, P.freeHead, f) /\ Distinct(f)
  /\ \A k \in DOMAIN Q : IsQueue(P.nodes, lv[k], Q[k]) /\ Distinct(Q[k])
  /\ \A k \in DOMAIN Q : Members(f) \cap Members(Q[k]) = {}
  /\ \A k, l \in DOMAIN Q : k # l => Members(Q[k]) \cap Members(Q[l]) = {}
  /\ DOMAIN P.nodes \subseteq Members(f) \cup UNION {Members(Q[k]) : k \in DOMAIN Q}


(* A list only holds slots of the pool.                                    *)
LEMMA ListMembers ==
  ASSUME NEW nodes, NEW start, NEW q, IsList(nodes, start, q)
  PROVE  q \in Seq(DOMAIN nodes) /\ Members(q) \subseteq DOMAIN nodes
<1>1. q \in Seq(DOMAIN nodes)
  BY Zenon DEF IsList
<1> QED
  BY <1>1, SeqFacts DEF Members

(* The slot idx gets another `next'.                                       *)
SetsNext(nodes, ns, idx, x) ==
  /\ DOMAIN ns = DOMAIN nodes
  /\ \A i \in DOMAIN nodes : ns[i].order = nodes[i].order /\ ns[i].prev = nodes[i].prev
  /\ ns[idx].next = x
  /\ \A i \in DOMAIN nodes : i # idx => ns[i] = nodes[i]

(* A write to `next' of one slot.                                          *)
LEMMA NextWrites ==
  ASSUME NEW O, NEW D, NEW nodes \in [D -> PoolNodes(O, D)], NEW idx \in D, NEW x
  PROVE  SetsNext(nodes, [nodes EXCEPT ![idx].next = x], idx, x)
BY Zenon DEF PoolNodes, SetsNext

(* An order whose links stay.                                              *)
LEMMA ArenaKept ==
  ASSUME NEW P, NEW lv, NEW f, NEW Q, Arena(P, lv, f, Q), NEW P2,
         P2.freeHead = P.freeHead, DOMAIN P2.nodes = DOMAIN P.nodes,
         \A i \in DOMAIN P.nodes : /\ P2.nodes[i].next = P.nodes[i].next
                                   /\ P2.nodes[i].prev = P.nodes[i].prev
  PROVE  Arena(P2, lv, f, Q)
<1>1. IsList(P2.nodes, P2.freeHead, f)
  <2>1. IsList(P.nodes, P.freeHead, f)
    BY Zenon DEF Arena
  <2>2. \A n \in DOMAIN f : f[n] \in DOMAIN P.nodes
    BY <2>1, ListMembers DEF Members
  <2>3. IsList(P2.nodes, P.freeHead, f)
    BY Zenon, <2>1, <2>2, ListFrame
  <2> QED
    BY Zenon, <2>3
<1>2. ASSUME NEW k \in DOMAIN Q PROVE IsQueue(P2.nodes, lv[k], Q[k])
  <2>1. IsQueue(P.nodes, lv[k], Q[k])
    BY Zenon DEF Arena
  <2>2. \A n \in DOMAIN Q[k] : Q[k][n] \in DOMAIN P.nodes
    BY <2>1, ListMembers DEF Members, IsQueue
  <2> QED
    BY Zenon, <2>1, <2>2, QueueFrame
<1> QED
  BY Zenon, <1>1, <1>2 DEF Arena

(* The place k gets the level lvl.                                         *)
Levelled(lv, lv2, k, lvl) ==
  /\ DOMAIN lv2 = DOMAIN lv
  /\ lv2[k] = lvl
  /\ \A l \in DOMAIN lv : l # k => lv2[l] = lv[l]

(* The queues with another one at k.                                       *)
SetAt(Q, k, q) == [Q EXCEPT ![k] = q]

SameOrders(nodes, nodes2) ==
  /\ DOMAIN nodes2 = DOMAIN nodes
  /\ \A i \in DOMAIN nodes : nodes2[i].order = nodes[i].order

(* unlink, then free: an order leaves its queue, its slot becomes free.    *)
LEMMA ArenaTake ==
  ASSUME NEW O, NEW P, PoolTypeOK(P, O), NEW lv, NEW f, NEW Q, Arena(P, lv, f, Q),
         NEW k \in DOMAIN Q, lv[k] \in Levels(DOMAIN P.nodes),
         NEW q, q = Q[k], NEW n \in DOMAIN q, NEW idx, idx = q[n],
         NEW new, new = unlink(P.nodes, lv[k], idx),
         NEW P2, SetsNext(new.nodes, P2.nodes, idx, P.freeHead), P2.freeHead = idx,
         NEW lv2, Levelled(lv, lv2, k, new.level)
  PROVE  /\ Arena(P2, lv2, <<idx>> \o f, SetAt(Q, k, Cut(q, n)))
         /\ idx \in DOMAIN P.nodes
         /\ SameOrders(P.nodes, P2.nodes)
<1> DEFINE D == DOMAIN P.nodes
           r == Cut(q, n)
           Q2 == SetAt(Q, k, r)
           f2 == <<idx>> \o f
<1>1. P.nodes \in [D -> PoolNodes(O, D)] /\ INVALID_INDEX \notin D
  BY InvalidIndexAssumption DEF PoolTypeOK
<1>2. /\ IsQueue(P.nodes, lv[k], q) /\ Distinct(q) /\ q \in Seq(D) /\ Members(q) \subseteq D
      /\ IsList(P.nodes, P.freeHead, f) /\ Distinct(f) /\ f \in Seq(D) /\ Members(f) \subseteq D
      /\ idx \in Members(q) /\ idx \in D
  <2>1. IsQueue(P.nodes, lv[k], q) /\ Distinct(q) /\ IsList(P.nodes, P.freeHead, f) /\ Distinct(f)
    BY Zenon DEF Arena
  <2>2. IsList(P.nodes, lv[k].head, q)
    BY Zenon, <2>1 DEF IsQueue
  <2>3. idx \in Members(q)
    BY Zenon DEF Members
  <2> QED
    BY Zenon, <2>1, <2>2, <2>3, ListMembers
<1> HIDE DEF D
<1>3. /\ IsQueue(new.nodes, new.level, r)
      /\ Relinks(P.nodes, new.nodes, Members(q))
      /\ new.nodes \in [D -> PoolNodes(O, D)]
  <2>1. lv[k] \in Levels(D)
    BY Zenon DEF D
  <2>2. PICK lvl \in Levels(D) : lvl = lv[k]
    BY Zenon, <2>1
  <2> QED
    BY <1>1, <1>2, <2>2, QueueCut
<1>4. r \in Seq(D) /\ Members(r) = Members(q) \ {idx} /\ Distinct(r)
  BY <1>2, MembersCut
<1> HIDE DEF r
<1>5. /\ DOMAIN P2.nodes = D
      /\ \A i \in D : P2.nodes[i].order = P.nodes[i].order /\ P2.nodes[i].prev = new.nodes[i].prev
      /\ P2.nodes[idx].next = P.freeHead
      /\ \A i \in D : i # idx => P2.nodes[i] = new.nodes[i]
      /\ \A i \in D : i \notin Members(q) => P2.nodes[i] = P.nodes[i]
  <2>1. /\ DOMAIN P2.nodes = D
        /\ \A i \in D : P2.nodes[i].order = new.nodes[i].order /\ P2.nodes[i].prev = new.nodes[i].prev
        /\ P2.nodes[idx].next = P.freeHead
        /\ \A i \in D : i # idx => P2.nodes[i] = new.nodes[i]
    <3>1. DOMAIN new.nodes = D
      BY Zenon, <1>3
    <3> QED
      BY Zenon, <3>1 DEF SetsNext
  <2>2. /\ \A i \in D : new.nodes[i].order = P.nodes[i].order
        /\ \A i \in D : i \notin Members(q) => new.nodes[i] = P.nodes[i]
    BY Zenon, <1>3 DEF Relinks, D
  <2> QED
    BY <1>2, <2>1, <2>2
<1>6. IsQueue(P2.nodes, new.level, r)
  <2>1. \A m \in DOMAIN r : r[m] \in D /\ r[m] # idx
    BY Zenon, <1>2, <1>4 DEF Members
  <2> QED
    <3>1. DOMAIN new.nodes = D
      BY Zenon, <1>3
    <3> QED
    BY <1>3, <1>5, <2>1, <3>1, QueueFrame
<1>7. ASSUME NEW l \in DOMAIN Q, l # k PROVE IsQueue(P2.nodes, lv[l], Q[l])
  <2>1. IsQueue(P.nodes, lv[l], Q[l]) /\ Members(q) \cap Members(Q[l]) = {}
    BY Zenon, <1>7 DEF Arena
  <2>2. \A m \in DOMAIN Q[l] : Q[l][m] \in D /\ Q[l][m] \notin Members(q)
    <3>1. IsList(P.nodes, lv[l].head, Q[l])
      BY Zenon, <2>1 DEF IsQueue
    <3>2. Members(Q[l]) \subseteq D
      BY Zenon, <3>1, ListMembers DEF D
    <3> QED
      BY Zenon, <2>1, <3>2 DEF Members
  <2> QED
    BY <1>5, <2>1, <2>2, QueueFrame DEF D
<1>8. Members(f) \cap Members(q) = {}
  BY Zenon DEF Arena
<1>9. IsList(P2.nodes, idx, f2)
  <2>1. \A m \in DOMAIN f : f[m] \in D /\ f[m] \notin Members(q)
    BY Zenon, <1>2, <1>8 DEF Members
  <2> QED
    <3>1. \A m \in DOMAIN f : P2.nodes[f[m]].next = P.nodes[f[m]].next
      BY Zenon, <1>5, <2>1
    <3> QED
      <4>1. /\ DOMAIN P2.nodes = DOMAIN P.nodes /\ idx \in DOMAIN P.nodes
            /\ P2.nodes[idx].next = P.freeHead /\ IsList(P.nodes, P.freeHead, f)
        BY Zenon, <1>2, <1>5 DEF D
      <4>2. IsList(P2.nodes, idx, <<idx>> \o f)
        BY Zenon, <3>1, <4>1, ListPush
      <4> QED
        BY Zenon, <4>2
<1>10. Members(f2) = Members(f) \cup {idx} /\ Distinct(f2)
  BY Zenon, <1>2, <1>8, MembersCons
<1> HIDE DEF f2
<1>11. DOMAIN Q2 = DOMAIN Q /\ Q2[k] = r /\ \A l \in DOMAIN Q : l # k => Q2[l] = Q[l]
  BY Zenon DEF SetAt
<1> HIDE DEF Q2
<1>12. \A l \in DOMAIN Q2 : IsQueue(P2.nodes, lv2[l], Q2[l]) /\ Distinct(Q2[l])
  BY Zenon, <1>4, <1>6, <1>7, <1>11 DEF Arena, Levelled
<1>13. \A l \in DOMAIN Q2 : Members(f2) \cap Members(Q2[l]) = {}
  <2> SUFFICES ASSUME NEW l \in DOMAIN Q PROVE Members(f2) \cap Members(Q2[l]) = {}
    BY Zenon, <1>11
  <2>1. Members(f) \cap Members(Q[l]) = {} /\ (l # k => Members(q) \cap Members(Q[l]) = {})
    BY Zenon DEF Arena
  <2> QED
    BY <1>2, <1>4, <1>8, <1>10, <1>11, <2>1
<1>14. \A l, m \in DOMAIN Q2 : l # m => Members(Q2[l]) \cap Members(Q2[m]) = {}
  <2> SUFFICES ASSUME NEW l \in DOMAIN Q, NEW m \in DOMAIN Q, l # m
               PROVE  Members(Q2[l]) \cap Members(Q2[m]) = {}
    BY Zenon, <1>11
  <2>1. Members(Q[l]) \cap Members(Q[m]) = {}
    BY Zenon DEF Arena
  <2> QED
    BY Zenon, <1>4, <1>11, <2>1
<1>15. DOMAIN P2.nodes \subseteq Members(f2) \cup UNION {Members(Q2[l]) : l \in DOMAIN Q2}
  <2> SUFFICES ASSUME NEW i \in D, i # idx, i \notin Members(f)
               PROVE  \E l \in DOMAIN Q2 : i \in Members(Q2[l])
    BY Zenon, <1>5, <1>10
  <2>1. PICK l \in DOMAIN Q : i \in Members(Q[l])
    BY Zenon DEF Arena, D
  <2> QED
    BY Zenon, <1>4, <1>11, <2>1
<1>16. Arena(P2, lv2, f2, Q2)
  <2>1. DOMAIN Q2 = DOMAIN lv2
    BY Zenon, <1>11 DEF Arena, Levelled
  <2> QED
    BY Zenon, <1>9, <1>10, <1>12, <1>13, <1>14, <1>15, <2>1 DEF Arena
<1> QED
  BY Zenon, <1>2, <1>5, <1>16 DEF D, f2, Q2, r, SameOrders

(* The free list after allocate().                                         *)
Rest(f) == IF f = <<>> THEN <<>> ELSE Tail(f)

(* allocate() hands out a slot that no queue holds: the first free one, or *)
(* a new one.                                                              *)
LEMMA ArenaAlloc ==
  ASSUME NEW O, NEW P, PoolTypeOK(P, O), NEW lv, NEW f, NEW Q, Arena(P, lv, f, Q),
         NEW order \in O, NEW idx, idx = allocatedIdx(P), NEW A, A = allocate(P, order)
  PROVE  /\ \A l \in DOMAIN Q : idx \notin Members(Q[l])
         /\ IsList(A.nodes, A.freeHead, Rest(f)) /\ Distinct(Rest(f))
         /\ Members(Rest(f)) = Members(f) \ {idx}
         /\ PoolTypeOK(A, O)
         /\ DOMAIN A.nodes = DOMAIN P.nodes \cup {idx}
         /\ A.nodes[idx].order = order
         /\ \A i \in DOMAIN P.nodes : i # idx => A.nodes[i] = P.nodes[i]
<1> DEFINE D == DOMAIN P.nodes
<1>1. /\ D = 0 .. P.size - 1 /\ P.size \in Nat /\ INVALID_INDEX \notin D
      /\ IsList(P.nodes, P.freeHead, f) /\ Distinct(f) /\ f \in Seq(D) /\ Members(f) \subseteq D
      /\ P.nodes \in [D -> PoolNodes(O, D)]
  BY ListMembers, InvalidIndexAssumption DEF Arena, PoolTypeOK
<1>2. /\ A.nodes = [i \in D \cup {idx} |->
                      IF i = idx THEN [order |-> order, next |-> INVALID_INDEX,
                                       prev |-> INVALID_INDEX]
                      ELSE P.nodes[i]]
      /\ A.freeHead = IF P.freeHead = INVALID_INDEX THEN INVALID_INDEX ELSE P.nodes[idx].next
  BY Zenon DEF allocate
<1>3. /\ DOMAIN A.nodes = D \cup {idx} /\ A.nodes[idx].order = order
      /\ \A i \in D : i # idx => A.nodes[i] = P.nodes[i]
  <2> HIDE DEF D
  <2>1. PICK ns : ns = A.nodes
    BY Zenon
  <2>2. ns = [i \in D \cup {idx} |->
                IF i = idx THEN [order |-> order, next |-> INVALID_INDEX,
                                 prev |-> INVALID_INDEX]
                ELSE P.nodes[i]]
    BY Zenon, <1>2, <2>1
  <2>3. /\ DOMAIN ns = D \cup {idx} /\ ns[idx].order = order
        /\ \A i \in D : i # idx => ns[i] = P.nodes[i]
    BY Zenon, <2>2
  <2> QED
    BY Zenon, <2>1, <2>3
<1>4. PoolTypeOK(A, O)
  BY Zenon, AllocateType
<1>5. ASSUME NEW l \in DOMAIN Q PROVE Members(Q[l]) \subseteq D /\ Members(f) \cap Members(Q[l]) = {}
  <2>1. IsList(P.nodes, lv[l].head, Q[l])
    BY Zenon DEF Arena, IsQueue
  <2> QED
    BY Zenon, <2>1, ListMembers DEF Arena
<1>6. CASE P.freeHead = INVALID_INDEX
  <2>1. f = <<>> /\ Members(f) = {}
    <3>1. f # <<>> => f[1] \in D
      BY <1>1, SeqFacts
    <3> QED
      BY <1>1, <1>6, <3>1 DEF IsList, Members
  <2>2. idx \notin D
    BY <1>1, <1>6 DEF allocatedIdx
  <2>3. IsList(A.nodes, A.freeHead, <<>>)
    BY <1>2, <1>6 DEF IsList
  <2>4. Rest(f) = f
    BY Zenon, <2>1 DEF Rest
  <2> QED
    BY Zenon, <1>1, <1>3, <1>4, <1>5, <2>1, <2>2, <2>3, <2>4
<1>7. CASE P.freeHead # INVALID_INDEX
  <2>1. f # <<>> /\ idx = P.freeHead /\ idx = f[1]
    BY Zenon, <1>1, <1>7 DEF IsList, allocatedIdx
  <2>2. /\ Members(Tail(f)) = Members(f) \ {idx} /\ idx \in Members(f)
        /\ Distinct(Tail(f))
    BY Zenon, <1>1, <2>1, MembersTail
  <2>3. IsList(P.nodes, P.nodes[idx].next, Tail(f))
    BY Zenon, <1>1, <2>1, ListPop
  <2>4. PICK g : g = Tail(f)
    BY Zenon
  <2>5. \A m \in DOMAIN g : A.nodes[g[m]] = P.nodes[g[m]]
    <3>1. \A m \in DOMAIN g : g[m] \in Members(f) \ {idx}
      BY Zenon, <2>2, <2>4 DEF Members
    <3> QED
      BY Zenon, <1>1, <1>3, <3>1
  <2>6. IsList(A.nodes, A.freeHead, g)
    <3>1. DOMAIN P.nodes \subseteq DOMAIN A.nodes
      BY Zenon, <1>3
    <3>2. IsList(P.nodes, P.nodes[idx].next, g)
      BY Zenon, <2>3, <2>4
    <3>3. IsList(A.nodes, P.nodes[idx].next, g)
      BY Zenon, <2>5, <3>1, <3>2, ListFrame
    <3> QED
      BY Zenon, <1>2, <1>7, <3>3
  <2>7. Rest(f) = g
    BY Zenon, <2>1, <2>4 DEF Rest
  <2>8. \A l \in DOMAIN Q : idx \notin Members(Q[l])
    BY Zenon, <1>5, <2>2
  <2> QED
    BY Zenon, <1>3, <1>4, <2>2, <2>4, <2>6, <2>7, <2>8
<1> QED
  BY Zenon, <1>6, <1>7

(* allocate, then linkAtTail: a new order joins the end of a queue.        *)
(* A slot gets an order, and the others keep theirs.                       *)
AddsOrder(nodes, nodes2, idx, order) ==
  /\ DOMAIN nodes2 = DOMAIN nodes \cup {idx}
  /\ nodes2[idx].order = order
  /\ \A i \in DOMAIN nodes : i # idx => nodes2[i].order = nodes[i].order

(* idx is in no queue.                                                     *)
Unused(Q, idx) == \A l \in DOMAIN Q : idx \notin Members(Q[l])

(* The slot idx is allocated for an order and linked at the end of a level *)
(* lvl.                                                                    *)
Puts(P, order, lvl, idx, A, new, P2) ==
  /\ idx = allocatedIdx(P) /\ A = allocate(P, order)
  /\ new = linkAtTail(A.nodes, lvl, idx)
  /\ P2.nodes = new.nodes /\ P2.freeHead = A.freeHead

(* An allocated slot linked at the tail of a queue: the free list loses    *)
(* its first slot, that queue gains it, and every other queue stays.       *)
LEMMA ArenaPut ==
  ASSUME NEW O, NEW P, PoolTypeOK(P, O), NEW lv, NEW f, NEW Q, Arena(P, lv, f, Q),
         NEW k \in DOMAIN Q, lv[k] \in Levels(DOMAIN P.nodes),
         NEW order \in O, NEW idx, NEW A, NEW new, NEW P2, NEW lv2,
         Puts(P, order, lv[k], idx, A, new, P2), Levelled(lv, lv2, k, new.level)
  PROVE  /\ Arena(P2, lv2, Rest(f), SetAt(Q, k, Append(Q[k], idx)))
         /\ Unused(Q, idx)
         /\ AddsOrder(P.nodes, P2.nodes, idx, order)
         /\ new.level.head # INVALID_INDEX
<1> DEFINE D == DOMAIN P.nodes
           E == D \cup {idx}
           q == Q[k]
           r == Append(q, idx)
           Q2 == SetAt(Q, k, r)
           g == Rest(f)
<1>a. /\ idx = allocatedIdx(P) /\ A = allocate(P, order)
      /\ new = linkAtTail(A.nodes, lv[k], idx)
      /\ P2.nodes = new.nodes /\ P2.freeHead = A.freeHead
      /\ Levelled(lv, lv2, k, new.level)
  BY Zenon DEF Puts
<1>1. /\ \A l \in DOMAIN Q : idx \notin Members(Q[l])
      /\ IsList(A.nodes, A.freeHead, g) /\ Distinct(g)
      /\ Members(g) = Members(f) \ {idx}
      /\ PoolTypeOK(A, O)
      /\ DOMAIN A.nodes = E
      /\ A.nodes[idx].order = order
      /\ \A i \in D : i # idx => A.nodes[i] = P.nodes[i]
  BY <1>a, ArenaAlloc
<1> HIDE DEF g
<1>2. A.nodes \in [E -> PoolNodes(O, E)] /\ INVALID_INDEX \notin E
  <2>1. /\ A.nodes \in [0 .. A.size - 1 -> PoolNodes(O, 0 .. A.size - 1)]
        /\ INVALID_INDEX \notin 0 .. A.size - 1
    BY <1>1, InvalidIndexAssumption DEF PoolTypeOK
  <2>2. DOMAIN A.nodes = 0 .. A.size - 1
    BY Zenon, <2>1
  <2>3. E = 0 .. A.size - 1
    BY Zenon, <1>1, <2>2
  <2> HIDE DEF E
  <2> QED
    BY <2>1, <2>3, Zenon
<1>3. ASSUME NEW l \in DOMAIN Q
      PROVE  IsQueue(A.nodes, lv[l], Q[l]) /\ Members(Q[l]) \subseteq D
  <2>1. IsQueue(P.nodes, lv[l], Q[l]) /\ IsList(P.nodes, lv[l].head, Q[l])
    BY Zenon DEF Arena, IsQueue
  <2>2. Members(Q[l]) \subseteq D
    BY Zenon, <2>1, ListMembers
  <2>3. \A m \in DOMAIN Q[l] : Q[l][m] \in D /\ Q[l][m] # idx
    BY <1>1, <2>2 DEF Members
  <2>4. \A m \in DOMAIN Q[l] : A.nodes[Q[l][m]] = P.nodes[Q[l][m]]
    BY Zenon, <1>1, <2>3
  <2>5. DOMAIN P.nodes \subseteq DOMAIN A.nodes
    BY Zenon, <1>1
  <2> QED
    BY Zenon, <2>1, <2>2, <2>4, <2>5, QueueFrame
<1>4. lv[k] \in Levels(E) /\ idx \in E /\ D \subseteq E
  BY Zenon DEF Levels, Links
<1>5. IsQueue(A.nodes, lv[k], q) /\ Distinct(q) /\ idx \notin Members(q) /\ q \in Seq(E)
  <2>1. IsQueue(A.nodes, lv[k], q) /\ Distinct(q) /\ idx \notin Members(q)
    BY Zenon, <1>1, <1>3 DEF Arena
  <2> QED
    BY Zenon, <1>1, <2>1, ListMembers DEF IsQueue
<1> HIDE DEF D, E
<1>6. /\ IsQueue(new.nodes, new.level, r)
      /\ Relinks(A.nodes, new.nodes, Members(q) \cup {idx})
      /\ new.nodes \in [E -> PoolNodes(O, E)]
      /\ new.level.head # INVALID_INDEX
  <2>1. PICK lvl \in Levels(E) : lvl = lv[k]
    BY Zenon, <1>4
  <2> QED
    <3>1. PICK ns \in [E -> PoolNodes(O, E)] : ns = A.nodes
      BY Zenon, <1>2
    <3>2. IsQueue(ns, lvl, q) /\ new = linkAtTail(ns, lvl, idx)
      BY Zenon, <1>a, <1>5, <2>1, <3>1
    <3>3. Appends(ns, q, idx, new) /\ new.nodes \in [E -> PoolNodes(O, E)]
      BY Zenon, <1>2, <1>4, <1>5, <3>2, QueueAppend
    <3> QED
      BY Zenon, <3>1, <3>3 DEF Appends
<1>7. Members(r) = Members(q) \cup {idx} /\ Distinct(r)
  BY Zenon, <1>4, <1>5, MembersAppend
<1> HIDE DEF r
<1>8. /\ DOMAIN new.nodes = E
      /\ \A i \in E : new.nodes[i].order = A.nodes[i].order
      /\ \A i \in E : i \notin Members(q) \cup {idx} => new.nodes[i] = A.nodes[i]
  BY Zenon, <1>1, <1>6 DEF Relinks
<1>9. ASSUME NEW l \in DOMAIN Q, l # k PROVE IsQueue(new.nodes, lv[l], Q[l])
  <2>1. Members(Q[k]) \cap Members(Q[l]) = {}
    BY Zenon, <1>9 DEF Arena
  <2>2. IsQueue(A.nodes, lv[l], Q[l]) /\ Members(Q[l]) \subseteq E
    BY Zenon, <1>3, <1>4
  <2>3. \A m \in DOMAIN Q[l] : new.nodes[Q[l][m]] = A.nodes[Q[l][m]]
    <3>1. \A m \in DOMAIN Q[l] : Q[l][m] \in E /\ Q[l][m] \notin Members(q) \cup {idx}
      BY <1>1, <2>1, <2>2 DEF Members
    <3> QED
      BY Zenon, <1>8, <3>1
  <2>4. DOMAIN A.nodes \subseteq DOMAIN new.nodes
    BY Zenon, <1>1, <1>8
  <2> QED
    BY Zenon, <2>2, <2>3, <2>4, QueueFrame
<1>10. IsList(new.nodes, A.freeHead, g)
  <2>1. Members(f) \cap Members(q) = {}
    BY Zenon DEF Arena
  <2>2. Members(g) \subseteq E
    BY Zenon, <1>1, ListMembers
  <2>3. \A m \in DOMAIN g : new.nodes[g[m]] = A.nodes[g[m]]
    <3>1. \A m \in DOMAIN g : g[m] \in E /\ g[m] \notin Members(q) \cup {idx}
      BY Zenon, <1>1, <2>1, <2>2 DEF Members
    <3> QED
      BY Zenon, <1>8, <3>1
  <2>4. DOMAIN A.nodes \subseteq DOMAIN new.nodes
    BY Zenon, <1>1, <1>8
  <2> QED
    BY Zenon, <1>1, <2>3, <2>4, ListFrame
<1>11. DOMAIN Q2 = DOMAIN Q /\ Q2[k] = r /\ \A l \in DOMAIN Q : l # k => Q2[l] = Q[l]
  BY Zenon DEF SetAt
<1> HIDE DEF Q2
<1>12. \A l \in DOMAIN Q2 : IsQueue(P2.nodes, lv2[l], Q2[l]) /\ Distinct(Q2[l])
  BY Zenon, <1>a, <1>6, <1>7, <1>9, <1>11 DEF Arena, Levelled
<1>13. \A l \in DOMAIN Q2 : Members(g) \cap Members(Q2[l]) = {}
  <2> SUFFICES ASSUME NEW l \in DOMAIN Q PROVE Members(g) \cap Members(Q2[l]) = {}
    BY Zenon, <1>11
  <2>1. Members(f) \cap Members(Q[l]) = {}
    BY Zenon DEF Arena
  <2> QED
    BY Zenon, <1>1, <1>7, <1>11, <2>1
<1>14. \A l, m \in DOMAIN Q2 : l # m => Members(Q2[l]) \cap Members(Q2[m]) = {}
  <2> SUFFICES ASSUME NEW l \in DOMAIN Q, NEW m \in DOMAIN Q, l # m
               PROVE  Members(Q2[l]) \cap Members(Q2[m]) = {}
    BY Zenon, <1>11
  <2>1. Members(Q[l]) \cap Members(Q[m]) = {}
    BY Zenon DEF Arena
  <2> QED
    BY <1>1, <1>7, <1>11, <2>1
<1>15. DOMAIN P2.nodes \subseteq Members(g) \cup UNION {Members(Q2[l]) : l \in DOMAIN Q2}
  <2> SUFFICES ASSUME NEW i \in E, i \notin Members(g)
               PROVE  \E l \in DOMAIN Q2 : i \in Members(Q2[l])
    BY Zenon, <1>a, <1>8
  <2>1. CASE i = idx
    BY Zenon, <1>7, <1>11, <2>1
  <2>2. CASE i # idx
    <3>1. i \in D /\ i \notin Members(f)
      BY Zenon, <1>1, <2>2 DEF E
    <3>2. PICK l \in DOMAIN Q : i \in Members(Q[l])
      BY ZenonT(40), <3>1 DEF Arena, D
    <3> QED
      BY Zenon, <1>7, <1>11, <3>2
  <2> QED
    BY Zenon, <2>1, <2>2
<1>16. Arena(P2, lv2, g, Q2)
  <2>1. DOMAIN Q2 = DOMAIN lv2
    BY Zenon, <1>a, <1>11 DEF Arena, Levelled
  <2> QED
    BY Zenon, <1>a, <1>1, <1>10, <1>12, <1>13, <1>14, <1>15, <2>1 DEF Arena
<1>17. /\ DOMAIN P2.nodes = E /\ P2.nodes[idx].order = order
       /\ \A i \in D : i # idx => P2.nodes[i].order = P.nodes[i].order
  BY <1>a, <1>1, <1>4, <1>8
<1> QED
  BY Zenon, <1>1, <1>6, <1>16, <1>17 DEF AddsOrder, Unused, D, E, g, Q2, r

-----------------------------------------------------------------------------
(***************************************************************************)
(* The best of a set.                                                      *)
(***************************************************************************)

(* A non-empty bounded set of naturals has a greatest element.             *)
LEMMA GreatestExists ==
  ASSUME NEW S, NEW m \in Nat, S \subseteq 0 .. m, S # {}
  PROVE  \E x \in S : \A y \in S : y <= x
<1> DEFINE T == {m - y : y \in S}
<1>1. T \subseteq Nat
  <2>1. \A y \in S : m - y \in Nat
    OBVIOUS
  <2> QED BY Zenon, <2>1
<1>2. T # {}
  BY Zenon
<1>3. PICK t \in T : \A u \in T : t <= u
  BY Zenon, <1>1, <1>2, LeastExists
<1>4. PICK x \in S : t = m - x
  BY Zenon, <1>3
<1>5. ASSUME NEW y \in S PROVE y <= x
  <2>1. m - x <= m - y
    BY Zenon, <1>3, <1>4
  <2> QED BY <2>1
<1> QED
  BY Zenon, <1>5

(* Best(s, S) is an element of S that no other element beats.              *)
LEMMA BestIsBest ==
  ASSUME NEW S, NEW m \in Nat, S \subseteq 0 .. m, S # {}, NEW s
  PROVE  /\ Best(s, S) \in S
         /\ \A y \in S : ~Better(s, y, Best(s, S))
<1>1. \E x \in S : \A y \in S \ {x} : Better(s, x, y)
  <2>1. CASE s = "B"
    <3>1. PICK x \in S : \A y \in S : y <= x
      BY Zenon, GreatestExists
    <3> QED BY <3>1, <2>1 DEF Better
  <2>2. CASE s # "B"
    <3>1. S \subseteq Nat
      OBVIOUS
    <3>2. PICK x \in S : \A y \in S : x <= y
      BY Zenon, <3>1, LeastExists
    <3> QED BY <3>2, <2>2 DEF Better
  <2> QED BY Zenon, <2>1, <2>2
<1>2. Best(s, S) \in S /\ \A y \in S \ {Best(s, S)} : Better(s, Best(s, S), y)
  BY Zenon, <1>1 DEF Best
<1>3. ASSUME NEW y \in S PROVE ~Better(s, y, Best(s, S))
  <2>1. PICK b \in S : b = Best(s, S)
    BY Zenon, <1>2
  <2>2. y = b \/ Better(s, b, y)
    BY Zenon, <1>2, <2>1
  <2>3. ~Better(s, y, b)
    BY <2>2 DEF Better
  <2> QED BY Zenon, <2>1, <2>3
<1> QED
  BY Zenon, <1>2, <1>3

-----------------------------------------------------------------------------
(***************************************************************************)
(* Records.  The provers reason about an EXCEPT of a record once they know *)
(* the set of records it is in.                                            *)
(***************************************************************************)

(* Changing one field of a side leaves the others.                         *)
LEMMA ExceptSide ==
  ASSUME NEW side,
         side = [ladder |-> side.ladder, overflow |-> side.overflow,
                 base |-> side.base, anchored |-> side.anchored,
                 bestSlot |-> side.bestSlot],
         NEW x
  PROVE  /\ [side EXCEPT !.ladder = x] =
              [ladder |-> x, overflow |-> side.overflow, base |-> side.base,
               anchored |-> side.anchored, bestSlot |-> side.bestSlot]
         /\ [side EXCEPT !.overflow = x] =
              [ladder |-> side.ladder, overflow |-> x, base |-> side.base,
               anchored |-> side.anchored, bestSlot |-> side.bestSlot]
         /\ [side EXCEPT !.base = x] =
              [ladder |-> side.ladder, overflow |-> side.overflow, base |-> x,
               anchored |-> side.anchored, bestSlot |-> side.bestSlot]
         /\ [side EXCEPT !.anchored = x] =
              [ladder |-> side.ladder, overflow |-> side.overflow,
               base |-> side.base, anchored |-> x, bestSlot |-> side.bestSlot]
         /\ [side EXCEPT !.bestSlot = x] =
              [ladder |-> side.ladder, overflow |-> side.overflow,
               base |-> side.base, anchored |-> side.anchored, bestSlot |-> x]
<1>1. side \in [ladder : {side.ladder}, overflow : {side.overflow},
                base : {side.base}, anchored : {side.anchored},
                bestSlot : {side.bestSlot}]
  BY Zenon
<1>2. [side EXCEPT !.ladder = x] =
        [ladder |-> x, overflow |-> side.overflow, base |-> side.base,
         anchored |-> side.anchored, bestSlot |-> side.bestSlot]
  BY <1>1
<1>3. [side EXCEPT !.overflow = x] =
        [ladder |-> side.ladder, overflow |-> x, base |-> side.base,
         anchored |-> side.anchored, bestSlot |-> side.bestSlot]
  BY <1>1
<1>4. [side EXCEPT !.base = x] =
        [ladder |-> side.ladder, overflow |-> side.overflow, base |-> x,
         anchored |-> side.anchored, bestSlot |-> side.bestSlot]
  BY <1>1
<1>5. [side EXCEPT !.anchored = x] =
        [ladder |-> side.ladder, overflow |-> side.overflow,
         base |-> side.base, anchored |-> x, bestSlot |-> side.bestSlot]
  BY <1>1
<1>6. [side EXCEPT !.bestSlot = x] =
        [ladder |-> side.ladder, overflow |-> side.overflow,
         base |-> side.base, anchored |-> side.anchored, bestSlot |-> x]
  BY <1>1
<1> QED
  BY <1>2, <1>3, <1>4, <1>5, <1>6, Zenon

-----------------------------------------------------------------------------
(***************************************************************************)
(* Prices and slots.                                                       *)
(***************************************************************************)

(* A slot of a price is a slot of the ladder, and the ladder is anchored.  *)
LEMMA PriceToSlotType ==
  ASSUME NEW side, side.base \in Nat, NEW price \in Nat
  PROVE  /\ priceToSlot(side, price) \in Slots \cup {INVALID_INDEX}
         /\ priceToSlot(side, price) # INVALID_INDEX => side.anchored
<1>1. price >= side.base => /\ price - side.base \in Nat
                            /\ (price - side.base) \div TICK \in Nat
  BY LadderAssumption
<1> QED
  BY <1>1, LadderAssumption DEF priceToSlot, Slots

(* The slot of a slot's price is that slot.                                *)
LEMMA SlotRoundTrip ==
  ASSUME NEW side, side.base \in Nat, side.anchored, NEW k \in Slots
  PROVE  /\ slotToPrice(side, k) \in Nat
         /\ priceToSlot(side, slotToPrice(side, k)) = k
<1>1. k \in Nat /\ k < WINDOW /\ TICK \in Nat \ {0}
  BY LadderAssumption DEF Slots
<1>2. k * TICK \in Nat /\ (k * TICK) % TICK = 0 /\ (k * TICK) \div TICK = k
  BY <1>1
<1>3. slotToPrice(side, k) \in Nat
  BY <1>2 DEF slotToPrice
<1>4. slotToPrice(side, k) - side.base = k * TICK /\ slotToPrice(side, k) >= side.base
  BY <1>2 DEF slotToPrice
<1> QED
  BY Zenon, <1>1, <1>2, <1>3, <1>4 DEF priceToSlot

(* A price that has a slot is the price of that slot.                      *)
LEMMA PriceRoundTrip ==
  ASSUME NEW side, side.base \in Nat, NEW price \in Nat,
         priceToSlot(side, price) # INVALID_INDEX
  PROVE  slotToPrice(side, priceToSlot(side, price)) = price
<1> DEFINE off == price - side.base
<1>1. off \in Nat /\ off % TICK = 0 /\ priceToSlot(side, price) = off \div TICK
  BY DEF priceToSlot
<1>2. (off \div TICK) * TICK = off
  <2> HIDE DEF off
  <2>1. off = TICK * (off \div TICK) + (off % TICK) /\ off \div TICK \in Nat
    BY <1>1, LadderAssumption
  <2> QED BY <1>1, <2>1, LadderAssumption
<1> QED
  BY <1>1, <1>2 DEF slotToPrice

(* anchor() yields an empty, typed ladder whatever the first price is.     *)
LEMMA AnchorType ==
  ASSUME NEW D, NEW P, NEW side, SideTypeOK(side, D, P), NEW price \in Nat,
         side.bestSlot = INVALID_INDEX
  PROVE  /\ SideTypeOK(anchor(side, price), D, P)
         /\ anchor(side, price).anchored
         /\ anchor(side, price).bestSlot = INVALID_INDEX
         /\ anchor(side, price).overflow = side.overflow
         /\ anchor(side, price).ladder = [k \in Slots |-> EmptyLevel]
<1> DEFINE half      == (WINDOW \div 2) * TICK
           candidate == IF price > half THEN price - half ELSE 0
<1>1. half \in Nat
  <2>1. WINDOW \div 2 \in Nat
    BY LadderAssumption
  <2> QED BY <2>1, LadderAssumption
<1>2. candidate \in Nat
  BY <1>1
<1>3. candidate - (candidate % TICK) \in Nat
  <2> HIDE DEF candidate
  <2> QED BY <1>2, LadderAssumption
<1>4. [k \in Slots |-> EmptyLevel] \in [Slots -> Levels(D)]
  BY Zenon DEF EmptyLevel, Levels, Links
<1>5. anchor(side, price) =
        [ladder   |-> [k \in Slots |-> EmptyLevel],
         overflow |-> side.overflow,
         base     |-> candidate - (candidate % TICK),
         anchored |-> TRUE,
         bestSlot |-> side.bestSlot]
  BY Zenon DEF anchor
<1> QED
  <2> HIDE DEF candidate
  <2> QED BY <1>3, <1>4, <1>5 DEF SideTypeOK

-----------------------------------------------------------------------------
(***************************************************************************)
(* The operations of a side keep it well typed.                            *)
(***************************************************************************)

(* The level of a price is a level.                                        *)
LEMMA LevelAtType ==
  ASSUME NEW D, NEW P, NEW side, SideTypeOK(side, D, P), NEW price \in Nat
  PROVE  LevelAt(side, price) \in Levels(D)
<1>1. priceToSlot(side, price) \in Slots \cup {INVALID_INDEX}
  BY Zenon, PriceToSlotType DEF SideTypeOK
<1>2. EmptyLevel \in Levels(D)
  BY Zenon DEF EmptyLevel, Levels, Links
<1> QED
  BY Zenon, <1>1, <1>2 DEF LevelAt, SideTypeOK

(* An overflow level written or added keeps the side well typed.           *)
LEMMA PutOverflowType ==
  ASSUME NEW D, NEW P, NEW side, SideTypeOK(side, D, P), NEW price \in P,
         NEW lvl \in Levels(D)
  PROVE  SideTypeOK(putOverflow(side, price, lvl), D, P)
<1> DEFINE ovf == [p \in DOMAIN side.overflow \cup {price} |->
                     IF p = price THEN lvl ELSE side.overflow[p]]
<1>1. putOverflow(side, price, lvl) =
        [ladder |-> side.ladder, overflow |-> ovf, base |-> side.base,
         anchored |-> side.anchored, bestSlot |-> side.bestSlot]
  BY Zenon, ExceptSide DEF putOverflow, SideTypeOK
<1>2. /\ ovf \in [DOMAIN ovf -> Levels(D)]
      /\ DOMAIN ovf \subseteq P
  BY Zenon DEF SideTypeOK
<1> HIDE DEF ovf
<1> QED
  BY <1>1, <1>2 DEF SideTypeOK

(* So does an overflow level erased.                                       *)
LEMMA EraseOverflowType ==
  ASSUME NEW D, NEW P, NEW side, SideTypeOK(side, D, P), NEW price
  PROVE  SideTypeOK(eraseOverflow(side, price), D, P)
<1> DEFINE ovf == [p \in DOMAIN side.overflow \ {price} |-> side.overflow[p]]
<1>1. eraseOverflow(side, price) =
        [ladder |-> side.ladder, overflow |-> ovf, base |-> side.base,
         anchored |-> side.anchored, bestSlot |-> side.bestSlot]
  BY Zenon, ExceptSide DEF eraseOverflow, SideTypeOK
<1>2. /\ ovf \in [DOMAIN ovf -> Levels(D)]
      /\ DOMAIN ovf \subseteq P
  BY Zenon DEF SideTypeOK
<1> HIDE DEF ovf
<1> QED
  BY <1>1, <1>2 DEF SideTypeOK

(* A write to a slot of the ladder.                                        *)
LEMMA SetSlotType ==
  ASSUME NEW D, NEW P, NEW side, SideTypeOK(side, D, P), NEW k \in Slots,
         NEW lvl \in Levels(D)
  PROVE  /\ SideTypeOK([side EXCEPT !.ladder[k] = lvl], D, P)
         /\ [side EXCEPT !.ladder[k] = lvl] =
              [ladder |-> [side.ladder EXCEPT ![k] = lvl],
               overflow |-> side.overflow, base |-> side.base,
               anchored |-> side.anchored, bestSlot |-> side.bestSlot]
<1>1. [side EXCEPT !.ladder[k] = lvl] =
        [ladder |-> [side.ladder EXCEPT ![k] = lvl],
         overflow |-> side.overflow, base |-> side.base,
         anchored |-> side.anchored, bestSlot |-> side.bestSlot]
  BY Zenon, ExceptSide DEF SideTypeOK
<1>2. [side.ladder EXCEPT ![k] = lvl] \in [Slots -> Levels(D)]
  BY Zenon DEF SideTypeOK
<1> QED
  BY Zenon, <1>1, <1>2 DEF SideTypeOK

(* A new value of bestSlot.                                                *)
LEMMA SetBestType ==
  ASSUME NEW D, NEW P, NEW side, SideTypeOK(side, D, P),
         NEW k \in Slots \cup {INVALID_INDEX},
         k # INVALID_INDEX => side.anchored
  PROVE  SideTypeOK([side EXCEPT !.bestSlot = k], D, P)
<1>1. [side EXCEPT !.bestSlot = k] =
        [ladder |-> side.ladder, overflow |-> side.overflow,
         base |-> side.base, anchored |-> side.anchored, bestSlot |-> k]
  BY Zenon, ExceptSide DEF SideTypeOK
<1> QED
  BY Zenon, <1>1 DEF SideTypeOK

(* The scan ends at a slot of the ladder or at INVALID_INDEX.              *)
LEMMA AdvanceBestType ==
  ASSUME NEW D, NEW P, NEW side, SideTypeOK(side, D, P), NEW s,
         side.anchored
  PROVE  SideTypeOK(advanceBest(s, side), D, P)
<1> DEFINE populated == {k \in Slots : /\ side.ladder[k].head # INVALID_INDEX
                                       /\ ~Better(s, k, side.bestSlot)}
           k == IF populated = {} THEN INVALID_INDEX ELSE Best(s, populated)
<1>1. advanceBest(s, side) = [side EXCEPT !.bestSlot = k]
  BY Zenon DEF advanceBest
<1>2. populated \subseteq 0 .. WINDOW - 1 /\ WINDOW - 1 \in Nat
  BY LadderAssumption DEF Slots
<1>3. k \in Slots \cup {INVALID_INDEX}
  <2> HIDE DEF populated
  <2> QED BY Zenon, <1>2, BestIsBest DEF Slots
<1> HIDE DEF k
<1>4. SideTypeOK([side EXCEPT !.bestSlot = k], D, P)
  BY Zenon, <1>3, SetBestType
<1> QED
  BY Zenon, <1>1, <1>4

(* add() keeps the side and the nodes well typed.                          *)
LEMMA AddType ==
  ASSUME NEW O, NEW D, NEW P, P \subseteq Nat,
         NEW side, SideTypeOK(side, D, P),
         NEW nodes \in [D -> PoolNodes(O, D)],
         NEW s, NEW price \in P, NEW idx \in D
  PROVE  /\ SideTypeOK(add(s, side, nodes, price, idx).side, D, P)
         /\ add(s, side, nodes, price, idx).nodes \in [D -> PoolNodes(O, D)]
<1> DEFINE sd   == IF side.anchored THEN side ELSE anchor(side, price)
           slot == priceToSlot(sd, price)
           new  == linkAtTail(nodes, LevelAt(sd, price), idx)
           best == IF \/ sd.bestSlot = INVALID_INDEX
                      \/ Better(s, slot, sd.bestSlot)
                   THEN slot ELSE sd.bestSlot
           cut  == [sd EXCEPT !.ladder[slot] = new.level]
<1>0. price \in Nat
  BY Zenon
<1>1. SideTypeOK(sd, D, P) /\ sd.anchored
  <2>1. CASE side.anchored
    BY Zenon, <2>1
  <2>2. CASE ~side.anchored
    <3>1. side.bestSlot = INVALID_INDEX
      BY Zenon, <2>2 DEF SideTypeOK
    <3> QED BY Zenon, <1>0, <2>2, <3>1, AnchorType
  <2> QED BY Zenon, <2>1, <2>2
<1>2. add(s, side, nodes, price, idx) =
        [nodes |-> new.nodes,
         side  |-> IF slot # INVALID_INDEX
                   THEN [cut EXCEPT !.bestSlot = best]
                   ELSE putOverflow(sd, price, new.level)]
  BY Zenon DEF add
<1> HIDE DEF sd
<1>3. LevelAt(sd, price) \in Levels(D)
  BY Zenon, <1>0, <1>1, LevelAtType
<1>4. new.nodes \in [D -> PoolNodes(O, D)] /\ new.level \in Levels(D)
  BY Zenon, <1>3, LinkAtTailType
<1>5. slot \in Slots \cup {INVALID_INDEX}
  BY Zenon, <1>0, <1>1, PriceToSlotType DEF SideTypeOK
<1> HIDE DEF new, slot
<1>6. ASSUME slot # INVALID_INDEX
      PROVE  SideTypeOK([cut EXCEPT !.bestSlot = best], D, P)
  <2>1. slot \in Slots
    BY Zenon, <1>5, <1>6
  <2>2. SideTypeOK(cut, D, P) /\ cut.anchored
    <3>1. SideTypeOK(cut, D, P)
      BY <1>1, <1>4, <2>1, SetSlotType, Zenon
    <3>2. cut = [ladder |-> [sd.ladder EXCEPT ![slot] = new.level],
                 overflow |-> sd.overflow, base |-> sd.base,
                 anchored |-> sd.anchored, bestSlot |-> sd.bestSlot]
      BY Zenon, <1>1, ExceptSide DEF SideTypeOK
    <3> HIDE DEF cut
    <3> QED BY Zenon, <1>1, <3>1, <3>2
  <2>3. best \in Slots \cup {INVALID_INDEX}
    BY Zenon, <1>1, <2>1 DEF SideTypeOK
  <2> HIDE DEF cut, best
  <2> QED BY Zenon, <2>2, <2>3, SetBestType
<1>7. SideTypeOK(putOverflow(sd, price, new.level), D, P)
  BY Zenon, <1>1, <1>4, PutOverflowType
<1> HIDE DEF cut, best
<1> QED
  BY <1>2, <1>4, <1>6, <1>7

(* remove() keeps the side and the nodes well typed.                       *)
LEMMA RemoveType ==
  ASSUME NEW O, NEW D, NEW P, P \subseteq Nat,
         NEW side, SideTypeOK(side, D, P),
         NEW nodes \in [D -> PoolNodes(O, D)],
         NEW s, NEW price \in P, NEW idx \in D
  PROVE  /\ SideTypeOK(remove(s, side, nodes, price, idx).side, D, P)
         /\ remove(s, side, nodes, price, idx).nodes \in [D -> PoolNodes(O, D)]
<1> DEFINE slot == priceToSlot(side, price)
           new  == unlink(nodes, LevelAt(side, price), idx)
           cut  == [side EXCEPT !.ladder[slot] = new.level]
<1>0. price \in Nat
  BY Zenon
<1>1. remove(s, side, nodes, price, idx) =
        IF slot # INVALID_INDEX
        THEN [nodes |-> new.nodes,
              side  |-> IF /\ new.level.head = INVALID_INDEX
                           /\ slot = side.bestSlot
                        THEN advanceBest(s, cut) ELSE cut]
        ELSE IF price \notin DOMAIN side.overflow
        THEN [nodes |-> nodes, side |-> side]
        ELSE [nodes |-> new.nodes,
              side  |-> IF new.level.head = INVALID_INDEX
                        THEN eraseOverflow(side, price)
                        ELSE putOverflow(side, price, new.level)]
  BY Zenon DEF remove
<1>2. LevelAt(side, price) \in Levels(D)
  BY Zenon, <1>0, LevelAtType
<1>3. new.nodes \in [D -> PoolNodes(O, D)] /\ new.level \in Levels(D)
  BY Zenon, <1>2, UnlinkType
<1>4. /\ slot \in Slots \cup {INVALID_INDEX}
      /\ slot # INVALID_INDEX => side.anchored
  BY Zenon, <1>0, PriceToSlotType DEF SideTypeOK
<1> HIDE DEF new, slot
<1>5. ASSUME slot # INVALID_INDEX
      PROVE  SideTypeOK(cut, D, P) /\ SideTypeOK(advanceBest(s, cut), D, P)
  <2>1. slot \in Slots
    BY Zenon, <1>4, <1>5
  <2>2. SideTypeOK(cut, D, P)
    BY <1>3, <2>1, SetSlotType, Zenon
  <2>3. cut = [ladder |-> [side.ladder EXCEPT ![slot] = new.level],
               overflow |-> side.overflow, base |-> side.base,
               anchored |-> side.anchored, bestSlot |-> side.bestSlot]
    BY Zenon, ExceptSide DEF SideTypeOK
  <2> HIDE DEF cut
  <2>4. cut.anchored
    BY Zenon, <1>4, <1>5, <2>3
  <2> QED BY Zenon, <2>2, <2>4, AdvanceBestType
<1>6. SideTypeOK(eraseOverflow(side, price), D, P)
  BY Zenon, EraseOverflowType
<1>7. SideTypeOK(putOverflow(side, price, new.level), D, P)
  BY Zenon, <1>3, PutOverflowType
<1> HIDE DEF cut
<1> QED
  BY <1>1, <1>3, <1>5, <1>6, <1>7

(* The price bestLevel() writes is that of bestSlot or the best one in     *)
(* overflow.                                                               *)
LEMMA BestPriceCases ==
  ASSUME NEW D, NEW P, NEW m \in Nat, P \subseteq 0 .. m,
         NEW side, SideTypeOK(side, D, P), NEW s, hasBest(side)
  PROVE  /\ bestPrice(s, side) \in Nat
         /\ \/ /\ side.bestSlot # INVALID_INDEX
               /\ bestPrice(s, side) = slotToPrice(side, side.bestSlot)
               /\ priceToSlot(side, bestPrice(s, side)) = side.bestSlot
            \/ /\ bestPrice(s, side) \in DOMAIN side.overflow
               /\ bestPrice(s, side) = Best(s, DOMAIN side.overflow)
<1>1. side.bestSlot # INVALID_INDEX =>
        /\ slotToPrice(side, side.bestSlot) \in Nat
        /\ priceToSlot(side, slotToPrice(side, side.bestSlot)) = side.bestSlot
  BY Zenon, SlotRoundTrip DEF SideTypeOK
<1>2. DOMAIN side.overflow # {} =>
        Best(s, DOMAIN side.overflow) \in DOMAIN side.overflow
  <2>1. DOMAIN side.overflow \subseteq 0 .. m
    BY Zenon DEF SideTypeOK
  <2> QED BY Zenon, <2>1, BestIsBest
<1>3. DOMAIN side.overflow \subseteq Nat
  BY DEF SideTypeOK
<1> QED
  BY Zenon, <1>1, <1>2, <1>3 DEF bestPrice, hasBest

(* The matching loop writes the level that bestLevel() returned.           *)
LEMMA SetLevelType ==
  ASSUME NEW D, NEW P, P \subseteq Nat, NEW side, SideTypeOK(side, D, P),
         NEW price \in Nat, NEW lvl \in Levels(D),
         priceToSlot(side, price) # INVALID_INDEX \/ price \in P
  PROVE  SideTypeOK(setLevel(side, price, lvl), D, P)
<1>1. priceToSlot(side, price) \in Slots \cup {INVALID_INDEX}
  BY Zenon, PriceToSlotType DEF SideTypeOK
<1>2. CASE priceToSlot(side, price) # INVALID_INDEX
  <2>1. setLevel(side, price, lvl) =
          [side EXCEPT !.ladder[priceToSlot(side, price)] = lvl]
    BY <1>2, Zenon DEF setLevel
  <2>2. SideTypeOK([side EXCEPT !.ladder[priceToSlot(side, price)] = lvl], D, P)
    BY Zenon, <1>1, <1>2, SetSlotType
  <2> QED BY Zenon, <2>1, <2>2
<1>3. CASE priceToSlot(side, price) = INVALID_INDEX
  <2>1. setLevel(side, price, lvl) = putOverflow(side, price, lvl)
    BY <1>3, Zenon DEF setLevel
  <2> QED BY Zenon, <1>3, <2>1, PutOverflowType
<1> QED
  BY Zenon, <1>2, <1>3

(* Dropping a drained level keeps the side well typed.                     *)
LEMMA RemoveEmptyBestType ==
  ASSUME NEW D, NEW P, NEW side, SideTypeOK(side, D, P), NEW price \in Nat,
         NEW s
  PROVE  SideTypeOK(removeEmptyBest(s, side, price), D, P)
<1>1. priceToSlot(side, price) # INVALID_INDEX => side.anchored
  BY Zenon, PriceToSlotType DEF SideTypeOK
<1>2. side.anchored => SideTypeOK(advanceBest(s, side), D, P)
  BY Zenon, AdvanceBestType
<1>3. SideTypeOK(eraseOverflow(side, price), D, P)
  BY Zenon, EraseOverflowType
<1> QED
  BY <1>1, <1>2, <1>3, Zenon DEF removeEmptyBest

(* A side stays well typed when the arena grows.                           *)
LEMMA SideTypeGrows ==
  ASSUME NEW D, NEW E, D \subseteq E, NEW P, NEW side, SideTypeOK(side, D, P)
  PROVE  SideTypeOK(side, E, P)
<1>1. Levels(D) \subseteq Levels(E)
  BY Zenon DEF Levels, Links
<1> QED
  BY Zenon, <1>1 DEF SideTypeOK

-----------------------------------------------------------------------------
(***************************************************************************)
(* The operations of a book keep it and the pool well typed.               *)
(***************************************************************************)
BookOrders(R, P) ==
  [ref : R, buySellIndicator : Sides, shares : Nat, price : P]

(* A book stays well typed when one of its sides is replaced.              *)
LEMMA SetSideType ==
  ASSUME NEW D, NEW P, NEW book, BookTypeOK(book, D, P), NEW s \in Sides,
         NEW side, SideTypeOK(side, D, P)
  PROVE  BookTypeOK([book EXCEPT ![s] = side], D, P)
<1>1. [book EXCEPT ![s] = side] =
        [t \in Sides |-> IF t = s THEN side ELSE book[t]]
  BY Zenon DEF BookTypeOK
<1> QED
  BY Zenon, <1>1 DEF BookTypeOK

(* One trade of the matching loop.                                         *)
LEMMA MatchHeadType ==
  ASSUME NEW R, NEW P, NEW max \in Nat, P \subseteq 0 .. max,
         NEW pool, PoolTypeOK(pool, BookOrders(R, P)),
         NEW book, BookTypeOK(book, 0 .. pool.size - 1, P),
         NEW order \in BookOrders(R, P), crosses(book, order)
  PROVE  LET m == matchHead(pool, book, order)
         IN  /\ PoolTypeOK(m.pool, BookOrders(R, P))
             /\ m.pool.size = pool.size
             /\ BookTypeOK(m.book, 0 .. pool.size - 1, P)
             /\ m.shares \in Nat
             /\ m.executed \in Seq([ref : R, shares : Nat])
             /\ m.removed \subseteq R
<1> DEFINE O      == BookOrders(R, P)
           D      == 0 .. pool.size - 1
           o      == Opposite(order.buySellIndicator)
           price  == bestPrice(o, book[o])
           lvl    == LevelAt(book[o], price)
           node   == pool.nodes[lvl.head]
           traded == IF order.shares < node.order.shares
                     THEN order.shares ELSE node.order.shares
           paid   == [pool EXCEPT !.nodes[lvl.head].order.shares = @ - traded]
           filled == traded = node.order.shares
           last   == node.next = INVALID_INDEX
           popped == [head |-> node.next,
                      tail |-> IF last THEN INVALID_INDEX ELSE lvl.tail]
           cut    == IF last THEN paid
                     ELSE [paid EXCEPT !.nodes[node.next].prev = INVALID_INDEX]
           side   == setLevel(book[o], price, popped)
<1>1. o \in Sides
  BY Zenon DEF Opposite, Sides
<1>2. SideTypeOK(book[o], D, P) /\ P \subseteq Nat
  BY <1>1 DEF BookTypeOK
<1>3. hasBest(book[o])
  BY Zenon DEF crosses
<1>4. /\ price \in Nat
      /\ priceToSlot(book[o], price) # INVALID_INDEX \/ price \in P
  <2>1. DOMAIN book[o].overflow \subseteq P
    BY Zenon, <1>2 DEF SideTypeOK
  <2> HIDE DEF D, o
  <2> QED BY Zenon, <1>2, <1>3, <2>1, BestPriceCases
<1> HIDE DEF price
<1>5. lvl \in Levels(D)
  BY Zenon, <1>2, <1>4, LevelAtType
<1>6. SideTypeOK(removeEmptyBest(o, book[o], price), D, P)
  BY Zenon, <1>2, <1>4, RemoveEmptyBestType
<1>7. CASE lvl.head = INVALID_INDEX
  <2>1. matchHead(pool, book, order) =
          [pool     |-> pool,
           book     |-> [book EXCEPT ![o] = removeEmptyBest(o, book[o], price)],
           shares   |-> order.shares,
           executed |-> <<>>,
           removed  |-> {}]
    BY <1>7, Zenon DEF matchHead, price
  <2>2. BookTypeOK([book EXCEPT ![o] = removeEmptyBest(o, book[o], price)], D, P)
    <3> HIDE DEF o
    <3> QED BY Zenon, <1>1, <1>6, SetSideType
  <2>3. order.shares \in Nat
    BY Zenon DEF BookOrders
  <2> HIDE DEF o, O, lvl
  <2> QED BY <2>1, <2>2, <2>3
<1>8. CASE lvl.head # INVALID_INDEX
  <2>1. lvl.head \in D
    BY Zenon, <1>5, <1>8 DEF Levels, Links
  <2>2. node \in PoolNodes(O, D)
    BY Zenon, <2>1 DEF PoolTypeOK
  <2>3. /\ order.shares \in Nat
        /\ node.order.shares \in Nat
        /\ node.order.ref \in R
        /\ node.next \in Links(D)
    BY Zenon, <2>2 DEF PoolNodes, BookOrders
  <2>4. /\ traded \in Nat
        /\ order.shares - traded \in Nat
        /\ node.order.shares - traded \in Nat
    <3> HIDE DEF node
    <3> QED BY <2>3
  <2> HIDE DEF traded
  <2> DEFINE paidNodes == [pool.nodes EXCEPT ![lvl.head].order.shares = @ - traded]
             cutNodes  == [paidNodes EXCEPT ![node.next].prev = INVALID_INDEX]
  <2>5. paidNodes \in [D -> PoolNodes(O, D)]
    <3>1. pool.nodes \in [D -> PoolNodes(O, D)]
      BY Zenon DEF PoolTypeOK
    <3>2. [node.order EXCEPT !.shares = @ - traded] \in O
      BY Zenon, <2>2, <2>4 DEF PoolNodes, BookOrders
    <3>3. [node EXCEPT !.order = [node.order EXCEPT !.shares = @ - traded]]
            \in PoolNodes(O, D)
      <4> HIDE DEF O, D, node
      <4> QED BY Zenon, <2>2, <3>2 DEF PoolNodes
    <3>4. paidNodes = [pool.nodes EXCEPT ![lvl.head] =
             [node EXCEPT !.order = [node.order EXCEPT !.shares = @ - traded]]]
      BY Zenon, <2>1, <3>1
    <3> HIDE DEF O, D, paidNodes, node, lvl
    <3> QED BY Zenon, <2>1, <3>1, <3>3, <3>4
  <2>6. ~last => cutNodes \in [D -> PoolNodes(O, D)]
    <3> HIDE DEF O, D, paidNodes, node, lvl
    <3> QED BY Zenon, <2>3, <2>5 DEF PoolNodes, Links
  <2>7. PoolTypeOK(paid, O) /\ paid.size = pool.size /\ paid.nodes = paidNodes
    <3>1. paid = [nodes |-> paidNodes, size |-> pool.size,
                  freeHead |-> pool.freeHead]
      BY Zenon, ExceptPool DEF PoolTypeOK
    <3> HIDE DEF O, paidNodes, node, lvl, paid
    <3> QED BY <2>5, <3>1, SetNodesType DEF O
  <2>8. PoolTypeOK(cut, O) /\ cut.size = pool.size
    <3>1. CASE last
      BY Zenon, <2>7, <3>1
    <3>2. CASE ~last
      <4> HIDE DEF paid, paidNodes, node, lvl
      <4>1. cut = [nodes |-> [paid.nodes EXCEPT ![node.next].prev = INVALID_INDEX],
                   size |-> paid.size, freeHead |-> paid.freeHead]
        BY Zenon, <2>7, <3>2, ExceptPool DEF PoolTypeOK
      <4>2. cut = [nodes |-> cutNodes, size |-> paid.size,
                   freeHead |-> paid.freeHead]
        BY <2>7, <4>1, Zenon
      <4>3. cutNodes \in [0 .. paid.size - 1 -> PoolNodes(O, 0 .. paid.size - 1)]
        BY Zenon, <2>6, <2>7, <3>2
      <4> HIDE DEF O, cutNodes, cut, last
      <4> QED BY <2>7, <4>2, <4>3, SetNodesType
    <3> QED BY Zenon, <3>1, <3>2
  <2>9. PoolTypeOK(free(cut, lvl.head), O) /\ free(cut, lvl.head).size = pool.size
    <3> HIDE DEF O, node, lvl, paid, cut, last
    <3> QED BY <2>1, <2>8, FreeType
  <2>10. popped \in Levels(D)
    <3> HIDE DEF node, lvl, D
    <3> QED BY Zenon, <1>5, <2>3 DEF Levels, Links
  <2>11. SideTypeOK(side, D, P)
    <3> HIDE DEF popped, o, D
    <3> QED BY Zenon, <1>2, <1>4, <2>10, SetLevelType
  <2>12. SideTypeOK(removeEmptyBest(o, side, price), D, P)
    <3> HIDE DEF side, o, D
    <3> QED BY Zenon, <1>4, <2>11, RemoveEmptyBestType
  <2>13. matchHead(pool, book, order) =
           [pool     |-> IF filled THEN free(cut, lvl.head) ELSE paid,
            book     |-> [book EXCEPT ![o] =
                            IF ~filled THEN book[o]
                            ELSE IF last THEN removeEmptyBest(o, side, price)
                            ELSE side],
            shares   |-> order.shares - traded,
            executed |-> <<[ref |-> node.order.ref, shares |-> traded]>>,
            removed  |-> IF filled THEN {node.order.ref} ELSE {}]
    BY <1>8, Zenon DEF matchHead, price, traded
  <2> HIDE DEF side, cut, paid, popped, O, D, node, lvl, o, filled, last
  <2>14. BookTypeOK([book EXCEPT ![o] =
                       IF ~filled THEN book[o]
                       ELSE IF last THEN removeEmptyBest(o, side, price)
                       ELSE side], D, P)
    BY Zenon, <1>1, <1>2, <2>11, <2>12, SetSideType DEF D
  <2>15. <<[ref |-> node.order.ref, shares |-> traded]>>
            \in Seq([ref : R, shares : Nat])
    BY <2>3, <2>4
  <2> QED
    BY <2>3, <2>4, <2>7, <2>9, <2>13, <2>14, <2>15 DEF O, D
<1> QED
  BY Zenon, <1>7, <1>8

(* Resting what is left of an order.                                       *)
LEMMA RestOrderType ==
  ASSUME NEW R, NEW P, P \subseteq Nat,
         NEW pool, PoolTypeOK(pool, BookOrders(R, P)),
         NEW book, BookTypeOK(book, 0 .. pool.size - 1, P),
         NEW order \in BookOrders(R, P)
  PROVE  LET r == restOrder(pool, book, order)
         IN  /\ PoolTypeOK(r.pool, BookOrders(R, P))
             /\ BookTypeOK(r.book, 0 .. r.pool.size - 1, P)
             /\ 0 .. pool.size - 1 \subseteq 0 .. r.pool.size - 1
             /\ allocatedIdx(pool) \in 0 .. r.pool.size - 1
<1> DEFINE O     == BookOrders(R, P)
           s     == order.buySellIndicator
           idx   == allocatedIdx(pool)
           alloc == allocate(pool, order)
           added == add(s, book[s], alloc.nodes, order.price, idx)
           E     == 0 .. alloc.size - 1
           q     == [alloc EXCEPT !.nodes = added.nodes]
<1>1. restOrder(pool, book, order) =
        [pool |-> q, book |-> [book EXCEPT ![s] = added.side]]
  BY Zenon DEF restOrder
<1>2. s \in Sides /\ order.price \in P
  BY Zenon DEF BookOrders
<1>3. PoolTypeOK(alloc, O) /\ idx \in E /\ 0 .. pool.size - 1 \subseteq E
  BY Zenon, AllocateType
<1>4. BookTypeOK(book, E, P)
  BY Zenon, <1>3, SideTypeGrows DEF BookTypeOK
<1>5. SideTypeOK(book[s], E, P)
  BY Zenon, <1>2, <1>4 DEF BookTypeOK
<1>6. alloc.nodes \in [E -> PoolNodes(O, E)]
  BY Zenon, <1>3 DEF PoolTypeOK
<1> HIDE DEF O, s, idx, alloc
<1>7. SideTypeOK(added.side, E, P) /\ added.nodes \in [E -> PoolNodes(O, E)]
  BY Zenon, <1>2, <1>3, <1>5, <1>6, AddType
<1> HIDE DEF added
<1>8. PoolTypeOK(q, O) /\ q.size = alloc.size
  <2>1. q = [nodes |-> added.nodes, size |-> alloc.size,
             freeHead |-> alloc.freeHead]
    BY Zenon, <1>3, ExceptPool DEF PoolTypeOK
  <2> HIDE DEF q
  <2> QED BY <1>3, <1>7, <2>1, SetNodesType
<1>9. BookTypeOK([book EXCEPT ![s] = added.side], E, P)
  BY Zenon, <1>2, <1>4, <1>7, SetSideType
<1>10. /\ restOrder(pool, book, order).pool = q
       /\ restOrder(pool, book, order).book = [book EXCEPT ![s] = added.side]
  <2> HIDE DEF q
  <2> QED BY <1>1
<1> HIDE DEF q
<1> QED
  BY Zenon, <1>3, <1>8, <1>9, <1>10 DEF O, idx

(* Removing a resting order.                                               *)
LEMMA RemoveByIndexType ==
  ASSUME NEW R, NEW P, P \subseteq Nat,
         NEW pool, PoolTypeOK(pool, BookOrders(R, P)),
         NEW book, BookTypeOK(book, 0 .. pool.size - 1, P),
         NEW idx \in 0 .. pool.size - 1
  PROVE  LET r == removeByIndex(pool, book, idx)
         IN  /\ PoolTypeOK(r.pool, BookOrders(R, P))
             /\ r.pool.size = pool.size
             /\ BookTypeOK(r.book, 0 .. pool.size - 1, P)
<1> DEFINE O     == BookOrders(R, P)
           D     == 0 .. pool.size - 1
           order == pool.nodes[idx].order
           s     == IF order.buySellIndicator = "B" THEN "B" ELSE "S"
           rest  == remove(s, book[s], pool.nodes, order.price, idx)
           left  == [pool EXCEPT !.nodes = rest.nodes]
<1>1. removeByIndex(pool, book, idx) =
        [pool |-> free(left, idx), book |-> [book EXCEPT ![s] = rest.side]]
  BY Zenon DEF removeByIndex
<1>2. pool.nodes \in [D -> PoolNodes(O, D)]
  BY Zenon DEF PoolTypeOK
<1>3. order.price \in P /\ s \in Sides
  BY Zenon, <1>2 DEF PoolNodes, BookOrders, Sides
<1>4. SideTypeOK(book[s], D, P)
  BY Zenon, <1>3 DEF BookTypeOK
<1> HIDE DEF O, s, order
<1>5. SideTypeOK(rest.side, D, P) /\ rest.nodes \in [D -> PoolNodes(O, D)]
  BY Zenon, <1>2, <1>3, <1>4, RemoveType
<1> HIDE DEF rest
<1>6. PoolTypeOK(left, O) /\ left.size = pool.size
  <2>1. left = [nodes |-> rest.nodes, size |-> pool.size,
                freeHead |-> pool.freeHead]
    BY Zenon, ExceptPool DEF PoolTypeOK
  <2> HIDE DEF left
  <2> QED BY <1>5, <2>1, SetNodesType DEF O
<1> HIDE DEF left
<1>7. PoolTypeOK(free(left, idx), O) /\ free(left, idx).size = pool.size
  BY <1>6, FreeType
<1>8. BookTypeOK([book EXCEPT ![s] = rest.side], D, P)
  BY Zenon, <1>3, <1>5, SetSideType
<1> QED
  BY <1>1, <1>7, <1>8 DEF O

-----------------------------------------------------------------------------
(***************************************************************************)
(* A side between two operations.                                          *)
(***************************************************************************)

(* best is the best populated slot of the ladder, or INVALID_INDEX.        *)
BestOK(s, ladder, best) ==
  IF best = INVALID_INDEX
  THEN \A k \in Slots : ladder[k].head = INVALID_INDEX
  ELSE /\ ladder[best].head # INVALID_INDEX
       /\ \A k \in Slots : ladder[k].head # INVALID_INDEX => ~Better(s, k, best)

(* Nothing rests before the ladder is anchored; the overflow has non-empty *)
(* levels and only of prices without a slot; a populated slot stands for a *)
(* price of P; bestSlot is the best one.                                   *)
SideInv(s, side, P) ==
  /\ ~side.anchored => /\ DOMAIN side.overflow = {}
                       /\ \A k \in Slots : side.ladder[k] = EmptyLevel
  /\ \A p \in DOMAIN side.overflow : /\ priceToSlot(side, p) = INVALID_INDEX
                                     /\ side.overflow[p].head # INVALID_INDEX
  /\ \A k \in Slots : side.ladder[k].head # INVALID_INDEX => slotToPrice(side, k) \in P
  /\ BestOK(s, side.ladder, side.bestSlot)

(* Of the prices in P, exactly `price' gets another level, lvl.            *)
Resets(side, side2, P, price, lvl) ==
  \A p \in P : LevelAt(side2, p) = IF p = price THEN lvl ELSE LevelAt(side, p)

(* What a price's slot, and a slot's price, depends on.                    *)
SameBase(side, side2) == side2.base = side.base /\ side2.anchored = side.anchored

(* The slot of a price depends on the anchor only.                         *)
LEMMA SameSlots ==
  ASSUME NEW side, NEW side2, SameBase(side, side2)
  PROVE  /\ \A p : priceToSlot(side2, p) = priceToSlot(side, p)
         /\ \A k : slotToPrice(side2, k) = slotToPrice(side, k)
BY Zenon DEF SameBase, priceToSlot, slotToPrice

(* A write to the slot of a price.                                         *)
LEMMA SlotResets ==
  ASSUME NEW D, NEW P, P \subseteq Nat, NEW side, SideTypeOK(side, D, P),
         NEW price \in P, NEW slot, slot = priceToSlot(side, price),
         slot # INVALID_INDEX, NEW lvl,
         NEW side2, SameBase(side, side2), side2.overflow = side.overflow,
         side2.ladder = [side.ladder EXCEPT ![slot] = lvl]
  PROVE  Resets(side, side2, P, price, lvl)
<1>0. side.base \in Nat /\ side.ladder \in [Slots -> Levels(D)]
  BY Zenon DEF SideTypeOK
<1> SUFFICES ASSUME NEW p \in P
             PROVE  LevelAt(side2, p) = IF p = price THEN lvl ELSE LevelAt(side, p)
  BY Zenon DEF Resets
<1>1. priceToSlot(side2, p) = priceToSlot(side, p)
  BY Zenon, SameSlots
<1>2. slot \in Slots
  BY Zenon, <1>0, PriceToSlotType
<1>3. CASE p = price
  BY Zenon, <1>0, <1>1, <1>2, <1>3 DEF LevelAt
<1>4. CASE p # price
  <2>1. priceToSlot(side, p) # slot
    BY Zenon, <1>0, <1>4, PriceRoundTrip
  <2> QED
    BY <1>0, <1>1, <1>4, <2>1 DEF LevelAt
<1> QED
  BY Zenon, <1>3, <1>4

(* A write to the overflow level of a price, or its removal.               *)
LEMMA OverflowResets ==
  ASSUME NEW P, NEW side, NEW price \in P, priceToSlot(side, price) = INVALID_INDEX,
         NEW lvl, NEW side2, SameBase(side, side2), side2.ladder = side.ladder,
         \/ price \in DOMAIN side2.overflow /\ side2.overflow[price] = lvl
         \/ price \notin DOMAIN side2.overflow /\ lvl = EmptyLevel,
         \A p \in P : p # price =>
           /\ p \in DOMAIN side2.overflow <=> p \in DOMAIN side.overflow
           /\ p \in DOMAIN side.overflow => side2.overflow[p] = side.overflow[p]
  PROVE  Resets(side, side2, P, price, lvl)
<1> SUFFICES ASSUME NEW p \in P
             PROVE  LevelAt(side2, p) = IF p = price THEN lvl ELSE LevelAt(side, p)
  BY Zenon DEF Resets
<1>1. priceToSlot(side2, p) = priceToSlot(side, p)
  BY Zenon, SameSlots
<1> QED
  BY Zenon, <1>1 DEF LevelAt

SameLevels(side, side2, P) == \A p \in P : LevelAt(side2, p) = LevelAt(side, p)

(* anchor() before the first order.                                        *)
LEMMA AnchorSide ==
  ASSUME NEW s, NEW D, NEW P, P \subseteq Nat, NEW side, SideTypeOK(side, D, P),
         SideInv(s, side, P), ~side.anchored, NEW price \in P,
         NEW sd, sd = anchor(side, price)
  PROVE  /\ SideTypeOK(sd, D, P) /\ SideInv(s, sd, P) /\ sd.anchored
         /\ SameLevels(side, sd, P)
<1>1. side.bestSlot = INVALID_INDEX
  BY Zenon DEF SideTypeOK
<1>2. /\ SideTypeOK(sd, D, P) /\ sd.anchored /\ sd.bestSlot = INVALID_INDEX
      /\ sd.overflow = side.overflow /\ sd.ladder = [k \in Slots |-> EmptyLevel]
  <2>1. price \in Nat
    BY Zenon
  <2> QED
    BY <1>1, <2>1, AnchorType
<1>3. DOMAIN sd.overflow = {} /\ \A k \in Slots : sd.ladder[k] = EmptyLevel
  BY Zenon, <1>2 DEF SideInv
<1>4. SideInv(s, sd, P)
  BY <1>2, <1>3 DEF SideInv, BestOK, EmptyLevel
<1>5. ASSUME NEW p \in P PROVE LevelAt(sd, p) = LevelAt(side, p)
  <2>1. LevelAt(sd, p) = EmptyLevel
    <3>1. sd.base \in Nat
      BY Zenon, <1>2 DEF SideTypeOK
    <3>2. priceToSlot(sd, p) \in Slots \cup {INVALID_INDEX}
      BY Zenon, <3>1, PriceToSlotType
    <3> QED
      BY Zenon, <1>3, <3>2 DEF LevelAt
  <2>2. LevelAt(side, p) = EmptyLevel
    BY Zenon DEF SideInv, LevelAt, priceToSlot
  <2> QED
    BY Zenon, <2>1, <2>2
<1> QED
  BY Zenon, <1>2, <1>4, <1>5 DEF SameLevels

-----------------------------------------------------------------------------
(***************************************************************************)
(* bestSlot after a write to a slot.                                       *)
(***************************************************************************)
LEMMA BestOnAdd ==
  ASSUME NEW s, NEW D, NEW ladder \in [Slots -> Levels(D)],
         NEW best \in Slots \cup {INVALID_INDEX}, BestOK(s, ladder, best),
         NEW slot \in Slots, NEW lvl, lvl.head # INVALID_INDEX,
         NEW best2, best2 = IF best = INVALID_INDEX \/ Better(s, slot, best)
                            THEN slot ELSE best
  PROVE  BestOK(s, [ladder EXCEPT ![slot] = lvl], best2)
<1> DEFINE l2 == [ladder EXCEPT ![slot] = lvl]
<1>1. l2[slot] = lvl /\ \A k \in Slots : k # slot => l2[k] = ladder[k]
  BY Zenon
<1> HIDE DEF l2
<1>2. \A k \in Slots : k \in Int
  BY DEF Slots
<1>3. INVALID_INDEX \notin Slots
  BY InvalidIndexAssumption DEF Slots
<1>4. CASE best = INVALID_INDEX
  BY <1>1, <1>2, <1>3, <1>4 DEF BestOK, Better
<1>5. CASE best # INVALID_INDEX /\ Better(s, slot, best)
  <2>1. \A k \in Slots : l2[k].head # INVALID_INDEX => ~Better(s, k, slot)
    BY <1>1, <1>2, <1>5 DEF BestOK, Better
  <2> QED
    BY Zenon, <1>1, <1>3, <1>5, <2>1 DEF BestOK
<1>6. CASE best # INVALID_INDEX /\ ~Better(s, slot, best)
  <2>1. l2[best].head # INVALID_INDEX
    BY Zenon, <1>1, <1>6 DEF BestOK
  <2>2. \A k \in Slots : l2[k].head # INVALID_INDEX => ~Better(s, k, best)
    BY Zenon, <1>1, <1>6 DEF BestOK
  <2> QED
    BY Zenon, <1>6, <2>1, <2>2 DEF BestOK
<1> QED
  BY Zenon, <1>4, <1>5, <1>6 DEF l2

(* The best slot stays right when a populated level stays populated, or a  *)
(* worse one empties.                                                      *)
LEMMA BestOnKeep ==
  ASSUME NEW s, NEW D, NEW ladder \in [Slots -> Levels(D)],
         NEW best \in Slots \cup {INVALID_INDEX}, BestOK(s, ladder, best),
         NEW slot \in Slots, ladder[slot].head # INVALID_INDEX,
         NEW lvl, lvl.head # INVALID_INDEX \/ slot # best
  PROVE  BestOK(s, [ladder EXCEPT ![slot] = lvl], best)
<1> DEFINE l2 == [ladder EXCEPT ![slot] = lvl]
<1>1. l2[slot] = lvl /\ \A k \in Slots : k # slot => l2[k] = ladder[k]
  BY Zenon
<1> HIDE DEF l2
<1>2. best # INVALID_INDEX
  BY Zenon DEF BestOK
<1>3. l2[best].head # INVALID_INDEX
  BY Zenon, <1>1, <1>2 DEF BestOK
<1>4. \A k \in Slots : l2[k].head # INVALID_INDEX => ~Better(s, k, best)
  BY Zenon, <1>1, <1>2 DEF BestOK
<1> QED
  BY Zenon, <1>2, <1>3, <1>4 DEF BestOK, l2

(* The best slot advanceBestSlot finds after the best level emptied.       *)
LEMMA BestOnDrain ==
  ASSUME NEW s, NEW D, NEW ladder \in [Slots -> Levels(D)],
         NEW best \in Slots, BestOK(s, ladder, best),
         NEW lvl, lvl.head = INVALID_INDEX,
         NEW l2, l2 = [ladder EXCEPT ![best] = lvl],
         NEW populated, populated = {k \in Slots : /\ l2[k].head # INVALID_INDEX
                                                   /\ ~Better(s, k, best)},
         NEW best2, best2 = IF populated = {} THEN INVALID_INDEX ELSE Best(s, populated)
  PROVE  BestOK(s, l2, best2)
<1>1. l2[best] = lvl /\ \A k \in Slots : k # best => l2[k] = ladder[k]
  BY Zenon
<1>2. best # INVALID_INDEX
  BY InvalidIndexAssumption DEF Slots
<1>3. \A k \in Slots : l2[k].head # INVALID_INDEX <=> k \in populated
  BY Zenon, <1>1, <1>2 DEF BestOK
<1>4. CASE populated = {}
  BY Zenon, <1>3, <1>4 DEF BestOK
<1>5. CASE populated # {}
  <2>1. populated \subseteq 0 .. WINDOW - 1 /\ WINDOW - 1 \in Nat
    BY LadderAssumption DEF Slots
  <2>2. Best(s, populated) \in populated /\ \A y \in populated : ~Better(s, y, Best(s, populated))
    BY Zenon, <1>5, <2>1, BestIsBest
  <2>3. best2 \in populated /\ \A y \in populated : ~Better(s, y, best2)
    BY Zenon, <1>5, <2>2
  <2>4. best2 \in Slots /\ best2 # INVALID_INDEX
    <3>1. best2 \in Slots
      BY Zenon, <2>3
    <3>2. INVALID_INDEX \notin Slots
      BY InvalidIndexAssumption DEF Slots
    <3> QED
      BY Zenon, <3>1, <3>2
  <2> QED
    BY Zenon, <1>3, <2>3, <2>4 DEF BestOK
<1> QED
  BY Zenon, <1>4, <1>5

-----------------------------------------------------------------------------
(***************************************************************************)
(* The operations on an anchored side that holds the level of `price'.     *)
(***************************************************************************)

(* A slot is written, and bestSlot with it.                                *)
LEMMA SlotInv ==
  ASSUME NEW s, NEW D, NEW P, P \subseteq Nat, NEW side, SideTypeOK(side, D, P),
         SideInv(s, side, P), side.anchored, NEW price \in P,
         NEW slot \in Slots, slot = priceToSlot(side, price),
         NEW lvl, NEW best, BestOK(s, [side.ladder EXCEPT ![slot] = lvl], best),
         NEW side2, side2 = [ladder |-> [side.ladder EXCEPT ![slot] = lvl],
                             overflow |-> side.overflow, base |-> side.base,
                             anchored |-> side.anchored, bestSlot |-> best]
  PROVE  SideInv(s, side2, P) /\ Resets(side, side2, P, price, lvl)
<1>1. /\ side2.ladder = [side.ladder EXCEPT ![slot] = lvl]
      /\ side2.overflow = side.overflow /\ side2.bestSlot = best
      /\ SameBase(side, side2) /\ side2.anchored
  BY Zenon DEF SameBase
<1>2. slot # INVALID_INDEX
  BY InvalidIndexAssumption DEF Slots
<1>3. Resets(side, side2, P, price, lvl)
  BY Zenon, <1>1, <1>2, SlotResets
<1>4. \A p \in DOMAIN side2.overflow : /\ priceToSlot(side2, p) = INVALID_INDEX
                                       /\ side2.overflow[p].head # INVALID_INDEX
  BY <1>1, SameSlots DEF SideInv
<1>5. ASSUME NEW k \in Slots, side2.ladder[k].head # INVALID_INDEX
      PROVE  slotToPrice(side2, k) \in P
  <2>1. slotToPrice(side2, k) = slotToPrice(side, k)
    BY <1>1, SameSlots
  <2>2. CASE k = slot
    <3>1. slotToPrice(side, slot) = price
      BY Zenon, <1>2, PriceRoundTrip DEF SideTypeOK
    <3> QED
      BY Zenon, <2>1, <2>2, <3>1
  <2>3. CASE k # slot
    <3>1. side2.ladder[k] = side.ladder[k]
      BY Zenon, <1>1, <2>3 DEF SideTypeOK
    <3> QED
      BY Zenon, <1>5, <2>1, <3>1 DEF SideInv
  <2> QED
    BY Zenon, <2>2, <2>3
<1> QED
  BY Zenon, <1>1, <1>3, <1>4, <1>5 DEF SideInv

(* An overflow level is written or erased.                                 *)
LEMMA OverflowInv ==
  ASSUME NEW s, NEW P, NEW side, SideInv(s, side, P), side.anchored, NEW price \in P,
         priceToSlot(side, price) = INVALID_INDEX, NEW lvl, NEW ovf,
         \/ /\ price \in DOMAIN ovf /\ ovf[price] = lvl /\ lvl.head # INVALID_INDEX
            /\ DOMAIN ovf = DOMAIN side.overflow \cup {price}
         \/ DOMAIN ovf = DOMAIN side.overflow \ {price} /\ lvl = EmptyLevel,
         \A p \in DOMAIN side.overflow \ {price} : ovf[p] = side.overflow[p],
         NEW side2, side2 = [ladder |-> side.ladder, overflow |-> ovf,
                             base |-> side.base, anchored |-> side.anchored,
                             bestSlot |-> side.bestSlot]
  PROVE  SideInv(s, side2, P) /\ Resets(side, side2, P, price, lvl)
<1>1. /\ side2.ladder = side.ladder /\ side2.overflow = ovf
      /\ side2.bestSlot = side.bestSlot
      /\ SameBase(side, side2) /\ side2.anchored
  BY Zenon DEF SameBase
<1>2. Resets(side, side2, P, price, lvl)
  <2>1. \/ price \in DOMAIN ovf /\ ovf[price] = lvl
        \/ price \notin DOMAIN ovf /\ lvl = EmptyLevel
    BY Zenon
  <2>2. \A p \in P : p # price =>
           /\ p \in DOMAIN ovf <=> p \in DOMAIN side.overflow
           /\ p \in DOMAIN side.overflow => ovf[p] = side.overflow[p]
    BY Zenon
  <2> QED
    BY Zenon, <1>1, <2>1, <2>2, OverflowResets
<1>3. \A p \in DOMAIN side2.overflow : /\ priceToSlot(side2, p) = INVALID_INDEX
                                       /\ side2.overflow[p].head # INVALID_INDEX
  BY <1>1, SameSlots DEF SideInv
<1>4. \A k \in Slots : side2.ladder[k].head # INVALID_INDEX => slotToPrice(side2, k) \in P
  BY <1>1, SameSlots DEF SideInv
<1> QED
  BY Zenon, <1>1, <1>2, <1>3, <1>4 DEF SideInv

Adds(s, side, P, price, new, res) ==
  /\ res.nodes = new.nodes
  /\ SideInv(s, res.side, P)
  /\ Resets(side, res.side, P, price, new.level)

(* add(): the level of the price gets the order linked in.                 *)
LEMMA AddSide ==
  ASSUME NEW s, NEW O, NEW D, NEW P, P \subseteq Nat, NEW side, SideTypeOK(side, D, P),
         SideInv(s, side, P), NEW nodes \in [D -> PoolNodes(O, D)],
         NEW price \in P, NEW idx \in D,
         NEW new, new = linkAtTail(nodes, LevelAt(side, price), idx),
         new.level.head # INVALID_INDEX
  PROVE  Adds(s, side, P, price, new, add(s, side, nodes, price, idx))
<1> DEFINE sd   == IF side.anchored THEN side ELSE anchor(side, price)
           slot == priceToSlot(sd, price)
           best == IF sd.bestSlot = INVALID_INDEX \/ Better(s, slot, sd.bestSlot)
                   THEN slot ELSE sd.bestSlot
           cut  == [sd EXCEPT !.ladder[slot] = new.level]
           side2 == IF slot # INVALID_INDEX
                    THEN [cut EXCEPT !.bestSlot = best]
                    ELSE putOverflow(sd, price, new.level)
<1>0. price \in Nat
  BY Zenon
<1>1. /\ SideTypeOK(sd, D, P) /\ sd.anchored /\ SideInv(s, sd, P)
      /\ SameLevels(side, sd, P)
  <2>1. CASE side.anchored
    BY Zenon, <2>1 DEF SameLevels
  <2>2. CASE ~side.anchored
    <3>1. sd = anchor(side, price)
      BY Zenon, <2>2
    <3> HIDE DEF sd
    <3> QED
      BY Zenon, <2>2, <3>1, AnchorSide
  <2> QED
    BY Zenon, <2>1, <2>2
<1>2. /\ add(s, side, nodes, price, idx).nodes = new.nodes
      /\ add(s, side, nodes, price, idx).side = side2
  <2>1. add(s, side, nodes, price, idx) =
          [nodes |-> linkAtTail(nodes, LevelAt(sd, price), idx).nodes,
           side  |-> IF slot # INVALID_INDEX
                     THEN [sd EXCEPT !.ladder[slot] =
                                       linkAtTail(nodes, LevelAt(sd, price), idx).level,
                                     !.bestSlot = best]
                     ELSE putOverflow(sd, price,
                                      linkAtTail(nodes, LevelAt(sd, price), idx).level)]
    BY Zenon DEF add
  <2>2. new = linkAtTail(nodes, LevelAt(sd, price), idx)
    BY Zenon, <1>1 DEF SameLevels
  <2>3. add(s, side, nodes, price, idx) = [nodes |-> new.nodes, side |-> side2]
    BY <2>1, <2>2, Zenon
  <2> HIDE DEF side2
  <2> QED
    BY <2>3
<1> HIDE DEF sd
<1>3. slot \in Slots \cup {INVALID_INDEX}
  BY Zenon, <1>0, <1>1, PriceToSlotType DEF SideTypeOK
<1>4. SideInv(s, side2, P) /\ Resets(sd, side2, P, price, new.level)
  <2>1. CASE slot # INVALID_INDEX
    <3>1. slot \in Slots
      BY Zenon, <1>3, <2>1
    <3>2. BestOK(s, [sd.ladder EXCEPT ![slot] = new.level], best)
      <4>1. /\ sd.ladder \in [Slots -> Levels(D)]
            /\ sd.bestSlot \in Slots \cup {INVALID_INDEX}
            /\ BestOK(s, sd.ladder, sd.bestSlot)
        BY Zenon, <1>1 DEF SideTypeOK, SideInv
      <4> HIDE DEF slot
      <4> QED
        BY Zenon, <3>1, <4>1, BestOnAdd
    <3>3. cut = [ladder |-> [sd.ladder EXCEPT ![slot] = new.level],
                 overflow |-> sd.overflow, base |-> sd.base,
                 anchored |-> sd.anchored, bestSlot |-> sd.bestSlot]
      BY ZenonT(40), <1>1, ExceptSide DEF SideTypeOK
    <3> HIDE DEF cut, best
    <3>4. [cut EXCEPT !.bestSlot = best] =
             [ladder |-> [sd.ladder EXCEPT ![slot] = new.level],
              overflow |-> sd.overflow, base |-> sd.base,
              anchored |-> sd.anchored, bestSlot |-> best]
      <4> HIDE DEF slot
      <4>1. /\ cut.ladder = [sd.ladder EXCEPT ![slot] = new.level]
            /\ cut.overflow = sd.overflow /\ cut.base = sd.base /\ cut.anchored = sd.anchored
            /\ cut = [ladder |-> cut.ladder, overflow |-> cut.overflow, base |-> cut.base,
                      anchored |-> cut.anchored, bestSlot |-> cut.bestSlot]
        BY Zenon, <3>3
      <4>2. [cut EXCEPT !.bestSlot = best] =
               [ladder |-> cut.ladder, overflow |-> cut.overflow, base |-> cut.base,
                anchored |-> cut.anchored, bestSlot |-> best]
        BY Zenon, <4>1, ExceptSide
      <4> QED
        BY <4>1, <4>2, Zenon
    <3>5. side2 = [ladder |-> [sd.ladder EXCEPT ![slot] = new.level],
                   overflow |-> sd.overflow, base |-> sd.base,
                   anchored |-> sd.anchored, bestSlot |-> best]
      BY Zenon, <2>1, <3>4
    <3> HIDE DEF side2
    <3>6. PICK k \in Slots : k = priceToSlot(sd, price)
      BY Zenon, <3>1
    <3> QED
      BY Zenon, <1>1, <3>2, <3>5, <3>6, SlotInv
  <2>2. CASE slot = INVALID_INDEX
    <3> DEFINE ovf == [p \in DOMAIN sd.overflow \cup {price} |->
                         IF p = price THEN new.level ELSE sd.overflow[p]]
    <3>1. putOverflow(sd, price, new.level) =
            [ladder |-> sd.ladder, overflow |-> ovf, base |-> sd.base,
             anchored |-> sd.anchored, bestSlot |-> sd.bestSlot]
      BY Zenon, <1>1, ExceptSide DEF putOverflow, SideTypeOK
    <3>2. side2 = [ladder |-> sd.ladder, overflow |-> ovf, base |-> sd.base,
                   anchored |-> sd.anchored, bestSlot |-> sd.bestSlot]
      BY Zenon, <2>2, <3>1
    <3>3. /\ price \in DOMAIN ovf /\ ovf[price] = new.level
          /\ DOMAIN ovf = DOMAIN sd.overflow \cup {price}
          /\ \A p \in DOMAIN sd.overflow \ {price} : ovf[p] = sd.overflow[p]
      BY Zenon
    <3> HIDE DEF ovf, side2
    <3> QED
      BY Zenon, <1>1, <2>2, <3>2, <3>3, OverflowInv
  <2> QED
    BY Zenon, <2>1, <2>2
<1>5. Resets(side, side2, P, price, new.level)
  <2> HIDE DEF side2
  <2> QED
    BY Zenon, <1>1, <1>4 DEF Resets, SameLevels
<1> HIDE DEF side2
<1> QED
  BY Zenon, <1>2, <1>4, <1>5 DEF Adds

-----------------------------------------------------------------------------
(***************************************************************************)
(* The level of a price is written and goes when it is empty: remove(),    *)
(* and setLevel with removeEmptyBest in the matching loop.                 *)
(***************************************************************************)
Drain(s, side, price, lvl) ==
  IF lvl.head = INVALID_INDEX
  THEN removeEmptyBest(s, setLevel(side, price, lvl), price)
  ELSE setLevel(side, price, lvl)

(* The overflow with the level of a price written.                         *)
OverflowWith(side, price, lvl) ==
  [p \in DOMAIN side.overflow \cup {price} |->
     IF p = price THEN lvl ELSE side.overflow[p]]

(* setLevel, as a record.                                                  *)
LEMMA SetLevelIs ==
  ASSUME NEW D, NEW P, NEW side, SideTypeOK(side, D, P), NEW price, NEW lvl
  PROVE  /\ priceToSlot(side, price) # INVALID_INDEX =>
              setLevel(side, price, lvl) =
                [ladder |-> [side.ladder EXCEPT ![priceToSlot(side, price)] = lvl],
                 overflow |-> side.overflow, base |-> side.base,
                 anchored |-> side.anchored, bestSlot |-> side.bestSlot]
         /\ priceToSlot(side, price) = INVALID_INDEX =>
              setLevel(side, price, lvl) =
                [ladder |-> side.ladder,
                 overflow |-> OverflowWith(side, price, lvl),
                 base |-> side.base, anchored |-> side.anchored,
                 bestSlot |-> side.bestSlot]
<1> DEFINE slot == priceToSlot(side, price)
           ovf  == OverflowWith(side, price, lvl)
<1>1. slot # INVALID_INDEX => setLevel(side, price, lvl) = [side EXCEPT !.ladder[slot] = lvl]
  BY Zenon DEF setLevel
<1>2. slot = INVALID_INDEX => setLevel(side, price, lvl) = [side EXCEPT !.overflow = ovf]
  BY Zenon DEF setLevel, putOverflow, OverflowWith
<1> HIDE DEF slot, ovf
<1>3. [side EXCEPT !.ladder[slot] = lvl] =
        [ladder |-> [side.ladder EXCEPT ![slot] = lvl],
         overflow |-> side.overflow, base |-> side.base,
         anchored |-> side.anchored, bestSlot |-> side.bestSlot]
  BY Zenon, ExceptSide DEF SideTypeOK
<1>4. [side EXCEPT !.overflow = ovf] =
        [ladder |-> side.ladder, overflow |-> ovf, base |-> side.base,
         anchored |-> side.anchored, bestSlot |-> side.bestSlot]
  BY Zenon, ExceptSide DEF SideTypeOK
<1> QED
  BY <1>1, <1>2, <1>3, <1>4, Zenon DEF slot, ovf

(* The level of a price is replaced, and the cached best advances if that  *)
(* emptied it: the ladder, the overflow map and the cache agree again.     *)
LEMMA DrainSide ==
  ASSUME NEW s, NEW D, NEW P, P \subseteq Nat, NEW side, SideTypeOK(side, D, P),
         SideInv(s, side, P), NEW price \in P,
         LevelAt(side, price).head # INVALID_INDEX,
         NEW lvl, lvl.head = INVALID_INDEX => lvl = EmptyLevel
  PROVE  /\ SideInv(s, Drain(s, side, price, lvl), P)
         /\ Resets(side, Drain(s, side, price, lvl), P, price, lvl)
<1> DEFINE slot == priceToSlot(side, price)
           set  == setLevel(side, price, lvl)
           new  == Drain(s, side, price, lvl)
<1>0. /\ price \in Nat /\ side.base \in Nat /\ side.ladder \in [Slots -> Levels(D)]
      /\ side.bestSlot \in Slots \cup {INVALID_INDEX} /\ INVALID_INDEX \notin Slots
      /\ BestOK(s, side.ladder, side.bestSlot)
  BY InvalidIndexAssumption DEF SideTypeOK, SideInv, Slots
<1>1. slot \in Slots \cup {INVALID_INDEX}
  BY Zenon, <1>0, PriceToSlotType
<1>2. side.anchored
  BY Zenon DEF SideInv, LevelAt, priceToSlot, EmptyLevel
<1>3. new = IF lvl.head = INVALID_INDEX THEN removeEmptyBest(s, set, price) ELSE set
  BY Zenon DEF Drain
<1> HIDE DEF new, set
<1>4. CASE slot # INVALID_INDEX
  <2>0. slot \in Slots
    BY Zenon, <1>1, <1>4
  <2>1. set = [ladder |-> [side.ladder EXCEPT ![slot] = lvl],
               overflow |-> side.overflow, base |-> side.base,
               anchored |-> side.anchored, bestSlot |-> side.bestSlot]
    BY Zenon, <1>4, SetLevelIs DEF set
  <2>2. side.ladder[slot].head # INVALID_INDEX
    BY Zenon, <1>4 DEF LevelAt
  <2>3. PICK k \in Slots : k = slot
    BY Zenon, <2>0
  <2>4. side.bestSlot # INVALID_INDEX /\ side.bestSlot \in Slots
    BY Zenon, <1>0, <2>0, <2>2 DEF BestOK
  <2>5. CASE lvl.head # INVALID_INDEX \/ slot # side.bestSlot
    <3>1. BestOK(s, [side.ladder EXCEPT ![slot] = lvl], side.bestSlot)
      <4> HIDE DEF slot
      <4> QED
        BY Zenon, <1>0, <2>0, <2>2, <2>5, BestOnKeep
    <3>2. new = set
      <4>1. CASE lvl.head # INVALID_INDEX
        BY Zenon, <1>3, <4>1
      <4>2. CASE slot # side.bestSlot
        <5>1. SameBase(side, set) /\ set.bestSlot = side.bestSlot
          BY Zenon, <2>1 DEF SameBase
        <5>2. priceToSlot(set, price) = slot
          BY Zenon, <5>1, SameSlots
        <5>3. removeEmptyBest(s, set, price) = set
          BY <1>4, <4>2, <5>1, <5>2, Zenon DEF removeEmptyBest
        <5> QED
          BY Zenon, <1>3, <5>3
      <4> QED
        BY Zenon, <2>5, <4>1, <4>2
    <3>3. SideInv(s, set, P) /\ Resets(side, set, P, price, lvl)
      BY Zenon, <1>2, <2>1, <2>3, <3>1, SlotInv
    <3> QED
      BY Zenon, <3>2, <3>3 DEF new
  <2>6. CASE lvl.head = INVALID_INDEX /\ slot = side.bestSlot
    <3> DEFINE l2 == [side.ladder EXCEPT ![slot] = lvl]
               populated == {j \in Slots : /\ l2[j].head # INVALID_INDEX
                                           /\ ~Better(s, j, side.bestSlot)}
               best2 == IF populated = {} THEN INVALID_INDEX ELSE Best(s, populated)
    <3>1. /\ SameBase(side, set) /\ set.bestSlot = side.bestSlot
          /\ set.ladder = l2 /\ set.overflow = side.overflow
          /\ set = [ladder |-> set.ladder, overflow |-> set.overflow, base |-> set.base,
                    anchored |-> set.anchored, bestSlot |-> set.bestSlot]
      BY Zenon, <2>1 DEF SameBase
    <3>2. priceToSlot(set, price) = slot
      BY <3>1, SameSlots
    <3>3. new = advanceBest(s, set)
      <4>1. removeEmptyBest(s, set, price) = advanceBest(s, set)
        BY <1>4, <2>6, <3>1, <3>2, Zenon DEF removeEmptyBest
      <4> QED
        BY Zenon, <1>3, <2>6, <4>1
    <3>4. advanceBest(s, set) = [set EXCEPT !.bestSlot = best2]
      <4> HIDE DEF l2
      <4>1. advanceBest(s, set) =
              [set EXCEPT !.bestSlot =
                 IF {j \in Slots : /\ set.ladder[j].head # INVALID_INDEX
                                   /\ ~Better(s, j, set.bestSlot)} = {} THEN INVALID_INDEX
                 ELSE Best(s, {j \in Slots : /\ set.ladder[j].head # INVALID_INDEX
                                             /\ ~Better(s, j, set.bestSlot)})]
        BY Zenon DEF advanceBest
      <4> QED
        BY <3>1, <4>1, Zenon
    <3>5. BestOK(s, l2, best2)
      <4>1. PICK b \in Slots : b = side.bestSlot
        BY Zenon, <2>4
      <4>2. l2 = [side.ladder EXCEPT ![b] = lvl] /\ BestOK(s, side.ladder, b)
        BY Zenon, <1>0, <2>6, <4>1
      <4>3. populated = {j \in Slots : l2[j].head # INVALID_INDEX /\ ~Better(s, j, b)}
        BY Zenon, <4>1
      <4> HIDE DEF l2, populated
      <4> QED
        BY ZenonT(40), <1>0, <2>6, <4>2, <4>3, BestOnDrain
    <3> HIDE DEF best2
    <3>6. new = [ladder |-> l2, overflow |-> side.overflow, base |-> side.base,
                 anchored |-> side.anchored, bestSlot |-> best2]
      <4> HIDE DEF l2
      <4>1. [set EXCEPT !.bestSlot = best2] =
              [ladder |-> set.ladder, overflow |-> set.overflow, base |-> set.base,
               anchored |-> set.anchored, bestSlot |-> best2]
        BY Zenon, <3>1, ExceptSide
      <4>2. set.base = side.base /\ set.anchored = side.anchored
        BY Zenon, <3>1 DEF SameBase
      <4> QED
        BY <3>1, <3>3, <3>4, <4>1, <4>2, Zenon
    <3> QED
      BY Zenon, <1>2, <2>3, <3>5, <3>6, SlotInv DEF new
  <2> QED
    BY Zenon, <2>5, <2>6
<1>5. CASE slot = INVALID_INDEX
  <2> DEFINE ovf == OverflowWith(side, price, lvl)
  <2>1. set = [ladder |-> side.ladder, overflow |-> ovf, base |-> side.base,
               anchored |-> side.anchored, bestSlot |-> side.bestSlot]
    BY Zenon, <1>5, SetLevelIs DEF set
  <2>2. price \in DOMAIN side.overflow
    BY Zenon, <1>5 DEF LevelAt, EmptyLevel
  <2>3. /\ price \in DOMAIN ovf /\ ovf[price] = lvl
        /\ DOMAIN ovf = DOMAIN side.overflow \cup {price}
        /\ \A p \in DOMAIN side.overflow \ {price} : ovf[p] = side.overflow[p]
    BY Zenon DEF OverflowWith
  <2> HIDE DEF ovf
  <2>4. CASE lvl.head # INVALID_INDEX
    <3>1. new = set
      BY Zenon, <1>3, <2>4
    <3>2. SideInv(s, set, P) /\ Resets(side, set, P, price, lvl)
      BY Zenon, <1>2, <1>5, <2>1, <2>3, <2>4, OverflowInv
    <3> QED
      BY Zenon, <3>1, <3>2 DEF new
  <2>5. CASE lvl.head = INVALID_INDEX
    <3> DEFINE o2 == [p \in DOMAIN ovf \ {price} |-> ovf[p]]
    <3>1. /\ SameBase(side, set) /\ set.overflow = ovf /\ set.ladder = side.ladder
          /\ set.bestSlot = side.bestSlot
          /\ set = [ladder |-> set.ladder, overflow |-> set.overflow, base |-> set.base,
                    anchored |-> set.anchored, bestSlot |-> set.bestSlot]
      BY Zenon, <2>1 DEF SameBase
    <3>2. priceToSlot(set, price) = INVALID_INDEX
      BY <1>5, <3>1, SameSlots
    <3>3. new = eraseOverflow(set, price)
      <4>1. removeEmptyBest(s, set, price) = eraseOverflow(set, price)
        BY <3>2, Zenon DEF removeEmptyBest
      <4> QED
        BY Zenon, <1>3, <2>5, <4>1
    <3>4. eraseOverflow(set, price) = [set EXCEPT !.overflow = o2]
      BY <3>1, Zenon DEF eraseOverflow
    <3>5. /\ DOMAIN o2 = DOMAIN side.overflow \ {price}
          /\ \A p \in DOMAIN side.overflow \ {price} : o2[p] = side.overflow[p]
      BY Zenon, <2>3
    <3> HIDE DEF o2
    <3>6. new = [ladder |-> side.ladder, overflow |-> o2, base |-> side.base,
                 anchored |-> side.anchored, bestSlot |-> side.bestSlot]
      <4>1. [set EXCEPT !.overflow = o2] =
              [ladder |-> set.ladder, overflow |-> o2, base |-> set.base,
               anchored |-> set.anchored, bestSlot |-> set.bestSlot]
        BY Zenon, <3>1, ExceptSide
      <4>2. set.base = side.base /\ set.anchored = side.anchored
        BY Zenon, <3>1 DEF SameBase
      <4> QED
        BY <3>1, <3>3, <3>4, <4>1, <4>2, Zenon
    <3> QED
      BY Zenon, <1>2, <1>5, <2>5, <3>5, <3>6, OverflowInv DEF new
  <2> QED
    BY Zenon, <2>4, <2>5
<1> QED
  BY Zenon, <1>1, <1>4, <1>5

(* remove() takes the order out of its list and drains the level.          *)
LEMMA RemoveIsDrain ==
  ASSUME NEW s, NEW D, NEW P, NEW side, SideTypeOK(side, D, P),
         NEW nodes, NEW price, NEW idx, LevelAt(side, price).head # INVALID_INDEX,
         NEW new, new = unlink(nodes, LevelAt(side, price), idx)
  PROVE  /\ remove(s, side, nodes, price, idx).nodes = new.nodes
         /\ remove(s, side, nodes, price, idx).side = Drain(s, side, price, new.level)
<1> DEFINE slot == priceToSlot(side, price)
           set  == setLevel(side, price, new.level)
           ovf  == OverflowWith(side, price, new.level)
<1>1. CASE slot # INVALID_INDEX
  <2>1. /\ set = [ladder |-> [side.ladder EXCEPT ![slot] = new.level],
                  overflow |-> side.overflow, base |-> side.base,
                  anchored |-> side.anchored, bestSlot |-> side.bestSlot]
        /\ set = [side EXCEPT !.ladder[slot] = new.level]
    <3>1. set = [side EXCEPT !.ladder[slot] = new.level]
      BY <1>1, Zenon DEF setLevel
    <3> QED
      BY <1>1, <3>1, SetLevelIs
  <2>2. remove(s, side, nodes, price, idx) =
          [nodes |-> new.nodes,
           side  |-> IF new.level.head = INVALID_INDEX /\ slot = side.bestSlot
                     THEN advanceBest(s, [side EXCEPT !.ladder[slot] = new.level])
                     ELSE [side EXCEPT !.ladder[slot] = new.level]]
    BY <1>1, Zenon DEF remove
  <2> HIDE DEF set
  <2>3. SameBase(side, set) /\ set.bestSlot = side.bestSlot
    BY Zenon, <2>1 DEF SameBase
  <2>4. priceToSlot(set, price) = slot
    BY Zenon, <2>3, SameSlots
  <2>5. removeEmptyBest(s, set, price) = IF slot = side.bestSlot THEN advanceBest(s, set)
                                         ELSE set
    BY <1>1, <2>3, <2>4, Zenon DEF removeEmptyBest
  <2>6. Drain(s, side, price, new.level) =
          IF new.level.head = INVALID_INDEX THEN removeEmptyBest(s, set, price) ELSE set
    BY Zenon DEF Drain, set
  <2>7. remove(s, side, nodes, price, idx) =
          [nodes |-> new.nodes,
           side  |-> IF new.level.head = INVALID_INDEX /\ slot = side.bestSlot
                     THEN advanceBest(s, set) ELSE set]
    BY <2>1, <2>2, ZenonT(40)
  <2> QED
    BY <2>5, <2>6, <2>7
<1>2. CASE slot = INVALID_INDEX
  <2>1. price \in DOMAIN side.overflow
    BY Zenon, <1>2 DEF LevelAt, EmptyLevel
  <2>2. remove(s, side, nodes, price, idx) =
          [nodes |-> new.nodes,
           side  |-> IF new.level.head = INVALID_INDEX THEN eraseOverflow(side, price)
                     ELSE putOverflow(side, price, new.level)]
    BY <1>2, <2>1, Zenon DEF remove
  <2>3. set = putOverflow(side, price, new.level)
    BY <1>2, Zenon DEF setLevel
  <2>4. set = [ladder |-> side.ladder, overflow |-> ovf, base |-> side.base,
               anchored |-> side.anchored, bestSlot |-> side.bestSlot]
    BY Zenon, <1>2, SetLevelIs
  <2>5. Drain(s, side, price, new.level) =
          IF new.level.head = INVALID_INDEX THEN removeEmptyBest(s, set, price) ELSE set
    BY Zenon DEF Drain
  <2> HIDE DEF set
  <2>6. SameBase(side, set) /\ set.overflow = ovf
    BY Zenon, <2>4 DEF SameBase
  <2>7. removeEmptyBest(s, set, price) = eraseOverflow(set, price)
    <3>1. priceToSlot(set, price) = INVALID_INDEX
      BY Zenon, <1>2, <2>6, SameSlots
    <3> QED
      BY <3>1, Zenon DEF removeEmptyBest
  <2>8. eraseOverflow(set, price) = eraseOverflow(side, price)
    <3> DEFINE o1 == [p \in DOMAIN set.overflow \ {price} |-> set.overflow[p]]
               o2 == [p \in DOMAIN side.overflow \ {price} |-> side.overflow[p]]
    <3>1. o1 = o2
      <4>1. DOMAIN ovf \ {price} = DOMAIN side.overflow \ {price}
        BY Zenon DEF OverflowWith
      <4>2. \A p \in DOMAIN side.overflow \ {price} : ovf[p] = side.overflow[p]
        BY Zenon DEF OverflowWith
      <4> HIDE DEF ovf
      <4> QED
        BY Zenon, <2>6, <4>1, <4>2
    <3>2. eraseOverflow(set, price) = [set EXCEPT !.overflow = o1]
      BY Zenon DEF eraseOverflow
    <3>3. eraseOverflow(side, price) = [side EXCEPT !.overflow = o2]
      BY Zenon DEF eraseOverflow
    <3> HIDE DEF o1, o2, ovf
    <3>4. [side EXCEPT !.overflow = o2] =
            [ladder |-> side.ladder, overflow |-> o2, base |-> side.base,
             anchored |-> side.anchored, bestSlot |-> side.bestSlot]
      BY Zenon, ExceptSide DEF SideTypeOK
    <3>5. [set EXCEPT !.overflow = o1] =
            [ladder |-> side.ladder, overflow |-> o1, base |-> side.base,
             anchored |-> side.anchored, bestSlot |-> side.bestSlot]
      BY <2>4
    <3> QED
      BY <3>1, <3>2, <3>3, <3>4, <3>5, Zenon
  <2> QED
    BY <2>2, <2>3, <2>5, <2>7, <2>8
<1> QED
  BY Zenon, <1>1, <1>2

-----------------------------------------------------------------------------
(***************************************************************************)
(* bestLevel() is the best non-empty level.                                *)
(***************************************************************************)
TopOf(s, side, P) ==
  /\ (\E p \in P : LevelAt(side, p).head # INVALID_INDEX) => hasBest(side)
  /\ hasBest(side) =>
       /\ bestPrice(s, side) \in P
       /\ LevelAt(side, bestPrice(s, side)).head # INVALID_INDEX
       /\ \A p \in P : LevelAt(side, p).head # INVALID_INDEX =>
                         ~Better(s, p, bestPrice(s, side))

(* bestPrice is the best price of the populated levels, on the ladder or   *)
(* beyond it.                                                              *)
LEMMA BestOf ==
  ASSUME NEW s, NEW D, NEW m \in Nat, NEW P, P \subseteq 0 .. m,
         NEW side, SideTypeOK(side, D, P), SideInv(s, side, P)
  PROVE  TopOf(s, side, P)
<1> DEFINE ladder == slotToPrice(side, side.bestSlot)
           edge   == Best(s, DOMAIN side.overflow)
<1>0. /\ side.base \in Nat /\ P \subseteq Nat /\ INVALID_INDEX \notin Slots
      /\ side.bestSlot \in Slots \cup {INVALID_INDEX}
  BY InvalidIndexAssumption DEF SideTypeOK, Slots
<1>1. side.bestSlot # INVALID_INDEX =>
        ladder \in P /\ LevelAt(side, ladder).head # INVALID_INDEX
  <2> SUFFICES ASSUME side.bestSlot # INVALID_INDEX
               PROVE  ladder \in P /\ LevelAt(side, ladder).head # INVALID_INDEX
    BY Zenon
  <2>1. side.bestSlot \in Slots /\ side.anchored
    BY Zenon, <1>0 DEF SideTypeOK
  <2>2. side.ladder[side.bestSlot].head # INVALID_INDEX
    BY Zenon DEF SideInv, BestOK
  <2>3. priceToSlot(side, ladder) = side.bestSlot
    BY Zenon, <1>0, <2>1, SlotRoundTrip
  <2>4. ladder \in P
    BY Zenon, <2>1, <2>2 DEF SideInv
  <2> HIDE DEF ladder
  <2> QED
    BY Zenon, <2>2, <2>3, <2>4 DEF LevelAt
<1>2. \A p \in DOMAIN side.overflow : p \in P /\ LevelAt(side, p).head # INVALID_INDEX
  BY Zenon DEF SideInv, SideTypeOK, LevelAt
<1>3. DOMAIN side.overflow # {} =>
        edge \in DOMAIN side.overflow /\ \A p \in DOMAIN side.overflow : ~Better(s, p, edge)
  <2>1. DOMAIN side.overflow \subseteq 0 .. m
    BY Zenon DEF SideTypeOK
  <2> QED
    BY Zenon, <2>1, BestIsBest
<1>4. ASSUME NEW p \in P, LevelAt(side, p).head # INVALID_INDEX
      PROVE  \/ p \in DOMAIN side.overflow
             \/ side.bestSlot # INVALID_INDEX /\ ~Better(s, p, ladder)
  <2>1. CASE priceToSlot(side, p) = INVALID_INDEX
    BY Zenon, <1>4, <2>1 DEF LevelAt, EmptyLevel
  <2>2. CASE priceToSlot(side, p) # INVALID_INDEX
    <3>1. PICK k \in Slots : k = priceToSlot(side, p)
      BY Zenon, <1>0, <2>2, PriceToSlotType
    <3>2. slotToPrice(side, k) = p
      BY Zenon, <1>0, <2>2, <3>1, PriceRoundTrip
    <3>3. side.ladder[k].head # INVALID_INDEX
      BY Zenon, <1>4, <2>2, <3>1 DEF LevelAt
    <3>4. side.bestSlot # INVALID_INDEX /\ ~Better(s, k, side.bestSlot)
      BY Zenon, <3>3 DEF SideInv, BestOK
    <3>5. PICK c \in Slots : c = side.bestSlot
      BY Zenon, <1>0, <3>4
    <3>6. ~Better(s, k, c)
      BY Zenon, <3>4, <3>5
    <3>7. PICK base \in Nat : base = side.base
      BY Zenon, <1>0
    <3>8. p = base + k * TICK /\ ladder = base + c * TICK
      BY Zenon, <3>2, <3>5, <3>7 DEF slotToPrice
    <3>9. ~Better(s, p, ladder)
      <4> HIDE DEF ladder
      <4>1. k \in Nat /\ c \in Nat /\ TICK \in Nat
        BY LadderAssumption DEF Slots
      <4>2. k <= c => k * TICK <= c * TICK
        BY <4>1
      <4>3. c <= k => c * TICK <= k * TICK
        BY <4>1
      <4>4. k * TICK \in Nat /\ c * TICK \in Nat
        BY <4>1
      <4> QED
        BY SMTT(40), <3>6, <3>8, <4>1, <4>2, <4>3, <4>4 DEF Better
    <3> QED
      BY Zenon, <3>4, <3>9
  <2> QED
    BY Zenon, <2>1, <2>2
<1>5. bestPrice(s, side) =
        IF DOMAIN side.overflow = {} THEN ladder
        ELSE IF side.bestSlot = INVALID_INDEX THEN edge
        ELSE IF ~Better(s, edge, ladder) THEN ladder
        ELSE edge
  BY Zenon DEF bestPrice
<1> HIDE DEF ladder, edge
<1>6. \A x, y, z \in Int : ~Better(s, x, y) /\ ~Better(s, y, z) => ~Better(s, x, z)
  BY DEF Better
<1>7. \A x, y, z \in Int : ~Better(s, x, y) /\ Better(s, z, y) => ~Better(s, x, z)
  BY DEF Better
<1>8. (\E p \in P : LevelAt(side, p).head # INVALID_INDEX) => hasBest(side)
  BY Zenon, <1>4 DEF hasBest
<1>9. ASSUME hasBest(side)
      PROVE  /\ bestPrice(s, side) \in P
             /\ LevelAt(side, bestPrice(s, side)).head # INVALID_INDEX
             /\ \A p \in P : LevelAt(side, p).head # INVALID_INDEX =>
                               ~Better(s, p, bestPrice(s, side))
  <2>1. CASE DOMAIN side.overflow = {}
    BY Zenon, <1>1, <1>4, <1>5, <1>9, <2>1 DEF hasBest
  <2>2. CASE DOMAIN side.overflow # {} /\ side.bestSlot = INVALID_INDEX
    BY Zenon, <1>2, <1>3, <1>4, <1>5, <2>2
  <2>3. CASE DOMAIN side.overflow # {} /\ side.bestSlot # INVALID_INDEX
    <3>1. /\ ladder \in P /\ edge \in P /\ \A p \in P : p \in Int
          /\ LevelAt(side, ladder).head # INVALID_INDEX
          /\ LevelAt(side, edge).head # INVALID_INDEX
      <4>1. ladder \in P /\ LevelAt(side, ladder).head # INVALID_INDEX
        BY Zenon, <1>1, <2>3
      <4>2. edge \in P /\ LevelAt(side, edge).head # INVALID_INDEX
        BY Zenon, <1>2, <1>3, <2>3
      <4>3. \A p \in P : p \in Int
        BY <1>0
      <4> QED
        BY Zenon, <4>1, <4>2, <4>3
    <3>2. CASE ~Better(s, edge, ladder)
      <4>1. bestPrice(s, side) = ladder
        BY Zenon, <1>5, <2>3, <3>2
      <4>2. ASSUME NEW p \in P, LevelAt(side, p).head # INVALID_INDEX
            PROVE  ~Better(s, p, ladder)
        <5>1. p \in DOMAIN side.overflow => ~Better(s, p, edge)
          BY Zenon, <1>3
        <5>2. p \in Int /\ edge \in Int /\ ladder \in Int
          BY Zenon, <3>1
        <5> QED
          BY ZenonT(40), <1>4, <1>6, <3>2, <4>2, <5>1, <5>2
      <4> QED
        BY Zenon, <3>1, <4>1, <4>2
    <3>3. CASE Better(s, edge, ladder)
      <4>1. bestPrice(s, side) = edge
        BY Zenon, <1>5, <2>3, <3>3
      <4>2. ASSUME NEW p \in P, LevelAt(side, p).head # INVALID_INDEX
            PROVE  ~Better(s, p, edge)
        <5>1. p \in DOMAIN side.overflow => ~Better(s, p, edge)
          BY Zenon, <1>3
        <5>2. p \in Int /\ edge \in Int /\ ladder \in Int
          BY Zenon, <3>1
        <5> QED
          BY ZenonT(40), <1>4, <1>7, <3>3, <4>2, <5>1, <5>2
      <4> QED
        BY Zenon, <3>1, <4>1, <4>2
    <3> QED
      BY Zenon, <3>2, <3>3
  <2> QED
    BY Zenon, <2>1, <2>2, <2>3
<1> QED
  BY Zenon, <1>8, <1>9 DEF TopOf

(* The best populated slot is the one Best picks.                          *)
LEMMA BestSlotIs ==
  ASSUME NEW s, NEW ladder, NEW best \in Slots \cup {INVALID_INDEX},
         BestOK(s, ladder, best),
         NEW populated, populated = {k \in Slots : ladder[k].head # INVALID_INDEX}
  PROVE  best = IF populated = {} THEN INVALID_INDEX ELSE Best(s, populated)
<1>1. CASE best = INVALID_INDEX
  BY Zenon, <1>1 DEF BestOK
<1>2. CASE best # INVALID_INDEX
  <2>1. best \in populated /\ \A k \in populated : ~Better(s, k, best)
    BY Zenon, <1>2 DEF BestOK
  <2>2. populated \subseteq 0 .. WINDOW - 1 /\ WINDOW - 1 \in Nat
    BY LadderAssumption DEF Slots
  <2>3. Best(s, populated) \in populated /\ \A y \in populated : ~Better(s, y, Best(s, populated))
    BY Zenon, <2>1, <2>2, BestIsBest
  <2>4. PICK c \in populated : c = Best(s, populated)
    BY Zenon, <2>3
  <2>5. ~Better(s, c, best) /\ ~Better(s, best, c)
    BY Zenon, <2>1, <2>3, <2>4
  <2>6. c \in Int /\ best \in Int
    BY <2>1, <2>2
  <2>7. c = best
    BY <2>5, <2>6 DEF Better
  <2> QED
    BY Zenon, <2>1, <2>4, <2>7
<1> QED
  BY Zenon, <1>1, <1>2
=============================================================================
