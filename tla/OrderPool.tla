------------------------------ MODULE OrderPool ------------------------------
(***************************************************************************)
(* The arena of order nodes shared by every book (include/order_pool.hpp). *)
(*                                                                         *)
(* A pool is a record:                                                     *)
(*   nodes    the vector of nodes, a function on 0 .. size-1;              *)
(*   size     nodes.size();                                                *)
(*   freeHead the first free slot; free slots are chained through `next'.  *)
(* A node holds an order and its two list links, which are pool indices or *)
(* INVALID_INDEX.                                                          *)
(***************************************************************************)
EXTENDS Integers, Sequences

CONSTANT INVALID_INDEX   \* UINT32_MAX in the code: an index no slot has

ASSUME InvalidIndexAssumption == INVALID_INDEX \notin Nat

EmptyPool == [nodes |-> <<>>, size |-> 0, freeHead |-> INVALID_INDEX]

(* The slot allocate() hands out: the head of the free list, otherwise the *)
(* slot emplace_back() appends.                                            *)
allocatedIdx(pool) ==
  IF pool.freeHead # INVALID_INDEX THEN pool.freeHead ELSE pool.size

allocate(pool, order) ==
  LET idx  == allocatedIdx(pool)
      node == [order |-> order, next |-> INVALID_INDEX, prev |-> INVALID_INDEX]
      grow == pool.freeHead = INVALID_INDEX
  IN  [nodes    |-> [i \in DOMAIN pool.nodes \cup {idx} |->
                       IF i = idx THEN node ELSE pool.nodes[i]],
       size     |-> IF grow THEN pool.size + 1 ELSE pool.size,
       freeHead |-> IF grow THEN INVALID_INDEX ELSE pool.nodes[idx].next]

(* Only `next' of the freed slot is written: order and prev stay behind.   *)
free(pool, idx) ==
  [pool EXCEPT !.nodes[idx].next = pool.freeHead, !.freeHead = idx]

(***************************************************************************)
(* For the properties.                                                     *)
(***************************************************************************)
Links(D) == D \cup {INVALID_INDEX}

PoolNodes(O, D) == [order : O, next : Links(D), prev : Links(D)]

(* A pool that holds orders of the set O.                                  *)
PoolTypeOK(pool, O) ==
  LET D == 0 .. pool.size - 1
  IN  /\ pool = [nodes    |-> pool.nodes,
                 size     |-> pool.size,
                 freeHead |-> pool.freeHead]
      /\ pool.size \in Nat
      /\ pool.nodes \in [D -> PoolNodes(O, D)]
      /\ pool.freeHead \in Links(D)

(***************************************************************************)
(* The slots reached from `start' along `next', cut off after one more     *)
(* than the whole arena so that a cycle shows up as a repetition.          *)
(***************************************************************************)
Chain(pool, start) ==
  LET walk[n \in 0 .. pool.size + 1] ==
        [i \in DOMAIN pool.nodes \cup {INVALID_INDEX} |->
           IF n = 0 \/ i = INVALID_INDEX THEN <<>>
           ELSE <<i>> \o walk[n - 1][pool.nodes[i].next]]
  IN  walk[pool.size + 1][start]
=============================================================================
