------------------------------- MODULE MCEngine ------------------------------
(***************************************************************************)
(* Small instances of MatchingEngine for TLC.                              *)
(***************************************************************************)
EXTENDS MatchingEngine, TLC

Symmetry ==
  Permutations(FreshRefs) \cup Permutations(Refs \ FreshRefs)
  \cup Permutations(Books)

(* States that differ only in data no step reads are one state: the order  *)
(* and `prev' that free() leaves behind in a slot, which allocate()        *)
(* overwrites, and the scratch buffers between two messages, which the     *)
(* next add or replace clears.                                             *)
View ==
  LET freeList == Chain(pool, pool.freeHead)
      freed    == {freeList[n] : n \in DOMAIN freeList}
  IN  <<[i \in Indices \ freed |-> pool.nodes[i]], freeList, orderBooks,
        orderMap, status, incoming,
        IF status = "matching" THEN <<removedRefs, executedOrders>> ELSE <<>>>>
=============================================================================
