----------------------------- MODULE FlatHashMap -----------------------------
(***************************************************************************)
(* The open-addressing table from order references to order locations      *)
(* (include/flat_hash_map.hpp): linear probing, and Knuth's Algorithm R on *)
(* erase, one step per iteration of its second loop.                       *)
(*                                                                         *)
(* The capacity is a power of two, so `& mask' is % Capacity; keys are     *)
(* hashed by identity, as matching_engine.hpp instantiates the table.      *)
(* Nothing in the table limits the number of keys, and on a full table the *)
(* probe loops of insert and find do not end for an absent key.  The       *)
(* engine's table has four slots for each order of the largest feed seen   *)
(* (src/matching_engine.cpp:13); MaxLive is that assumption.               *)
(***************************************************************************)
EXTENDS Integers, FiniteSets

CONSTANTS Capacity, Keys, Values,
          EMPTY,       \* the key of an empty slot, which no order has
          NoValue,     \* V(), and the null pointer find returns
          MaxLive      \* bound on the number of keys in the table

ASSUME TableAssumption ==
  /\ Capacity \in Nat \ {0}
  /\ Keys \subseteq Nat /\ EMPTY \notin Keys
  /\ MaxLive \in Nat /\ MaxLive < Capacity

VARIABLES table,
          erasing, i, j    \* whether erase is in its second loop; its i and j

vars == <<table, erasing, i, j>>

Slots == 0 .. Capacity - 1

hash(k) == k % Capacity

Next1(s) == (s + 1) % Capacity

(* How far the slot t is behind the slot s, in the order of probing.       *)
Distance(s, t) == (t - s) % Capacity

Occupied == {s \in Slots : table[s].key # EMPTY}

Init ==
  /\ table = [s \in Slots |-> [key |-> EMPTY, value |-> NoValue]]
  /\ erasing = FALSE
  /\ i = 0 /\ j = 0

(* Where a probe for k stops: the first slot from its hash on that is      *)
(* empty or holds k.                                                       *)
stops(k) == {s \in Slots : table[s].key \in {EMPTY, k}}

probe(k) ==
  CHOOSE s \in stops(k) :
    \A t \in stops(k) : Distance(hash(k), s) <= Distance(hash(k), t)

find(k) ==
  IF table[probe(k)].key = k THEN table[probe(k)].value ELSE NoValue

(* Mutant: insert takes the first empty slot without looking for the key.  *)
insertFirstEmpty(k, v) ==
  /\ ~erasing
  /\ Cardinality(Occupied \ stops(k)) < MaxLive
  /\ \E s \in stops(EMPTY) :
       /\ \A t \in stops(EMPTY) : Distance(hash(k), s) <= Distance(hash(k), t)
       /\ table' = [table EXCEPT ![s] = [key |-> k, value |-> v]]
  /\ UNCHANGED <<erasing, i, j>>

insert(k, v) ==
  /\ ~erasing
  /\ Cardinality(Occupied \ stops(k)) < MaxLive
  /\ table' = [table EXCEPT ![probe(k)] = [key |-> k, value |-> v]]
  /\ UNCHANGED <<erasing, i, j>>

(* Mutant: the scan starts one further on, without the mask.               *)
erasePastEnd(k) ==
  /\ ~erasing
  /\ table[probe(k)].key = k
  /\ table' = [table EXCEPT ![probe(k)].key = EMPTY]
  /\ erasing' = TRUE
  /\ i' = probe(k)
  /\ j' = probe(k) + 1

(* The key is found and its slot emptied; an absent key changes nothing.   *)
erase(k) ==
  /\ ~erasing
  /\ table[probe(k)].key = k
  /\ table' = [table EXCEPT ![probe(k)].key = EMPTY]
  /\ erasing' = TRUE
  /\ i' = probe(k)
  /\ j' = probe(k)

(* Mutant: as canMove, with the ends of the interval mixed up.             *)
canMoveOffByOne(s) == Distance(hash(table[s].key), s) > Distance(i, s)

(* The entry at s may fill the hole at i: its hash is not in (i, s].       *)
canMove(s) == Distance(hash(table[s].key), s) >= Distance(i, s)

(* Mutant: the scan stops at the first entry that cannot move.             *)
shiftStopsEarly ==
  LET s == Next1(j)
  IN  /\ erasing
      /\ j' = s
      /\ IF table[s].key = EMPTY \/ ~canMove(s)
         THEN erasing' = FALSE /\ UNCHANGED <<table, i>>
         ELSE /\ table' = [table EXCEPT ![i] = table[s], ![s].key = EMPTY]
              /\ i' = s
              /\ UNCHANGED erasing

(* Mutant: the key moves and its value stays behind.                       *)
shiftKeyOnly ==
  LET s == Next1(j)
  IN  /\ erasing
      /\ j' = s
      /\ CASE table[s].key = EMPTY -> erasing' = FALSE /\ UNCHANGED <<table, i>>
           [] table[s].key # EMPTY /\ canMove(s) ->
                /\ table' = [table EXCEPT ![i].key = table[s].key, ![s].key = EMPTY]
                /\ i' = s
                /\ UNCHANGED erasing
           [] OTHER -> UNCHANGED <<table, erasing, i>>

(* Mutant: an entry that cannot move sends the scan back to the hole.      *)
shiftRestarts ==
  LET s == Next1(j)
  IN  /\ erasing
      /\ CASE table[s].key = EMPTY -> erasing' = FALSE /\ j' = s /\ UNCHANGED <<table, i>>
           [] table[s].key # EMPTY /\ canMove(s) ->
                /\ table' = [table EXCEPT ![i] = table[s], ![s].key = EMPTY]
                /\ i' = s /\ j' = s
                /\ UNCHANGED erasing
           [] OTHER -> j' = i /\ UNCHANGED <<table, erasing, i>>

(* One iteration: the scan ends at an empty slot; an entry that may move   *)
(* fills the hole and leaves one behind.                                   *)
shift ==
  LET s == Next1(j)
  IN  /\ erasing
      /\ j' = s
      /\ CASE table[s].key = EMPTY -> erasing' = FALSE /\ UNCHANGED <<table, i>>
           [] table[s].key # EMPTY /\ canMove(s) ->
                /\ table' = [table EXCEPT ![i] = table[s], ![s].key = EMPTY]
                /\ i' = s
                /\ UNCHANGED erasing
           [] OTHER -> UNCHANGED <<table, erasing, i>>

Next ==
  \/ \E k \in Keys : erase(k) \/ \E v \in Values : insert(k, v)
  \/ shift

Spec == Init /\ [][Next]_vars

FairSpec == Spec /\ WF_vars(shift)

-----------------------------------------------------------------------------
TypeOK ==
  /\ table \in [Slots -> [key : Keys \cup {EMPTY}, value : Values \cup {NoValue}]]
  /\ erasing \in BOOLEAN
  /\ i \in Slots /\ j \in Slots

(* The slots a probe passes from s up to, not including, t.                *)
Passed(s, t) == {(s + d) % Capacity : d \in 0 .. Distance(s, t) - 1}

(* A probe for a key in the table meets no empty slot before it.  While    *)
(* erase runs, the one exception is the hole at i, and only for entries    *)
(* that the scan has yet to reach.                                         *)
ProbesReachTheirKeys ==
  \A s \in Occupied : \A t \in Passed(hash(table[s].key), s) :
    table[t].key = EMPTY => erasing /\ t = i /\ Distance(i, s) > Distance(i, j)

NoKeyTwice == \A s, t \in Occupied : table[s].key = table[t].key => s = t

(* The pairs of a key and its value that the table holds.                  *)
Contents == {<<table[s].key, table[s].value>> : s \in Occupied}

(* Between calls, find(k) returns the value stored under k, and nothing if *)
(* k is not in the table.                                                  *)
FindsWhatIsThere ==
  ~erasing => \A k \in Keys :
    IF \E s \in Slots : table[s].key = k
    THEN <<k, find(k)>> \in Contents
    ELSE find(k) = NoValue

(* The table is a map: insert adds or replaces one pair, erase takes one   *)
(* key out, and moving entries about changes nothing.                      *)
IsAMap ==
  [][/\ \A k \in Keys, v \in Values :
          insert(k, v) => Contents' = {c \in Contents : c[1] # k} \cup {<<k, v>>}
     /\ \A k \in Keys : erase(k) => Contents' = {c \in Contents : c[1] # k}
     /\ shift => Contents' = Contents]_vars

(* erase returns: the scan meets an empty slot, at the latest its own hole *)
EraseEnds == erasing ~> ~erasing
=============================================================================
