------------------------------- MODULE SpscRing ------------------------------
(***************************************************************************)
(* The lock-free ring between the network thread and the matching thread   *)
(* (include/spsc_ring.hpp), one step per access to shared memory.          *)
(*                                                                         *)
(* head and tail are atomics with one writer each.  A thread reads its own *)
(* one exactly.  The acquire load of the other's may return any value that *)
(* one has had since the last value this thread saw: a store becomes       *)
(* visible late, but never out of order.  What was written to `buffer'     *)
(* before a release store is visible to the thread whose acquire load      *)
(* returns it; an access to a slot not ordered in this way would be a data *)
(* race, which NoRace excludes.                                            *)
(*                                                                         *)
(* The capacity is a power of two, so `& mask' is % Capacity.              *)
(***************************************************************************)
EXTENDS Integers, Sequences

CONSTANTS Capacity, Values, NoValue

ASSUME CapacityAssumption == Capacity \in Nat \ {0}

VARIABLES head, tail, buffer,
          pushPc,      \* where push() is: "idle", "write", "publish"
          value,       \* its argument
          headSeen,    \* the last head the producer loaded
          popPc,       \* where pop() is: "idle", "read", "advance"
          out,         \* its result
          tailSeen,    \* the last tail the consumer loaded
          returned     \* what the last successful pop() returned

producerVars == <<tail, pushPc, value, headSeen>>
consumerVars == <<head, popPc, out, tailSeen, returned>>
vars == <<producerVars, consumerVars, buffer>>

Index == 0 .. Capacity - 1

(* Mutant: the position does not wrap around.                              *)
SuccUnwrapped(i) == i + 1

Succ(i) == (i + 1) % Capacity

(* The positions from i up to j.                                           *)
UpTo(i, j) == {(i + d) % Capacity : d \in 0 .. (j - i) % Capacity}

Init ==
  /\ head = 0 /\ tail = 0
  /\ buffer = [i \in Index |-> NoValue]
  /\ pushPc = "idle" /\ value = NoValue /\ headSeen = 0
  /\ popPc = "idle" /\ out = NoValue /\ tailSeen = 0
  /\ returned = NoValue

(* Mutant: a ring that may be filled to the last slot.                     *)
pushCheckNoOpenSlot(v) ==
  /\ pushPc = "idle"
  /\ headSeen' \in UpTo(headSeen, head)
  /\ pushPc' = "write"
  /\ value' = v
  /\ UNCHANGED <<tail, buffer, consumerVars>>

(* The load of head.  push() returns false if the ring looks full.         *)
pushCheck(v) ==
  /\ pushPc = "idle"
  /\ headSeen' \in UpTo(headSeen, head)
  /\ IF Succ(tail) = headSeen'
     THEN UNCHANGED <<pushPc, value>>
     ELSE pushPc' = "write" /\ value' = v
  /\ UNCHANGED <<tail, buffer, consumerVars>>

pushWrite ==
  /\ pushPc = "write"
  /\ buffer' = [buffer EXCEPT ![tail] = value]
  /\ pushPc' = "publish"
  /\ UNCHANGED <<tail, value, headSeen, consumerVars>>

pushPublish ==
  /\ pushPc = "publish"
  /\ tail' = Succ(tail)
  /\ pushPc' = "idle"
  /\ value' = NoValue
  /\ UNCHANGED <<headSeen, buffer, consumerVars>>

(* Mutant: pop() does not test for an empty ring.                          *)
popCheckNothing ==
  /\ popPc = "idle"
  /\ tailSeen' \in UpTo(tailSeen, tail)
  /\ popPc' = "read"
  /\ UNCHANGED <<head, out, returned, buffer, producerVars>>

(* The load of tail.  pop() returns false if the ring looks empty.         *)
popCheck ==
  /\ popPc = "idle"
  /\ tailSeen' \in UpTo(tailSeen, tail)
  /\ popPc' = IF head = tailSeen' THEN "idle" ELSE "read"
  /\ UNCHANGED <<head, out, returned, buffer, producerVars>>

popRead ==
  /\ popPc = "read"
  /\ out' = buffer[head]
  /\ popPc' = "advance"
  /\ UNCHANGED <<head, tailSeen, returned, buffer, producerVars>>

popAdvance ==
  /\ popPc = "advance"
  /\ head' = Succ(head)
  /\ returned' = out
  /\ out' = NoValue
  /\ popPc' = "idle"
  /\ UNCHANGED <<tailSeen, buffer, producerVars>>

Next ==
  \/ \E v \in Values : pushCheck(v)
  \/ pushWrite
  \/ pushPublish
  \/ popCheck
  \/ popRead
  \/ popAdvance

Spec == Init /\ [][Next]_vars

-----------------------------------------------------------------------------
TypeOK ==
  /\ head \in Index /\ tail \in Index
  /\ headSeen \in Index /\ tailSeen \in Index
  /\ buffer \in [Index -> Values \cup {NoValue}]
  /\ pushPc \in {"idle", "write", "publish"}
  /\ popPc \in {"idle", "read", "advance"}
  /\ value \in Values \cup {NoValue}
  /\ out \in Values \cup {NoValue}
  /\ returned \in Values \cup {NoValue}

(* The producer never writes the slot that the consumer is reading: the    *)
(* slot kept open, and the order of the loads and stores in push and pop,  *)
(* keep the two apart however late each sees the other.                    *)
NoRace == ~(pushPc = "write" /\ popPc = "read" /\ tail = head)

Size == (tail - head) % Capacity

Fifo == INSTANCE BoundedFifo
          WITH queue  <- [n \in 1 .. Size |-> buffer[(head + n - 1) % Capacity]],
               popped <- returned,
               Limit  <- Capacity - 1

(* The ring is a bounded queue: every value pushed is popped once, in      *)
(* order, and never more than Capacity - 1 are inside.                     *)
ImplementsFifo == Fifo!FifoSpec
=============================================================================
