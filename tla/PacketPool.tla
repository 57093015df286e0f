------------------------------ MODULE PacketPool -----------------------------
(***************************************************************************)
(* The packet buffers and their lock-free free list                        *)
(* (include/packet_pool.hpp), one step per access to shared memory, under  *)
(* the calls the two threads make: the network thread acquires a buffer,   *)
(* then pushes it on the ring or releases it; the matching thread pops a   *)
(* buffer from the ring and releases it.                                   *)
(*                                                                         *)
(* compare_exchange_weak may fail although the value is the expected one.  *)
(* It works on the latest freeHead; a first load that returns an older one *)
(* is a load made earlier, which the interleavings include.                *)
(***************************************************************************)
EXTENDS Integers, Sequences

CONSTANTS NumSlots, kPoolInvalid

ASSUME PoolAssumption == NumSlots \in Nat \ {0} /\ kPoolInvalid \notin Nat

VARIABLES freeHead, nextFree,
          owner,    \* "pool", "net", "ring" or "engine", for each slot
          pc,       \* where each thread is in acquire() or release()
          head,     \* its local `head'
          next,     \* the local `next' of acquire()
          idx       \* the argument of release()

vars == <<freeHead, nextFree, owner, pc, head, next, idx>>

SlotIdx == 0 .. NumSlots - 1
Link    == SlotIdx \cup {kPoolInvalid}
Threads == {"net", "engine"}

Owned(t) == {s \in SlotIdx : owner[s] = t}

preLinked == [s \in SlotIdx |-> IF s + 1 < NumSlots THEN s + 1 ELSE kPoolInvalid]

Init ==
  /\ nextFree = preLinked
  /\ freeHead = 0
  /\ owner = [s \in SlotIdx |-> "pool"]
  /\ pc = [t \in Threads |-> "idle"]
  /\ head = [t \in Threads |-> kPoolInvalid]
  /\ idx = [t \in Threads |-> kPoolInvalid]
  /\ next = kPoolInvalid

-----------------------------------------------------------------------------
(* Where acquire() goes with the head it has read: on to the link, or out  *)
(* with kPoolInvalid.                                                      *)
acquireLoop(h) ==
  /\ head' = [head EXCEPT !["net"] = h]
  /\ pc' = [pc EXCEPT !["net"] = IF h = kPoolInvalid THEN "idle" ELSE "readNext"]

acquireLoad ==
  /\ pc["net"] = "idle"
  /\ Owned("net") = {}
  /\ acquireLoop(freeHead)
  /\ UNCHANGED <<freeHead, nextFree, owner, next, idx>>

acquireReadNext ==
  /\ pc["net"] = "readNext"
  /\ next' = nextFree[head["net"]]
  /\ pc' = [pc EXCEPT !["net"] = "acquireCas"]
  /\ UNCHANGED <<freeHead, nextFree, owner, head, idx>>

acquireCas ==
  /\ pc["net"] = "acquireCas"
  /\ freeHead = head["net"]
  /\ freeHead' = next
  /\ owner' = [owner EXCEPT ![head["net"]] = "net"]
  /\ pc' = [pc EXCEPT !["net"] = "idle"]
  /\ UNCHANGED <<nextFree, head, next, idx>>

(* Mutant: the link of the new head is not read again.                     *)
acquireCasFailsKeepsNext ==
  /\ pc["net"] = "acquireCas"
  /\ head' = [head EXCEPT !["net"] = freeHead]
  /\ UNCHANGED <<freeHead, nextFree, owner, pc, next, idx>>

acquireCasFails ==
  /\ pc["net"] = "acquireCas"
  /\ acquireLoop(freeHead)
  /\ UNCHANGED <<freeHead, nextFree, owner, next, idx>>

-----------------------------------------------------------------------------
releaseLoad(t, s) ==
  /\ pc[t] = "idle"
  /\ s \in Owned(t)
  /\ idx' = [idx EXCEPT ![t] = s]
  /\ head' = [head EXCEPT ![t] = freeHead]
  /\ pc' = [pc EXCEPT ![t] = "link"]
  /\ UNCHANGED <<freeHead, nextFree, owner, next>>

releaseLink(t) ==
  /\ pc[t] = "link"
  /\ nextFree' = [nextFree EXCEPT ![idx[t]] = head[t]]
  /\ pc' = [pc EXCEPT ![t] = "releaseCas"]
  /\ UNCHANGED <<freeHead, owner, head, next, idx>>

(* Mutant: a plain store in place of the compare-exchange.                 *)
releaseStore(t) ==
  /\ pc[t] = "releaseCas"
  /\ freeHead' = idx[t]
  /\ owner' = [owner EXCEPT ![idx[t]] = "pool"]
  /\ pc' = [pc EXCEPT ![t] = "idle"]
  /\ UNCHANGED <<nextFree, head, next, idx>>

releaseCas(t) ==
  /\ pc[t] = "releaseCas"
  /\ freeHead = head[t]
  /\ freeHead' = idx[t]
  /\ owner' = [owner EXCEPT ![idx[t]] = "pool"]
  /\ pc' = [pc EXCEPT ![t] = "idle"]
  /\ UNCHANGED <<nextFree, head, next, idx>>

releaseCasFails(t) ==
  /\ pc[t] = "releaseCas"
  /\ head' = [head EXCEPT ![t] = freeHead]
  /\ pc' = [pc EXCEPT ![t] = "link"]
  /\ UNCHANGED <<freeHead, nextFree, owner, next, idx>>

-----------------------------------------------------------------------------
(* The buffer's way over the ring.                                         *)
pushSlot(s) ==
  /\ pc["net"] = "idle"
  /\ s \in Owned("net")
  /\ owner' = [owner EXCEPT ![s] = "ring"]
  /\ UNCHANGED <<freeHead, nextFree, pc, head, next, idx>>

popSlot(s) ==
  /\ pc["engine"] = "idle"
  /\ Owned("engine") = {}
  /\ s \in Owned("ring")
  /\ owner' = [owner EXCEPT ![s] = "engine"]
  /\ UNCHANGED <<freeHead, nextFree, pc, head, next, idx>>

Next ==
  \/ acquireLoad \/ acquireReadNext \/ acquireCas \/ acquireCasFails
  \/ \E t \in Threads : \/ \E s \in SlotIdx : releaseLoad(t, s)
                        \/ releaseLink(t)
                        \/ releaseCas(t)
                        \/ releaseCasFails(t)
  \/ \E s \in SlotIdx : pushSlot(s) \/ popSlot(s)

Spec == Init /\ [][Next]_vars

-----------------------------------------------------------------------------
(* Whenever the compare-exchange of acquire() could succeed, the link it   *)
(* would install is still that of the head.  This is what fails in a       *)
(* Treiber stack whose head can leave and return between the two (ABA);    *)
(* here only the network thread takes slots off.  The slot whose link it   *)
(* reads is in the pool all the while, so no thread writes that link.      *)
NextIsCurrent ==
  /\ pc["net"] = "acquireCas" /\ freeHead = head["net"] => next = nextFree[freeHead]
  /\ pc["net"] \in {"readNext", "acquireCas"} => owner[head["net"]] = "pool"

(* The free list read off the links, cut off where a cycle would repeat.   *)
FreeList ==
  LET walk[n \in 0 .. NumSlots, s \in Link] ==
        IF n = 0 \/ s = kPoolInvalid THEN <<>> ELSE <<s>> \o walk[n - 1, nextFree[s]]
  IN  walk[NumSlots, freeHead]

Stack == INSTANCE FreeStack
           WITH stack   <- FreeList,
                place   <- owner,
                Buffers <- SlotIdx,
                Places  <- {"net", "ring", "engine"},
                Free    <- "pool",
                InitialStack <- [n \in 1 .. NumSlots |-> n - 1]

(* The free list is a stack of the free slots: a slot is handed out only   *)
(* while it is free, and none is lost, however acquire() and the two       *)
(* release() loops interleave.                                             *)
ImplementsFreeStack == Stack!StackSpec
=============================================================================
