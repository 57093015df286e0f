-------------------------- MODULE PacketPoolProofs ---------------------------
(***************************************************************************)
(* The compare-exchange of acquire() never installs a link that is not the *)
(* head's any more.                                                        *)
(***************************************************************************)
EXTENDS PacketPool, TLAPS

PoolTyped ==
  /\ freeHead \in Link
  /\ nextFree \in [SlotIdx -> Link]
  /\ owner \in [SlotIdx -> {"pool", "net", "ring", "engine"}]
  /\ pc \in [Threads -> {"idle", "readNext", "acquireCas", "link", "releaseCas"}]
  /\ head \in [Threads -> Link]
  /\ next \in Link
  /\ idx \in [Threads -> Link]
  /\ pc["engine"] \notin {"readNext", "acquireCas"}

InPool(s) == s \in SlotIdx /\ owner[s] = "pool"

(* The links of the free slots: the head is free, a free slot leads to a   *)
(* free slot that is not the head, and no two lead to the same.            *)
Linked ==
  /\ freeHead # kPoolInvalid => InPool(freeHead)
  /\ \A s \in Owned("pool") : nextFree[s] # kPoolInvalid =>
       /\ InPool(nextFree[s])
       /\ nextFree[s] # freeHead
       /\ \A r \in Owned("pool") : nextFree[r] = nextFree[s] => r = s

(* A thread that releases a slot owns it until the exchange.               *)
Releasing ==
  \A t \in Threads :
    /\ pc[t] \in {"link", "releaseCas"} => idx[t] \in SlotIdx /\ owner[idx[t]] = t
    /\ pc[t] = "releaseCas" => nextFree[idx[t]] = head[t]

(* The network thread's head stays in the pool, and its link as read.      *)
Acquiring ==
  /\ pc["net"] \in {"readNext", "acquireCas"} => InPool(head["net"])
  /\ pc["net"] = "acquireCas" => next = nextFree[head["net"]]

PoolInv == PoolTyped /\ Linked /\ Releasing /\ Acquiring

LEMMA PoolInit == Init => PoolInv
<1> SUFFICES ASSUME Init PROVE PoolInv
  OBVIOUS
<1> USE PoolAssumption DEF Init, Link, SlotIdx, Threads
<1>1. /\ nextFree \in [SlotIdx -> Link]
      /\ \A s \in SlotIdx : nextFree[s] = IF s + 1 < NumSlots THEN s + 1 ELSE kPoolInvalid
  BY DEF preLinked
<1>2. PoolTyped
  BY <1>1 DEF PoolTyped
<1>3. freeHead = 0 /\ \A s \in SlotIdx : InPool(s)
  BY DEF InPool
<1>4. Linked
  BY <1>1, <1>3 DEF Linked, Owned, InPool
<1> QED
  BY <1>2, <1>4 DEF PoolInv, Releasing, Acquiring

(* Only the network thread's own exchange takes its head from the pool.    *)
LEMMA PoolAcquire ==
  ASSUME PoolInv, acquireLoad \/ acquireReadNext \/ acquireCasFails
  PROVE  PoolInv'
<1>1. /\ UNCHANGED <<freeHead, nextFree, owner, idx>>
      /\ pc'["engine"] = pc["engine"] /\ head'["engine"] = head["engine"]
      /\ pc' \in [Threads -> {"idle", "readNext", "acquireCas", "link", "releaseCas"}]
      /\ head' \in [Threads -> Link] /\ next' \in Link
      /\ pc'["net"] \notin {"link", "releaseCas"}
  BY DEF PoolInv, PoolTyped, Acquiring, InPool, Threads,
         acquireLoad, acquireReadNext, acquireCasFails, acquireLoop
<1>2. PoolTyped'
  BY <1>1 DEF PoolInv, PoolTyped
<1>3. Linked'
  BY <1>1 DEF PoolInv, Linked, Owned, InPool
<1>4. Releasing'
  BY <1>1 DEF PoolInv, Releasing, Threads
<1>5. Acquiring'
  BY DEF PoolInv, PoolTyped, Linked, Acquiring, InPool, Threads,
         acquireLoad, acquireReadNext, acquireCasFails, acquireLoop
<1> QED
  BY <1>2, <1>3, <1>4, <1>5 DEF PoolInv

LEMMA PoolTake == PoolInv /\ acquireCas => PoolInv'
<1> SUFFICES ASSUME PoolInv, acquireCas PROVE PoolInv'
  OBVIOUS
<1>1. /\ freeHead = head["net"] /\ InPool(freeHead) /\ next = nextFree[freeHead]
      /\ freeHead' = next /\ next \in Link
      /\ owner' = [owner EXCEPT ![freeHead] = "net"]
      /\ pc' = [pc EXCEPT !["net"] = "idle"]
      /\ UNCHANGED <<nextFree, head, next, idx>>
  BY DEF acquireCas, PoolInv, PoolTyped, Acquiring
<1>2. /\ owner'[freeHead] = "net" /\ \A s \in SlotIdx : s # freeHead => owner'[s] = owner[s]
      /\ owner' \in [SlotIdx -> {"pool", "net", "ring", "engine"}]
  BY <1>1 DEF PoolInv, PoolTyped, InPool
<1>3. PoolTyped'
  BY <1>1, <1>2 DEF PoolInv, PoolTyped, Threads
<1>4. Owned("pool")' = Owned("pool") \ {freeHead}
  BY <1>1, <1>2 DEF Owned, InPool
<1>5. Linked'
  BY <1>1, <1>2, <1>4 DEF PoolInv, Linked, Owned, InPool
<1>6. Releasing'
  BY <1>1, <1>2 DEF PoolInv, PoolTyped, Releasing, Threads, InPool
<1> QED
  BY <1>1, <1>3, <1>5, <1>6 DEF PoolInv, PoolTyped, Acquiring, Threads

LEMMA PoolRelease ==
  ASSUME PoolInv, NEW t \in Threads,
         (\E s \in SlotIdx : releaseLoad(t, s)) \/ releaseCasFails(t)
  PROVE  PoolInv'
<1>1. /\ UNCHANGED <<freeHead, nextFree, owner, next>>
      /\ pc' = [pc EXCEPT ![t] = "link"] /\ head' = [head EXCEPT ![t] = freeHead]
      /\ idx' \in [Threads -> Link] /\ idx'[t] \in SlotIdx /\ owner[idx'[t]] = t
      /\ \A u \in Threads \ {t} : idx'[u] = idx[u]
  BY DEF releaseLoad, releaseCasFails, PoolInv, PoolTyped, Releasing, Owned, Link
<1>2. PoolTyped'
  BY <1>1 DEF PoolInv, PoolTyped, Threads
<1>3. Linked'
  BY <1>1 DEF PoolInv, Linked, Owned, InPool
<1>4. Releasing'
  BY <1>1 DEF PoolInv, PoolTyped, Releasing, Threads
<1>5. Acquiring'
  BY <1>1 DEF PoolInv, PoolTyped, Acquiring, Threads, InPool
<1> QED
  BY <1>2, <1>3, <1>4, <1>5 DEF PoolInv

(* The link that is written is that of a slot outside the pool.            *)
LEMMA PoolLink ==
  ASSUME PoolInv, NEW t \in Threads, releaseLink(t)
  PROVE  PoolInv'
<1>1. /\ UNCHANGED <<freeHead, owner, head, next, idx>>
      /\ pc' = [pc EXCEPT ![t] = "releaseCas"]
      /\ nextFree' = [nextFree EXCEPT ![idx[t]] = head[t]]
      /\ idx[t] \in SlotIdx /\ owner[idx[t]] = t /\ head[t] \in Link
  BY DEF releaseLink, PoolInv, PoolTyped, Releasing
<1>2. /\ nextFree' \in [SlotIdx -> Link] /\ nextFree'[idx[t]] = head[t]
      /\ \A s \in SlotIdx : s # idx[t] => nextFree'[s] = nextFree[s]
  BY <1>1 DEF PoolInv, PoolTyped
<1>3. t # "pool"
  BY DEF Threads
<1>4. PoolTyped'
  BY <1>1, <1>2 DEF PoolInv, PoolTyped, Threads
<1>5. Linked'
  BY <1>1, <1>2, <1>3 DEF PoolInv, Linked, Owned, InPool
<1>6. Releasing'
  BY <1>1, <1>2 DEF PoolInv, PoolTyped, Releasing, Threads
<1>7. Acquiring'
  BY <1>1, <1>2, <1>3 DEF PoolInv, PoolTyped, Acquiring, Threads, InPool
<1> QED
  BY <1>4, <1>5, <1>6, <1>7 DEF PoolInv

LEMMA PoolGive ==
  ASSUME PoolInv, NEW t \in Threads, releaseCas(t)
  PROVE  PoolInv'
<1> DEFINE i == idx[t]
<1>1. /\ UNCHANGED <<nextFree, head, next, idx>>
      /\ pc' = [pc EXCEPT ![t] = "idle"]
      /\ freeHead' = i /\ owner' = [owner EXCEPT ![i] = "pool"]
      /\ i \in SlotIdx /\ owner[i] = t /\ nextFree[i] = freeHead /\ t # "pool"
  BY DEF releaseCas, PoolInv, PoolTyped, Releasing, Threads
<1>2. /\ owner'[i] = "pool" /\ \A s \in SlotIdx : s # i => owner'[s] = owner[s]
      /\ owner' \in [SlotIdx -> {"pool", "net", "ring", "engine"}]
  BY <1>1 DEF PoolInv, PoolTyped
<1>3. PoolTyped'
  BY <1>1, <1>2 DEF PoolInv, PoolTyped, Threads, Link
<1>4. Owned("pool")' = Owned("pool") \cup {i}
  BY <1>1, <1>2 DEF Owned
<1> HIDE DEF i
<1>5. Linked'
  BY <1>1, <1>2, <1>4 DEF PoolInv, Linked, Owned, InPool
<1>6. Releasing'
  BY <1>1, <1>2 DEF PoolInv, PoolTyped, Releasing, Threads, i
<1>7. Acquiring'
  BY <1>1, <1>2 DEF PoolInv, PoolTyped, Acquiring, Threads, InPool
<1> QED
  BY <1>3, <1>5, <1>6, <1>7 DEF PoolInv

(* A slot that is not in the pool and not being released changes hands.    *)
LEMMA PoolMove ==
  ASSUME PoolInv, NEW s \in SlotIdx, pushSlot(s) \/ popSlot(s)
  PROVE  PoolInv'
<1>1. /\ UNCHANGED <<freeHead, nextFree, pc, head, next, idx>>
      /\ owner[s] # "pool" /\ owner'[s] # "pool"
      /\ \A r \in SlotIdx : r # s => owner'[r] = owner[r]
      /\ owner' \in [SlotIdx -> {"pool", "net", "ring", "engine"}]
      /\ owner[s] \in Threads => pc[owner[s]] = "idle"
  BY DEF pushSlot, popSlot, Owned, PoolInv, PoolTyped, Threads
<1>2. Owned("pool")' = Owned("pool")
  BY <1>1 DEF Owned
<1>3. PoolTyped'
  BY <1>1 DEF PoolInv, PoolTyped
<1>4. Linked'
  BY <1>1, <1>2 DEF PoolInv, Linked, InPool
<1>5. Releasing'
  BY <1>1 DEF PoolInv, Releasing, Threads
<1>6. Acquiring'
  BY <1>1 DEF PoolInv, Acquiring, InPool
<1> QED
  BY <1>3, <1>4, <1>5, <1>6 DEF PoolInv

LEMMA PoolNext == PoolInv /\ [Next]_vars => PoolInv'
<1> SUFFICES ASSUME PoolInv, [Next]_vars PROVE PoolInv'
  OBVIOUS
<1>1. CASE UNCHANGED vars
  BY <1>1 DEF vars, PoolInv, PoolTyped, Linked, Releasing, Acquiring, Owned, InPool
<1>2. CASE Next
  BY <1>2, PoolAcquire, PoolTake, PoolRelease, PoolLink, PoolGive, PoolMove DEF Next
<1> QED
  BY <1>1, <1>2

(* For every number of slots, acquire() never installs a link that is out  *)
(* of date and never reads one of a slot that is not free, however it      *)
(* interleaves with the release() of either thread: the free list has no   *)
(* ABA problem.                                                            *)
THEOREM NoAba == Spec => []NextIsCurrent
<1>1. PoolInv => NextIsCurrent
  BY DEF PoolInv, Acquiring, NextIsCurrent, InPool
<1> QED
  BY <1>1, PoolInit, PoolNext, PTL DEF Spec
=============================================================================
