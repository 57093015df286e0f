--------------------------- MODULE LiveFeedProofs ---------------------------
(***************************************************************************)
(* With more buffers than ring slots neither handler ever runs out of      *)
(* buffers: at most RingSlots - 1 are on the ring and one is with the      *)
(* matching thread.  When a run ends, nothing is left on the ring.         *)
(* Messages are processed in the order of their numbers, none twice.  The  *)
(* invariant of the last argument needs to know where the buffers are; the *)
(* one on buffers is PlaceInv.                                             *)
(***************************************************************************)
EXTENDS LiveFeed, TLAPS

NetHolds    == netPc \in {"recv", "push"}
EngineHolds == enginePc \in {"process", "release"}

(* The sentinel is on the ring, or the thread has returned without one.    *)
NetEnded == netPc = "done" \/ done

(* The buffers are all accounted for until the network thread ends, which  *)
(* is when the sentinel goes on the ring.                                  *)
BuffersCounted ==
  /\ poolSlots \in Nat
  /\ pool \in Seq(SlotIdx)
  /\ ring \in Seq(SlotIdx \cup {kPoolInvalid})
  /\ NetHolds => netSlot \in SlotIdx
  /\ EngineHolds => engineSlot \in SlotIdx
  /\ Len(ring) <= RingSlots - 1
  /\ done \in BOOLEAN
  /\ done => useXdp /\ netPc \in {"release", "refill", "peek", "done"}
  /\ ~NetEnded =>
       /\ ring \in Seq(SlotIdx)
       /\ Len(pool) + Len(ring) + (IF NetHolds THEN 1 ELSE 0)
            + (IF EngineHolds THEN 1 ELSE 0) = poolSlots

(* What a step of either thread does to the lengths of the two sequences.  *)
LEMMA Lengths ==
  ASSUME NEW S, NEW q \in Seq(S)
  PROVE  /\ Len(q) \in Nat
         /\ q = <<>> <=> Len(q) = 0
         /\ q # <<>> => /\ Head(q) \in S
                        /\ Tail(q) \in Seq(S)
                        /\ Len(Tail(q)) = Len(q) - 1
         /\ \A x \in S : /\ <<x>> \o q \in Seq(S)
                         /\ Len(<<x>> \o q) = Len(q) + 1
                         /\ Append(q, x) \in Seq(S)
                         /\ Len(Append(q, x)) = Len(q) + 1
OBVIOUS

(* The buffers stay the same.                                              *)
LEMMA SameSlots == UNCHANGED poolSlots => SlotIdx' = SlotIdx
BY Zenon DEF SlotIdx

(* The counts are right at the start.                                      *)
LEMMA CountedInit == Init => BuffersCounted
<1> SUFFICES ASSUME Init PROVE BuffersCounted
  BY Zenon
<1>1. poolSlots \in Nat /\ pool \in Seq(SlotIdx) /\ Len(pool) = poolSlots
  <2>1. poolSlots \in Nat /\ pool = [n \in 1 .. poolSlots |-> n - 1]
    BY Zenon, FeedAssumption DEF Init, LoopInit
  <2> QED
    BY <2>1 DEF SlotIdx
<1>2. ring = <<>> /\ ring \in Seq(SlotIdx) /\ Len(ring) = 0
  BY DEF Init, LoopInit
<1>3. ring \in Seq(SlotIdx \cup {kPoolInvalid})
  BY <1>2
<1>4. netPc = "setup" /\ enginePc = "pop" /\ done = FALSE
  BY Zenon DEF Init, LoopInit, XdpInit
<1>5. ~NetHolds /\ ~EngineHolds /\ Len(ring) <= RingSlots - 1 /\ ~done
  BY <1>2, <1>4, FeedAssumption DEF NetHolds, EngineHolds
<1>6. Len(pool) + Len(ring) + (IF NetHolds THEN 1 ELSE 0)
        + (IF EngineHolds THEN 1 ELSE 0) = poolSlots
  BY <1>1, <1>2, <1>5
<1> QED
  BY Zenon, <1>1, <1>2, <1>3, <1>4, <1>5, <1>6 DEF BuffersCounted

(* The network thread gives its buffer back.                               *)
LEMMA CountedRelease ==
  ASSUME BuffersCounted, NetHolds, releaseNetSlot,
         netPc' \notin {"recv", "push"}, UNCHANGED <<ring, enginePc, engineSlot, poolSlots, done, useXdp>>
  PROVE  BuffersCounted'
<1>1. pool' \in Seq(SlotIdx) /\ Len(pool') = Len(pool) + 1 /\ Len(pool) \in Nat
  BY Lengths DEF BuffersCounted, releaseNetSlot
<1>2. Len(ring) \in Nat
  BY Zenon, Lengths DEF BuffersCounted
<1> QED
  BY SameSlots, <1>1, <1>2, FeedAssumption DEF BuffersCounted, NetHolds, EngineHolds, NetEnded

(* The network thread takes a buffer off the pool.                         *)
LEMMA CountedTake ==
  ASSUME BuffersCounted, netPc \in {"acquire", "copy"}, pool # <<>>,
         netSlot' = Head(pool), pool' = Tail(pool), netPc' \in {"recv", "push"},
         UNCHANGED <<ring, enginePc, engineSlot, poolSlots, done, useXdp>>
  PROVE  BuffersCounted'
<1>1. /\ Len(pool) \in Nat /\ Len(ring) \in Nat
      /\ netSlot' \in SlotIdx /\ pool' \in Seq(SlotIdx)
      /\ Len(pool') = Len(pool) - 1
  BY Zenon, Lengths DEF BuffersCounted
<1> QED
  BY SameSlots, <1>1 DEF BuffersCounted, NetHolds, EngineHolds, NetEnded

(* pushOrDrop, in either handler.                                          *)
LEMMA CountedPush ==
  ASSUME BuffersCounted, netPc = "push", pushOrDrop,
         netPc' \notin {"recv", "push"},
         UNCHANGED <<enginePc, engineSlot, poolSlots, done, useXdp>>
  PROVE  BuffersCounted'
<1>1. CASE ringFull
  BY Zenon, <1>1, CountedRelease DEF pushOrDrop, NetHolds
<1>2. CASE ~ringFull
  <2>0. Len(pool) \in Nat /\ Len(ring) \in Nat
    BY Zenon, Lengths DEF BuffersCounted
  <2>1. netSlot \in SlotIdx /\ ring \in Seq(SlotIdx) /\ ring' = Append(ring, netSlot)
    BY Zenon, SameSlots, <1>2 DEF pushOrDrop, BuffersCounted, NetHolds, NetEnded
  <2>2. /\ ring' \in Seq(SlotIdx) /\ Len(ring') = Len(ring) + 1
        /\ ring' \in Seq(SlotIdx \cup {kPoolInvalid})
    BY <2>1, Lengths
  <2> QED
    BY SameSlots, <1>2, <2>0, <2>2, FeedAssumption
    DEF pushOrDrop, ringFull, BuffersCounted, NetHolds, EngineHolds, NetEnded
<1> QED
  BY Zenon, <1>1, <1>2

(* pushSentinel, in either handler, after which the thread is ending.      *)
LEMMA CountedSentinel ==
  ASSUME BuffersCounted, netPc = "pushEnd", pushSentinel,
         \/ netPc' = "done" /\ UNCHANGED done
         \/ netPc' = "release" /\ done' = TRUE /\ useXdp,
         UNCHANGED <<pool, netSlot, enginePc, engineSlot, poolSlots, useXdp>>
  PROVE  BuffersCounted'
<1>1. ring' \in Seq(SlotIdx \cup {kPoolInvalid}) /\ Len(ring') <= RingSlots - 1
  <2>1. Len(ring) \in Nat
    BY Zenon, Lengths DEF BuffersCounted
  <2>2. CASE ringFull
    BY Zenon, <2>2 DEF pushSentinel, BuffersCounted
  <2>3. CASE ~ringFull
    <3>1. ring \in Seq(SlotIdx \cup {kPoolInvalid}) /\ ring' = Append(ring, kPoolInvalid)
      BY Zenon, <2>3 DEF pushSentinel, BuffersCounted
    <3>2. ring' \in Seq(SlotIdx \cup {kPoolInvalid}) /\ Len(ring') = Len(ring) + 1
      BY <3>1, Lengths
    <3> QED
      BY <2>1, <2>3, <3>2, FeedAssumption DEF ringFull
  <2> QED
    BY Zenon, <2>2, <2>3
<1>2. ~NetHolds' /\ NetEnded' /\ done' \in BOOLEAN
  BY Zenon DEF NetHolds, NetEnded, BuffersCounted
<1>3. done' => useXdp' /\ netPc' \in {"release", "refill", "peek", "done"}
  BY Zenon DEF BuffersCounted
<1>4. EngineHolds' => engineSlot' \in SlotIdx
  BY Zenon DEF EngineHolds, BuffersCounted
<1> QED
  BY Zenon, <1>1, <1>2, <1>3, <1>4, SameSlots DEF BuffersCounted

(* A step of the UDP handler.                                              *)
LEMMA CountedUdp ==
  ASSUME BuffersCounted, ~useXdp, udpStep \/ udpReceive, UNCHANGED <<xdpVars, useXdp>>
  PROVE  BuffersCounted'
<1> USE DEF setupVars, engineVars, xdpVars, batchVars
<1>1. CASE setup
  BY Zenon, SameSlots, <1>1 DEF setup, BuffersCounted, NetHolds, EngineHolds, NetEnded
<1>2. CASE acquire
  <2>1. CASE stop \/ pool = <<>>
    BY Zenon, SameSlots, <1>2, <2>1 DEF acquire, BuffersCounted, NetHolds, EngineHolds, NetEnded
  <2>2. CASE ~stop /\ pool # <<>>
    BY Zenon, <1>2, <2>2, CountedTake DEF acquire
  <2> QED
    BY Zenon, <2>1, <2>2
<1>3. CASE recvNothing
  BY Zenon, <1>3, CountedRelease DEF recvNothing, NetHolds
<1>4. CASE recvScratch \/ recvScratchNothing
  BY Zenon, SameSlots, <1>4 DEF recvScratch, recvScratchNothing, BuffersCounted, NetHolds, EngineHolds,
              NetEnded
<1>5. CASE push
  BY Zenon, <1>5, CountedPush DEF push
<1>6. CASE pushEnd
  BY Zenon, <1>6, CountedSentinel DEF pushEnd
<1>7. ASSUME NEW p \in sent, recv(p) PROVE BuffersCounted'
  <2>1. CASE isData(p)
    BY Zenon, SameSlots, <1>7, <2>1 DEF recv, BuffersCounted, NetHolds, EngineHolds, NetEnded
  <2>2. CASE ~isData(p)
    BY Zenon, <1>7, <2>2, CountedRelease DEF recv, NetHolds
  <2> QED
    BY Zenon, <2>1, <2>2
<1> QED
  BY Zenon, <1>1, <1>2, <1>3, <1>4, <1>5, <1>6, <1>7 DEF udpStep, udpReceive

(* A step of the AF_XDP handler, or of the kernel.                         *)
LEMMA CountedXdp ==
  ASSUME BuffersCounted, useXdp, UNCHANGED useXdp,
         xdpStep \/ xdpSetup \/ \E p \in sent \cup {OtherFrame} : arrive(p)
  PROVE  BuffersCounted'
<1> USE DEF setupVars, engineVars, kernelVars, batchVars
<1>1. CASE xdpSetup
  BY Zenon, SameSlots, <1>1 DEF xdpSetup, BuffersCounted, NetHolds, EngineHolds, NetEnded
<1>2. ASSUME NEW p, arrive(p) PROVE BuffersCounted'
  BY Zenon, SameSlots, <1>2 DEF arrive, loopVars, netVars, BuffersCounted, NetHolds, EngineHolds, NetEnded
<1>3. CASE peek
  BY Zenon, SameSlots, <1>3 DEF peek, BuffersCounted, NetHolds, EngineHolds, NetEnded
<1>4. CASE frame
  <2>1. netPc = "frame" /\ netPc' \in {"release", "frame", "pushEnd", "copy"}
    BY Zenon, <1>4 DEF frame, nextFrame
  <2>2. UNCHANGED <<poolSlots, pool, ring, netSlot, enginePc, engineSlot, done>>
    BY Zenon, <1>4 DEF frame
  <2> QED
    BY Zenon, SameSlots, <2>1, <2>2 DEF BuffersCounted, NetHolds, EngineHolds, NetEnded
<1>5. CASE copy
  <2>1. CASE pool = <<>>
    BY Zenon, SameSlots, <1>5, <2>1 DEF copy, nextFrame, BuffersCounted, NetHolds, EngineHolds, NetEnded
  <2>2. CASE pool # <<>>
    BY Zenon, <1>5, <2>2, CountedTake DEF copy
  <2> QED
    BY Zenon, <2>1, <2>2
<1>6. CASE xdpPush
  BY Zenon, <1>6, CountedPush DEF xdpPush, nextFrame
<1>7. CASE xdpPushEnd
  BY Zenon, <1>7, CountedSentinel DEF xdpPushEnd
<1>8. CASE releaseRx \/ refill
  BY Zenon, SameSlots, <1>8 DEF releaseRx, refill, BuffersCounted, NetHolds, EngineHolds, NetEnded
<1> QED
  BY Zenon, <1>1, <1>2, <1>3, <1>4, <1>5, <1>6, <1>7, <1>8 DEF xdpStep

(* A step of the matching thread.                                          *)
LEMMA CountedEngine ==
  ASSUME BuffersCounted, engineStep \/ spin, UNCHANGED <<xdpVars, useXdp>>
  PROVE  BuffersCounted'
<1> USE FeedAssumption, SameSlots DEF NetHolds, EngineHolds, NetEnded, netVars, setupVars,
                           xdpVars, batchVars
<1>0. Len(pool) \in Nat /\ Len(ring) \in Nat
  BY Zenon, Lengths DEF BuffersCounted
<1>1. ring # <<>> => /\ Tail(ring) \in Seq(SlotIdx \cup {kPoolInvalid})
                     /\ Head(ring) \in SlotIdx \cup {kPoolInvalid}
                     /\ Len(Tail(ring)) = Len(ring) - 1
  BY Zenon, Lengths DEF BuffersCounted
<1>2. ring # <<>> /\ ~NetEnded => Tail(ring) \in Seq(SlotIdx) /\ Head(ring) \in SlotIdx
  BY Zenon, Lengths DEF BuffersCounted
<1>3. CASE pop
  BY <1>0, <1>1, <1>2, <1>3 DEF pop, BuffersCounted
<1>4. CASE popEnd
  <2>1. NetEnded
    BY <1>2, <1>4 DEF popEnd, BuffersCounted, SlotIdx
  <2> QED
    BY <1>0, <1>1, <1>4, <2>1 DEF popEnd, BuffersCounted
<1>5. CASE spin \/ process \/ setStop \/ join
  BY Zenon, <1>5 DEF spin, process, setStop, join, BuffersCounted
<1>6. CASE release
  <2>1. <<engineSlot>> \o pool \in Seq(SlotIdx) /\ Len(<<engineSlot>> \o pool) = Len(pool) + 1
    BY <1>6, Lengths DEF release, BuffersCounted
  <2> QED
    BY <1>0, <1>6, <2>1 DEF release, BuffersCounted
<1> QED
  BY Zenon, <1>3, <1>4, <1>5, <1>6 DEF engineStep

(* Every step keeps the buffers accounted for.                             *)
LEMMA CountedNext == BuffersCounted /\ [Next]_vars => BuffersCounted'
<1> SUFFICES ASSUME BuffersCounted, [Next]_vars PROVE BuffersCounted'
  BY Zenon
<1>1. CASE UNCHANGED vars
  BY Zenon, SameSlots, <1>1 DEF vars, loopVars, netVars, engineVars, setupVars, xdpVars, batchVars,
              BuffersCounted, NetHolds, EngineHolds, NetEnded
<1>2. CASE network /\ UNCHANGED useXdp
  BY Zenon, <1>2, CountedUdp, CountedXdp DEF network
<1>3. CASE netStep
  BY Zenon, <1>3, CountedUdp, CountedXdp DEF netStep
<1> QED
  BY Zenon, <1>1, <1>2, <1>3, CountedEngine DEF Next, Terminated

(* With more buffers than ring slots, as runUdp allocates them, acquire()  *)
(* never fails in either handler, whatever the sizes, the feed and the     *)
(* speed of the two threads.                                               *)
THEOREM PoolSuffices == Spec => []NeverStarves
<1>1. BuffersCounted => NeverStarves
  <2> SUFFICES ASSUME BuffersCounted, Acquiring, poolSlots > RingSlots
               PROVE  Len(pool) > 0
    BY Lengths DEF BuffersCounted, NeverStarves
  <2> QED
    BY SameSlots, FeedAssumption, Lengths DEF BuffersCounted, Acquiring, NetHolds, EngineHolds, NetEnded
<1> QED
  BY <1>1, CountedInit, CountedNext, PTL DEF Spec

-----------------------------------------------------------------------------
(* The end of a run.                                                       *)

(* The sentinel is the last thing on the ring, and stop is set by the      *)
(* matching thread after it has seen the sentinel.                         *)
EndInv ==
  /\ BuffersCounted
  /\ \A n \in DOMAIN ring : ring[n] = kPoolInvalid => n = Len(ring) /\ NetEnded
  /\ NothingLeftBehind
  /\ stop \in BOOLEAN
  /\ stop => enginePc \in {"join", "done"}

(* The elements of a sequence after one step.                              *)
LEMMA Elements ==
  ASSUME NEW S, NEW q \in Seq(S)
  PROVE  /\ DOMAIN q = 1 .. Len(q) /\ Len(q) \in Nat
         /\ \A n \in DOMAIN q : q[n] \in S
         /\ q # <<>> => /\ Head(q) = q[1] /\ 1 \in DOMAIN q
                        /\ DOMAIN Tail(q) = 1 .. Len(q) - 1
                        /\ \A n \in DOMAIN Tail(q) : Tail(q)[n] = q[n + 1] /\ n + 1 \in DOMAIN q
         /\ \A x \in S : /\ DOMAIN Append(q, x) = 1 .. Len(q) + 1
                         /\ Append(q, x)[Len(q) + 1] = x
                         /\ \A n \in DOMAIN q : Append(q, x)[n] = q[n]
         /\ \A x \in S : /\ DOMAIN (<<x>> \o q) = 1 .. Len(q) + 1
                         /\ (<<x>> \o q)[1] = x
                         /\ \A n \in 2 .. Len(q) + 1 :
                              (<<x>> \o q)[n] = q[n - 1] /\ n - 1 \in DOMAIN q
OBVIOUS

(* It holds initially: nothing was generated.                              *)
LEMMA EndInit == Init => EndInv
<1> SUFFICES ASSUME Init PROVE EndInv
  BY Zenon
<1>1. BuffersCounted
  BY Zenon, CountedInit
<1>2. ring = <<>> /\ stop = FALSE /\ enginePc = "pop"
  BY Zenon DEF Init, LoopInit
<1>3. \A n \in DOMAIN ring : FALSE
  BY <1>2
<1> QED
  BY Zenon, <1>1, <1>2, <1>3 DEF EndInv, NothingLeftBehind

(* A step that leaves the ring and the matching thread alone.              *)
LEMMA EndFrame ==
  ASSUME EndInv, BuffersCounted', NetEnded => NetEnded',
         UNCHANGED <<ring, enginePc, stop>>
  PROVE  EndInv'
BY Zenon DEF EndInv, NothingLeftBehind, NetEnded

(* A packet goes on the ring: the network thread has not ended, so there   *)
(* is no sentinel and the matching thread has not seen one.                *)
LEMMA EndPush ==
  ASSUME EndInv, BuffersCounted', netPc = "push", pushOrDrop,
         netPc' \notin {"recv", "push", "done"}, UNCHANGED <<enginePc, stop, done>>
  PROVE  EndInv'
<1>1. ~NetEnded /\ ring \in Seq(SlotIdx)
  BY Zenon DEF EndInv, BuffersCounted, NetEnded
<1>2. CASE ringFull
  BY Zenon, <1>1, <1>2, EndFrame DEF pushOrDrop
<1>3. CASE ~ringFull
  <2>1. ring' = Append(ring, netSlot) /\ netSlot \in SlotIdx
    BY Zenon, <1>3 DEF pushOrDrop, EndInv, BuffersCounted, NetHolds
  <2>2. \A n \in DOMAIN ring' : ring'[n] \in SlotIdx
    BY <1>1, <2>1, Lengths
  <2>3. \A n \in DOMAIN ring' : ring'[n] # kPoolInvalid
    BY <2>2, FeedAssumption DEF SlotIdx, EndInv, BuffersCounted
  <2>4. enginePc \notin {"stop", "join", "done"}
    BY Zenon, <1>1 DEF EndInv, NothingLeftBehind, NetEnded
  <2> QED
    BY Zenon, <2>3, <2>4 DEF EndInv, NothingLeftBehind
<1> QED
  BY Zenon, <1>2, <1>3

(* The sentinel goes on the ring, behind everything else.                  *)
LEMMA EndSentinel ==
  ASSUME EndInv, BuffersCounted', netPc = "pushEnd", pushSentinel,
         NetEnded', UNCHANGED <<enginePc, stop>>
  PROVE  EndInv'
<1>1. ~NetEnded /\ ring \in Seq(SlotIdx)
  BY Zenon DEF EndInv, BuffersCounted, NetEnded
<1>2. enginePc \notin {"stop", "join", "done"} /\ ~stop
  BY Zenon, <1>1 DEF EndInv, NothingLeftBehind, NetEnded
<1>3. ring' = Append(ring, kPoolInvalid)
  BY Zenon, <1>2 DEF pushSentinel
<1>4. \A n \in DOMAIN ring' : ring'[n] = kPoolInvalid => n = Len(ring')
  <2>1. \A n \in DOMAIN ring : ring[n] # kPoolInvalid
    BY Zenon, <1>1, FeedAssumption DEF SlotIdx, EndInv, BuffersCounted
  <2> QED
    BY <1>1, <1>3, <2>1
<1> QED
  BY Zenon, <1>2, <1>4 DEF EndInv, NothingLeftBehind

(* A step of the UDP handler.                                              *)
LEMMA EndUdp ==
  ASSUME EndInv, BuffersCounted', ~useXdp, udpStep \/ udpReceive, UNCHANGED <<xdpVars, useXdp>>
  PROVE  EndInv'
<1> USE DEF engineVars, xdpVars, batchVars
<1>1. CASE push
  BY Zenon, <1>1, EndPush DEF push
<1>2. CASE pushEnd
  BY Zenon, <1>2, EndSentinel DEF pushEnd, NetEnded
<1>3. CASE setup \/ acquire \/ recvNothing \/ recvScratch \/ recvScratchNothing
  BY Zenon, <1>3, EndFrame DEF setup, acquire, recvNothing, recvScratch, recvScratchNothing, NetEnded
<1>4. ASSUME NEW p \in sent, recv(p) PROVE EndInv'
  BY Zenon, <1>4, EndFrame DEF recv, NetEnded
<1> QED
  BY Zenon, <1>1, <1>2, <1>3, <1>4 DEF udpStep, udpReceive

(* A step of the AF_XDP handler, or of the kernel.                         *)
LEMMA EndXdp ==
  ASSUME EndInv, BuffersCounted', useXdp,
         xdpStep \/ xdpSetup \/ \E p \in sent \cup {OtherFrame} : arrive(p)
  PROVE  EndInv'
<1> USE DEF engineVars, batchVars
<1>1. CASE xdpPush
  BY Zenon, <1>1, EndPush DEF xdpPush, nextFrame
<1>2. CASE xdpPushEnd
  BY Zenon, <1>2, EndSentinel DEF xdpPushEnd, NetEnded
<1>3. CASE xdpSetup \/ peek \/ copy
  BY <1>3, EndFrame, SMTT(30) DEF xdpSetup, peek, copy, NetEnded
<1>4. CASE frame
  <2>1. UNCHANGED <<ring, enginePc, stop, done>> /\ netPc = "frame"
    BY Zenon, <1>4 DEF frame
  <2> QED
    BY Zenon, <2>1, EndFrame DEF NetEnded
<1>5. CASE releaseRx \/ refill
  BY <1>5, EndFrame, SMTT(30) DEF releaseRx, refill, NetEnded
<1>6. ASSUME NEW p, arrive(p) PROVE EndInv'
  BY Zenon, <1>6, EndFrame DEF arrive, loopVars, netVars, NetEnded
<1> QED
  BY Zenon, <1>1, <1>2, <1>3, <1>4, <1>5, <1>6 DEF xdpStep

(* A step of the matching thread.                                          *)
LEMMA EndEngine ==
  ASSUME EndInv, BuffersCounted', engineStep \/ spin, UNCHANGED <<xdpVars, useXdp>>
  PROVE  EndInv'
<1> USE DEF xdpVars, batchVars, netVars
<1>0. ring \in Seq(SlotIdx \cup {kPoolInvalid}) /\ UNCHANGED <<netPc, done>>
  BY Zenon DEF EndInv, BuffersCounted, engineStep, pop, popEnd, process, release, setStop, join, spin
<1>1. CASE pop \/ popEnd
  <2>1. ring # <<>> /\ ring' = Tail(ring) /\ enginePc = "pop" /\ UNCHANGED stop
    BY Zenon, <1>1 DEF pop, popEnd
  <2>2. \A n \in DOMAIN ring' : ring'[n] = kPoolInvalid => n = Len(ring') /\ NetEnded'
    <3> SUFFICES ASSUME NEW n \in DOMAIN ring', ring'[n] = kPoolInvalid
                 PROVE  n = Len(ring') /\ NetEnded'
      BY Zenon
    <3>1. n + 1 \in DOMAIN ring /\ ring[n + 1] = kPoolInvalid /\ n \in Nat
      BY <1>0, <2>1, Elements
    <3>2. n + 1 = Len(ring) /\ NetEnded
      BY Zenon, <3>1 DEF EndInv
    <3> QED
      BY <1>0, <2>1, <3>1, <3>2, Lengths DEF NetEnded
  <2>3. ~stop
    BY Zenon, <2>1 DEF EndInv
  <2>4. CASE pop
    BY <2>1, <2>2, <2>3, <2>4 DEF pop, EndInv, NothingLeftBehind
  <2>5. CASE popEnd
    <3>1. ring[1] = kPoolInvalid /\ 1 \in DOMAIN ring
      BY <2>5, <1>0, Elements DEF popEnd
    <3>2. Len(ring) = 1 /\ NetEnded
      BY Zenon, <3>1 DEF EndInv
    <3>3. ring' = <<>>
      <4>1. Tail(ring) \in Seq(SlotIdx \cup {kPoolInvalid}) /\ Len(Tail(ring)) = 0
        BY <1>0, <2>1, <3>2, Lengths
      <4> QED
        BY Zenon, <4>1, <2>1, Lengths
    <3> QED
      BY <1>0, <2>1, <2>2, <2>3, <2>5, <3>2, <3>3 DEF popEnd, EndInv, NothingLeftBehind, NetEnded
  <2> QED
    BY Zenon, <1>1, <2>4, <2>5
<1>2. CASE process \/ release
  BY <1>0, <1>2, SMTT(30) DEF process, release, EndInv, NothingLeftBehind, NetEnded
<1>3. CASE setStop
  <2>1. enginePc = "stop" /\ enginePc' = "join" /\ stop' = TRUE /\ UNCHANGED ring
    BY Zenon, <1>3 DEF setStop
  <2> QED
    BY <1>0, <2>1 DEF EndInv, NothingLeftBehind, NetEnded
<1>4. CASE join
  BY Zenon, <1>0, <1>4 DEF join, EndInv, NothingLeftBehind, NetEnded
<1>5. CASE spin
  BY <1>0, <1>5 DEF spin, EndInv, NothingLeftBehind, NetEnded
<1> QED
  BY Zenon, <1>1, <1>2, <1>3, <1>4, <1>5 DEF engineStep

(* Every step keeps the sentinel where it is.                              *)
LEMMA EndNext == EndInv /\ [Next]_vars => EndInv'
<1> SUFFICES ASSUME EndInv, [Next]_vars PROVE EndInv'
  BY Zenon
<1>0. BuffersCounted'
  BY Zenon, CountedNext DEF EndInv
<1>1. CASE UNCHANGED vars
  BY Zenon, <1>0, <1>1, EndFrame DEF vars, loopVars, netVars, engineVars, xdpVars, batchVars, NetEnded
<1>2. CASE network /\ UNCHANGED useXdp
  BY Zenon, <1>0, <1>2, EndUdp, EndXdp DEF network
<1>3. CASE netStep
  BY Zenon, <1>0, <1>3, EndUdp, EndXdp DEF netStep
<1> QED
  BY Zenon, <1>0, <1>1, <1>2, <1>3, EndEngine DEF Next, Terminated

(* When the matching thread leaves its loop, every packet that the network *)
(* thread put on the ring has been popped, and none will follow: for every *)
(* ring, pool and feed, and either handler.                                *)
THEOREM NothingIsLeft == Spec => []NothingLeftBehind
<1>1. EndInv => NothingLeftBehind
  BY Zenon DEF EndInv
<1> QED
  BY <1>1, EndInit, EndNext, PTL DEF Spec

-----------------------------------------------------------------------------
(* The place of every buffer.                                              *)

(* No buffer is in two places, and each is in one.                         *)
OnePlace ==
  /\ ~NetHolds => netSlot = kPoolInvalid
  /\ ~EngineHolds => engineSlot = kPoolInvalid
  /\ \A m, n \in DOMAIN pool : pool[m] = pool[n] => m = n
  /\ \A m, n \in DOMAIN ring : ring[m] = ring[n] => m = n
  /\ \A m \in DOMAIN pool, n \in DOMAIN ring : pool[m] # ring[n]
  /\ \A m \in DOMAIN pool : pool[m] # netSlot /\ pool[m] # engineSlot
  /\ \A n \in DOMAIN ring : ring[n] # kPoolInvalid => ring[n] # netSlot /\ ring[n] # engineSlot
  /\ netSlot = engineSlot => netSlot = kPoolInvalid
  /\ \A i \in SlotIdx : \/ \E m \in DOMAIN pool : pool[m] = i
                        \/ \E n \in DOMAIN ring : ring[n] = i
                        \/ netSlot = i
                        \/ engineSlot = i

PlaceInv == EndInv /\ OnePlace

(* It holds initially: every packet is free.                               *)
LEMMA PlaceInit == Init => PlaceInv
<1> SUFFICES ASSUME Init PROVE PlaceInv
  BY Zenon
<1>1. EndInv
  BY Zenon, EndInit
<1>2. /\ poolSlots \in Nat /\ pool = [n \in 1 .. poolSlots |-> n - 1]
      /\ DOMAIN pool = 1 .. poolSlots
  BY Zenon, FeedAssumption DEF Init, LoopInit
<1>3. ring = <<>> /\ DOMAIN ring = {}
  BY DEF Init, LoopInit
<1>4. netSlot = kPoolInvalid /\ engineSlot = kPoolInvalid
  BY Zenon DEF Init, LoopInit
<1>5. \A m \in DOMAIN pool : pool[m] = m - 1 /\ m - 1 \in Nat
  BY <1>2
<1>6. \A i \in SlotIdx : \E m \in DOMAIN pool : pool[m] = i
  <2> SUFFICES ASSUME NEW i \in SlotIdx PROVE i + 1 \in DOMAIN pool /\ pool[i + 1] = i
    BY Zenon
  <2> QED
    BY <1>2 DEF SlotIdx
<1>7. \A m, n \in DOMAIN pool : pool[m] = pool[n] => m = n
  BY <1>2, <1>5
<1>8. \A m \in DOMAIN pool : pool[m] # kPoolInvalid
  BY Zenon, <1>5, FeedAssumption
<1> QED
  BY Zenon, <1>1, <1>3, <1>4, <1>6, <1>7, <1>8 DEF PlaceInv, OnePlace

(* No buffer changes hands.                                                *)
LEMMA PlaceFrame ==
  ASSUME OnePlace, NetHolds' <=> NetHolds, EngineHolds' <=> EngineHolds,
         UNCHANGED <<pool, ring, netSlot, engineSlot, poolSlots>>
  PROVE  OnePlace'
BY SameSlots DEF OnePlace

(* What the proofs below use of PlaceInv.                                  *)
LEMMA PlaceTypes ==
  ASSUME PlaceInv
  PROVE  /\ poolSlots \in Nat /\ kPoolInvalid \notin SlotIdx
         /\ pool \in Seq(SlotIdx) /\ ring \in Seq(SlotIdx \cup {kPoolInvalid})
         /\ NetHolds => netSlot \in SlotIdx
         /\ EngineHolds => engineSlot \in SlotIdx
         /\ netSlot \in SlotIdx \cup {kPoolInvalid}
         /\ engineSlot \in SlotIdx \cup {kPoolInvalid}
         /\ ~NetEnded => ring \in Seq(SlotIdx)
BY FeedAssumption, SMTT(30) DEF PlaceInv, OnePlace, EndInv, BuffersCounted, SlotIdx

(* A thread takes the buffer on top of the pool.                           *)
LEMMA PlaceTake ==
  ASSUME PlaceInv, ~NetHolds, NetHolds', pool # <<>>, netSlot' = Head(pool), pool' = Tail(pool),
         UNCHANGED <<ring, enginePc, engineSlot, poolSlots>>
  PROVE  OnePlace'
<1>t. /\ pool \in Seq(SlotIdx) /\ kPoolInvalid \notin SlotIdx
      /\ ring \in Seq(SlotIdx \cup {kPoolInvalid})
      /\ netSlot \in SlotIdx \cup {kPoolInvalid}
      /\ engineSlot \in SlotIdx \cup {kPoolInvalid}
  BY Zenon, PlaceTypes
<1>u. OnePlace
  BY Zenon DEF PlaceInv
<1>1. /\ \A n \in DOMAIN pool' : pool'[n] = pool[n + 1] /\ n + 1 \in DOMAIN pool /\ n \in Nat /\ n >= 1
      /\ netSlot' = pool[1] /\ 1 \in DOMAIN pool /\ netSlot' \in SlotIdx
  BY <1>t, Elements
<1>2. \A m \in DOMAIN pool : m = 1 \/ (m - 1 \in DOMAIN pool' /\ pool'[m - 1] = pool[m])
  BY <1>t, Elements
<1>3. EngineHolds' <=> EngineHolds
  BY Zenon DEF EngineHolds
<1>4. netSlot = kPoolInvalid
  BY Zenon DEF PlaceInv, OnePlace
<1>5. \A m, n \in DOMAIN pool' : pool'[m] = pool'[n] => m = n
  BY <1>t, <1>u, <1>1, SMTT(30) DEF OnePlace
<1>6. \A m \in DOMAIN pool' : pool'[m] # netSlot' /\ pool'[m] # engineSlot'
  BY <1>t, <1>u, <1>1, SMTT(30) DEF OnePlace
<1>7. \A m \in DOMAIN pool', n \in DOMAIN ring' : pool'[m] # ring'[n]
  BY <1>t, <1>u, <1>1, SMTT(30) DEF OnePlace
<1>8. \A n \in DOMAIN ring' : ring'[n] # kPoolInvalid => ring'[n] # netSlot' /\ ring'[n] # engineSlot'
  BY <1>t, <1>u, <1>1, SMTT(30) DEF OnePlace
<1>9. \A i \in SlotIdx : \/ \E m \in DOMAIN pool' : pool'[m] = i
                         \/ \E n \in DOMAIN ring' : ring'[n] = i
                         \/ netSlot' = i
                         \/ engineSlot' = i
  <2> SUFFICES ASSUME NEW i \in SlotIdx, ~ \E n \in DOMAIN ring : ring[n] = i, engineSlot # i
               PROVE  (\E m \in DOMAIN pool' : pool'[m] = i) \/ netSlot' = i
    BY Zenon
  <2>1. PICK m \in DOMAIN pool : pool[m] = i
    BY Zenon, <1>t, <1>u, <1>4 DEF OnePlace
  <2> QED
    BY Zenon, <2>1, <1>1, <1>2
<1> QED
  BY <1>1, <1>3, <1>5, <1>6, <1>7, <1>8, <1>9, SameSlots, SMTT(30) DEF PlaceInv, OnePlace

(* A thread puts the buffer x, which it held, back on the pool.            *)
LEMMA PlaceRelease ==
  ASSUME PlaceInv, NEW x \in SlotIdx, pool' = <<x>> \o pool,
         \/ NetHolds /\ ~NetHolds' /\ x = netSlot /\ netSlot' = kPoolInvalid
              /\ UNCHANGED <<enginePc, engineSlot>>
         \/ EngineHolds /\ ~EngineHolds' /\ x = engineSlot /\ engineSlot' = kPoolInvalid
              /\ UNCHANGED <<netPc, netSlot>>,
         UNCHANGED <<ring, poolSlots>>
  PROVE  OnePlace'
<1>t. /\ pool \in Seq(SlotIdx) /\ kPoolInvalid \notin SlotIdx
      /\ ring \in Seq(SlotIdx \cup {kPoolInvalid})
      /\ NetHolds => netSlot \in SlotIdx
      /\ EngineHolds => engineSlot \in SlotIdx
  BY Zenon, PlaceTypes
<1>0. /\ DOMAIN pool = 1 .. Len(pool) /\ Len(pool) \in Nat
      /\ DOMAIN pool' = 1 .. Len(pool) + 1 /\ pool'[1] = x
      /\ \A n \in 2 .. Len(pool) + 1 : pool'[n] = pool[n - 1]
  <2>1. pool \in Seq(SlotIdx)
    BY Zenon, <1>t
  <2> QED
    BY <2>1, Elements, SMTT(30)
<1>1. /\ \A n \in DOMAIN pool' : n = 1 \/ (n - 1 \in DOMAIN pool /\ pool'[n] = pool[n - 1])
      /\ \A n \in DOMAIN pool' : n \in Nat
      /\ pool'[1] = x /\ 1 \in DOMAIN pool'
  BY <1>0, SMTT(30)
<1>2. \A m \in DOMAIN pool : m + 1 \in DOMAIN pool' /\ pool'[m + 1] = pool[m]
  <2> SUFFICES ASSUME NEW m \in DOMAIN pool
               PROVE  m + 1 \in DOMAIN pool' /\ pool'[m + 1] = pool[m]
    BY Zenon
  <2>1. /\ m + 1 \in 2 .. Len(pool) + 1 /\ (m + 1) - 1 = m
        /\ m + 1 \in 1 .. Len(pool) + 1
    BY <1>0
  <2> QED
    BY Zenon, <1>0, <2>1
<1>3. /\ ~NetHolds' => netSlot' = kPoolInvalid
      /\ ~EngineHolds' => engineSlot' = kPoolInvalid
  BY Zenon DEF PlaceInv, OnePlace, NetHolds, EngineHolds
<1>4. \A m \in DOMAIN pool : pool[m] # x /\ pool[m] \in SlotIdx
  BY <1>t, Elements DEF PlaceInv, OnePlace
<1>5. \A n \in DOMAIN ring : ring[n] # x
  BY Zenon, <1>t DEF PlaceInv, OnePlace
<1>6. \A m, n \in DOMAIN pool' : pool'[m] = pool'[n] => m = n
  BY <1>1, <1>4, SMTT(30) DEF PlaceInv, OnePlace
<1>7. \A m \in DOMAIN pool', n \in DOMAIN ring' : pool'[m] # ring'[n]
  BY <1>1, <1>5, SMTT(30) DEF PlaceInv, OnePlace
<1>8. x # netSlot' /\ x # engineSlot'
  BY <1>t DEF PlaceInv, OnePlace
<1>9. \A m \in DOMAIN pool' : pool'[m] # netSlot' /\ pool'[m] # engineSlot'
  <2>1. netSlot' \in {netSlot, kPoolInvalid} /\ engineSlot' \in {engineSlot, kPoolInvalid}
    BY Zenon
  <2>2. \A m \in DOMAIN pool : pool[m] # netSlot /\ pool[m] # engineSlot
    BY Zenon DEF PlaceInv, OnePlace
  <2>3. \A m \in DOMAIN pool : pool[m] # netSlot' /\ pool[m] # engineSlot'
    BY Zenon, <1>t, <1>4, <2>1, <2>2
  <2> QED
    BY <1>1, <1>8, <2>3
<1>10. \A i \in SlotIdx : \/ \E m \in DOMAIN pool' : pool'[m] = i
                          \/ \E n \in DOMAIN ring' : ring'[n] = i
                          \/ netSlot' = i
                          \/ engineSlot' = i
  <2> SUFFICES ASSUME NEW i \in SlotIdx, i # x, i # netSlot', i # engineSlot',
                      ~ \E n \in DOMAIN ring : ring[n] = i
               PROVE  \E m \in DOMAIN pool' : pool'[m] = i
    BY <1>1
  <2>1. PICK m \in DOMAIN pool : pool[m] = i
    BY Zenon, <1>t DEF PlaceInv, OnePlace
  <2> QED
    BY Zenon, <2>1, <1>2
<1>11. /\ \A n \in DOMAIN ring' : ring'[n] # kPoolInvalid => ring'[n] # netSlot' /\ ring'[n] # engineSlot'
       /\ netSlot' = engineSlot' => netSlot' = kPoolInvalid
  BY Zenon, <1>t DEF PlaceInv, OnePlace
<1> QED
  BY Zenon, <1>3, <1>6, <1>7, <1>9, <1>10, <1>11, SameSlots DEF PlaceInv, OnePlace

(* Something goes on the ring: the network thread's buffer, or the         *)
(* sentinel.                                                               *)
LEMMA PlaceAppend ==
  ASSUME PlaceInv, ~NetEnded, NEW x \in SlotIdx \cup {kPoolInvalid},
         ring' = Append(ring, x), netSlot' = kPoolInvalid, ~NetHolds',
         x = netSlot, UNCHANGED <<pool, enginePc, engineSlot, poolSlots>>
  PROVE  OnePlace'
<1>t. /\ pool \in Seq(SlotIdx) /\ kPoolInvalid \notin SlotIdx
      /\ ring \in Seq(SlotIdx \cup {kPoolInvalid})
      /\ netSlot \in SlotIdx \cup {kPoolInvalid}
      /\ engineSlot \in SlotIdx \cup {kPoolInvalid}
      /\ ring \in Seq(SlotIdx)
  BY Zenon, PlaceTypes
<1>u. OnePlace
  BY Zenon DEF PlaceInv
<1>1. /\ \A n \in DOMAIN ring' : \/ n = Len(ring) + 1 /\ ring'[n] = x
                                 \/ n \in DOMAIN ring /\ ring'[n] = ring[n]
      /\ Len(ring) + 1 \in DOMAIN ring' /\ ring'[Len(ring) + 1] = x
      /\ \A n \in DOMAIN ring : n \in DOMAIN ring' /\ ring'[n] = ring[n] /\ ring[n] \in SlotIdx
  <2>1. \A n \in DOMAIN ring : ring[n] \in SlotIdx
    BY Zenon, <1>t, Elements
  <2>2. /\ DOMAIN ring = 1 .. Len(ring) /\ Len(ring) \in Nat
        /\ DOMAIN ring' = 1 .. Len(ring) + 1 /\ ring'[Len(ring) + 1] = x
        /\ \A n \in DOMAIN ring : ring'[n] = ring[n]
    BY <1>t, Elements, SMTT(30)
  <2> QED
    BY <2>1, <2>2, SMTT(30)
<1>2. EngineHolds' <=> EngineHolds
  BY Zenon DEF EngineHolds
<1>3. \A n \in DOMAIN ring : ring[n] # x
  BY <1>t, <1>u, <1>1 DEF OnePlace
<1>4. \A m \in DOMAIN pool : pool[m] # x
  BY Zenon DEF PlaceInv, OnePlace
<1>5. \A m, n \in DOMAIN ring' : ring'[m] = ring'[n] => m = n
  BY <1>t, <1>u, <1>1, <1>3, SMTT(30) DEF OnePlace
<1>6. \A m \in DOMAIN pool', n \in DOMAIN ring' : pool'[m] # ring'[n]
  BY <1>t, <1>u, <1>1, <1>4, SMTT(30) DEF OnePlace
<1>7. \A n \in DOMAIN ring' : ring'[n] # kPoolInvalid => ring'[n] # netSlot' /\ ring'[n] # engineSlot'
  BY <1>t, <1>u, <1>1 DEF OnePlace
<1>8. \A m \in DOMAIN pool' : pool'[m] # netSlot' /\ pool'[m] # engineSlot'
  BY <1>t, <1>u, Elements, SMTT(30) DEF OnePlace
<1>9. \A i \in SlotIdx : \/ \E m \in DOMAIN pool' : pool'[m] = i
                         \/ \E n \in DOMAIN ring' : ring'[n] = i
                         \/ netSlot' = i
                         \/ engineSlot' = i
  BY <1>t, <1>u, <1>1, SMTT(30) DEF OnePlace
<1> QED
  BY Zenon, <1>2, <1>5, <1>6, <1>7, <1>8, <1>9, SameSlots DEF PlaceInv, OnePlace

(* The matching thread pops a buffer, or the sentinel.                     *)
LEMMA PlacePop ==
  ASSUME PlaceInv, enginePc = "pop", ring # <<>>, ring' = Tail(ring),
         engineSlot' = Head(ring), EngineHolds' <=> Head(ring) # kPoolInvalid,
         UNCHANGED <<pool, netPc, netSlot, poolSlots>>
  PROVE  OnePlace'
<1>t. /\ pool \in Seq(SlotIdx) /\ kPoolInvalid \notin SlotIdx
      /\ ring \in Seq(SlotIdx \cup {kPoolInvalid})
      /\ netSlot \in SlotIdx \cup {kPoolInvalid}
      /\ engineSlot \in SlotIdx \cup {kPoolInvalid}
  BY Zenon, PlaceTypes
<1>u. OnePlace
  BY Zenon DEF PlaceInv
<1>1. /\ \A n \in DOMAIN ring' : ring'[n] = ring[n + 1] /\ n + 1 \in DOMAIN ring /\ n \in Nat /\ n >= 1
      /\ engineSlot' = ring[1] /\ 1 \in DOMAIN ring
      /\ engineSlot' \in SlotIdx \cup {kPoolInvalid}
  BY <1>t, Elements
<1>2. \A m \in DOMAIN ring : m = 1 \/ (m - 1 \in DOMAIN ring' /\ ring'[m - 1] = ring[m])
  BY <1>t, Elements, SMTT(30)
<1>3. NetHolds' <=> NetHolds
  BY Zenon DEF NetHolds
<1>4. engineSlot = kPoolInvalid
  BY Zenon DEF PlaceInv, OnePlace, EngineHolds
<1>5. \A m, n \in DOMAIN ring' : ring'[m] = ring'[n] => m = n
  BY <1>t, <1>u, <1>1, SMTT(30) DEF OnePlace
<1>6. \A m \in DOMAIN pool', n \in DOMAIN ring' : pool'[m] # ring'[n]
  BY <1>t, <1>u, <1>1, SMTT(30) DEF OnePlace
<1>7. \A n \in DOMAIN ring' : ring'[n] # kPoolInvalid => ring'[n] # netSlot' /\ ring'[n] # engineSlot'
  BY <1>t, <1>u, <1>1, SMTT(30) DEF OnePlace
<1>8. \A m \in DOMAIN pool' : pool'[m] # netSlot' /\ pool'[m] # engineSlot'
  BY <1>t, <1>u, <1>1, SMTT(30) DEF OnePlace
<1>9. netSlot' = engineSlot' => netSlot' = kPoolInvalid
  BY Zenon, <1>t, <1>u, <1>1 DEF OnePlace
<1>10. \A i \in SlotIdx : \/ \E m \in DOMAIN pool' : pool'[m] = i
                          \/ \E n \in DOMAIN ring' : ring'[n] = i
                          \/ netSlot' = i
                          \/ engineSlot' = i
  <2> SUFFICES ASSUME NEW i \in SlotIdx, ~ \E m \in DOMAIN pool : pool[m] = i, netSlot # i
               PROVE  (\E n \in DOMAIN ring' : ring'[n] = i) \/ engineSlot' = i
    BY Zenon
  <2>1. PICK n \in DOMAIN ring : ring[n] = i
    BY Zenon, <1>t, <1>u, <1>4 DEF OnePlace
  <2> QED
    BY Zenon, <2>1, <1>1, <1>2
<1> QED
  BY Zenon, <1>3, <1>5, <1>6, <1>7, <1>8, <1>9, <1>10, SameSlots DEF PlaceInv, OnePlace

(* pushOrDrop, in either handler.                                          *)
LEMMA PlacePush ==
  ASSUME PlaceInv, netPc = "push", pushOrDrop, ~NetHolds',
         UNCHANGED <<enginePc, engineSlot, poolSlots>>
  PROVE  OnePlace'
<1>1. NetHolds /\ netSlot \in SlotIdx /\ ~NetEnded
  BY Zenon, PlaceTypes DEF NetHolds, NetEnded, PlaceInv, EndInv, BuffersCounted
<1>2. CASE ringFull
  BY Zenon, <1>1, <1>2, PlaceRelease DEF pushOrDrop, releaseNetSlot
<1>3. CASE ~ringFull
  BY Zenon, <1>1, <1>3, PlaceAppend DEF pushOrDrop
<1> QED
  BY Zenon, <1>2, <1>3

(* pushSentinel, in either handler.                                        *)
LEMMA PlaceSentinel ==
  ASSUME PlaceInv, netPc = "pushEnd", pushSentinel, netPc' \in {"done", "release"},
         UNCHANGED <<pool, netSlot, enginePc, engineSlot, poolSlots>>
  PROVE  OnePlace'
<1>1. ~NetHolds /\ ~NetHolds' /\ netSlot = kPoolInvalid /\ ~NetEnded
  BY Zenon DEF NetHolds, NetEnded, PlaceInv, OnePlace, EndInv, BuffersCounted
<1>2. CASE ringFull
  BY Zenon, <1>1, <1>2, PlaceFrame DEF pushSentinel, PlaceInv, EngineHolds
<1>3. CASE ~ringFull
  BY Zenon, <1>1, <1>3, PlaceAppend DEF pushSentinel
<1> QED
  BY Zenon, <1>2, <1>3

(* A step of the UDP handler.                                              *)
LEMMA PlaceUdp ==
  ASSUME PlaceInv, ~useXdp, udpStep \/ udpReceive, UNCHANGED <<xdpVars, useXdp>>
  PROVE  OnePlace'
<1> USE DEF setupVars, engineVars
<1>1. CASE setup \/ recvScratch \/ recvScratchNothing
  BY Zenon, <1>1, PlaceFrame DEF setup, recvScratch, recvScratchNothing, NetHolds, EngineHolds, PlaceInv
<1>2. CASE acquire
  <2>1. CASE stop \/ pool = <<>>
    BY Zenon, <1>2, <2>1, PlaceFrame DEF acquire, NetHolds, EngineHolds, PlaceInv
  <2>2. CASE ~stop /\ pool # <<>>
    BY Zenon, <1>2, <2>2, PlaceTake DEF acquire, NetHolds
  <2> QED
    BY Zenon, <2>1, <2>2
<1>3. CASE recvNothing
  <2>1. NetHolds /\ ~NetHolds' /\ netSlot \in SlotIdx
    BY Zenon, <1>3, PlaceTypes DEF recvNothing, NetHolds
  <2> QED
    BY Zenon, <1>3, <2>1, PlaceRelease DEF recvNothing, releaseNetSlot
<1>4. CASE push
  BY Zenon, <1>4, PlacePush DEF push, NetHolds
<1>5. CASE pushEnd
  BY Zenon, <1>5, PlaceSentinel DEF pushEnd
<1>6. ASSUME NEW p \in sent, recv(p) PROVE OnePlace'
  <2>1. NetHolds /\ netSlot \in SlotIdx
    BY Zenon, <1>6, PlaceTypes DEF recv, NetHolds
  <2>2. CASE isData(p)
    BY Zenon, <1>6, <2>1, <2>2, PlaceFrame DEF recv, NetHolds, EngineHolds, PlaceInv
  <2>3. CASE ~isData(p)
    <3>1. ~NetHolds' /\ releaseNetSlot /\ UNCHANGED <<ring, poolSlots, enginePc, engineSlot>>
      BY Zenon, <1>6, <2>3 DEF recv, NetHolds
    <3> QED
      BY Zenon, <2>1, <3>1, PlaceRelease DEF releaseNetSlot
  <2> QED
    BY Zenon, <2>2, <2>3
<1> QED
  BY Zenon, <1>1, <1>2, <1>3, <1>4, <1>5, <1>6 DEF udpStep, udpReceive

(* A step of the AF_XDP handler, or of the kernel.                         *)
LEMMA PlaceXdp ==
  ASSUME PlaceInv, useXdp, xdpStep \/ xdpSetup \/ \E p \in sent \cup {OtherFrame} : arrive(p)
  PROVE  OnePlace'
<1> USE DEF setupVars, engineVars
<1>1. CASE xdpSetup \/ peek \/ releaseRx \/ refill
  BY Zenon, <1>1, PlaceFrame DEF xdpSetup, peek, releaseRx, refill, NetHolds, EngineHolds, PlaceInv
<1>2. CASE frame
  <2>1. netPc = "frame" /\ netPc' \in {"release", "frame", "pushEnd", "copy"}
    BY Zenon, <1>2 DEF frame, nextFrame
  <2>2. UNCHANGED <<pool, ring, netSlot, engineSlot, enginePc, poolSlots>>
    BY Zenon, <1>2 DEF frame
  <2> QED
    BY Zenon, <2>1, <2>2, PlaceFrame DEF NetHolds, EngineHolds, PlaceInv
<1>3. CASE copy
  <2>1. CASE pool = <<>>
    BY Zenon, <1>3, <2>1, PlaceFrame DEF copy, nextFrame, NetHolds, EngineHolds, PlaceInv
  <2>2. CASE pool # <<>>
    BY Zenon, <1>3, <2>2, PlaceTake DEF copy, NetHolds
  <2> QED
    BY Zenon, <2>1, <2>2
<1>4. CASE xdpPush
  BY Zenon, <1>4, PlacePush DEF xdpPush, nextFrame, NetHolds
<1>5. CASE xdpPushEnd
  BY Zenon, <1>5, PlaceSentinel DEF xdpPushEnd
<1>6. ASSUME NEW p, arrive(p) PROVE OnePlace'
  BY Zenon, <1>6, PlaceFrame DEF arrive, loopVars, netVars, NetHolds, EngineHolds, PlaceInv
<1> QED
  BY Zenon, <1>1, <1>2, <1>3, <1>4, <1>5, <1>6 DEF xdpStep

(* A step of the matching thread.                                          *)
LEMMA PlaceEngine ==
  ASSUME PlaceInv, engineStep \/ spin
  PROVE  OnePlace'
<1> USE DEF setupVars, netVars
<1>1. CASE pop
  BY Zenon, <1>1, PlacePop DEF pop, EngineHolds
<1>2. CASE popEnd
  <2>1. engineSlot = kPoolInvalid
    BY Zenon, <1>2 DEF popEnd, EngineHolds, PlaceInv, OnePlace
  <2> QED
    BY Zenon, <1>2, <2>1, PlacePop DEF popEnd, EngineHolds
<1>3. CASE release
  <2>1. EngineHolds /\ ~EngineHolds' /\ engineSlot \in SlotIdx
    BY Zenon, <1>3, PlaceTypes DEF release, EngineHolds
  <2> QED
    BY Zenon, <1>3, <2>1, PlaceRelease DEF release
<1>4. CASE process \/ setStop \/ join \/ spin
  BY Zenon, <1>4, PlaceFrame DEF process, setStop, join, spin, NetHolds, EngineHolds, PlaceInv
<1> QED
  BY Zenon, <1>1, <1>2, <1>3, <1>4 DEF engineStep

(* Every step moves each buffer to at most one other place.                *)
LEMMA PlaceNext == PlaceInv /\ [Next]_vars => PlaceInv'
<1> SUFFICES ASSUME PlaceInv, [Next]_vars PROVE OnePlace'
  BY Zenon, EndNext DEF PlaceInv
<1>1. CASE UNCHANGED vars
  BY Zenon, <1>1, PlaceFrame DEF vars, loopVars, setupVars, netVars, engineVars, NetHolds, EngineHolds,
                          PlaceInv
<1>2. CASE network /\ UNCHANGED useXdp
  BY Zenon, <1>2, PlaceUdp, PlaceXdp DEF network
<1>3. CASE netStep
  BY Zenon, <1>3, PlaceUdp, PlaceXdp DEF netStep
<1> QED
  BY Zenon, <1>1, <1>2, <1>3, PlaceEngine DEF Next, Terminated

(* A function on an initial interval is a sequence.                        *)
LEMMA IntervalIsSeq ==
  ASSUME NEW T, NEW k \in Nat, NEW g \in [1 .. k -> T]
  PROVE  g \in Seq(T) /\ Len(g) = k
OBVIOUS

(* One sequence behind another.                                            *)
LEMMA Concatenated ==
  ASSUME NEW T, NEW q \in Seq(T), NEW g \in Seq(T)
  PROVE  /\ q \o g \in Seq(T) /\ Len(q \o g) = Len(q) + Len(g)
         /\ Len(q) \in Nat /\ Len(g) \in Nat
         /\ \A n \in 1 .. Len(q) : (q \o g)[n] = q[n]
         /\ \A n \in Len(q) + 1 .. Len(q) + Len(g) : (q \o g)[n] = g[n - Len(q)]
OBVIOUS

-----------------------------------------------------------------------------
(***************************************************************************)
(* Whatever the network loses, repeats or reorders, the matching thread    *)
(* processes messages in the order of their numbers and none twice; and a  *)
(* hole in what it processes shows in the counters of the report.          *)
(***************************************************************************)

Descriptors == [addr : Frames, packet : sent \cup {OtherFrame}]

(* The types, and where in its batch the AF_XDP handler is.                *)
FeedTyped ==
  /\ sent \subseteq Packets
  /\ slots \in [SlotIdx -> Packets \cup {NoPacket}]
  /\ nextExpected \in Nat
  /\ activeSession = NoSession => nextExpected = 1
  /\ processed \in Seq(Sessions \X Nat)
  /\ rx \in Seq(Descriptors) /\ rcvd \in Nat
  /\ useXdp /\ netPc \in {"frame", "copy", "push"} =>
       frameNo \in Nat /\ frameNo < rcvd /\ rcvd <= Len(rx)

(* The packet that the network thread has accepted and not handed over.    *)
HasPending == netPc \in {"copy", "push"}
Pending == IF netPc = "push" THEN slots[netSlot] ELSE rx[frameNo + 1].packet

(* Everything handed over so far is numbered below this.                   *)
Horizon == IF HasPending THEN Pending.seq ELSE nextExpected

Last(p) == p.seq + p.count

(* From what is processed over what the matching thread has in hand and    *)
(* what is on the ring to the horizon, numbers only grow.                  *)
Ordered ==
  /\ HasPending => Pending \in DataPackets /\ Last(Pending) = nextExpected
  /\ \A n \in DOMAIN ring : ring[n] \in SlotIdx =>
       slots[ring[n]] \in DataPackets /\ Last(slots[ring[n]]) <= Horizon
  /\ \A m, n \in DOMAIN ring : m < n /\ ring[m] \in SlotIdx /\ ring[n] \in SlotIdx =>
       Last(slots[ring[m]]) <= slots[ring[n]].seq
  /\ enginePc = "process" =>
       /\ slots[engineSlot] \in DataPackets /\ Last(slots[engineSlot]) <= Horizon
       /\ \A n \in DOMAIN ring : ring[n] \in SlotIdx =>
            Last(slots[engineSlot]) <= slots[ring[n]].seq
  /\ \A k \in DOMAIN processed :
       /\ processed[k][2] < Horizon
       /\ enginePc = "process" => processed[k][2] < slots[engineSlot].seq
       /\ \A n \in DOMAIN ring : ring[n] \in SlotIdx => processed[k][2] < slots[ring[n]].seq
  /\ InOrderOnce

OrderInv == PlaceInv /\ FeedTyped /\ Ordered

(* The numbers of a packet: a buffer holds no more messages of it than its *)
(* header announces.                                                       *)
LEMMA PacketNumbers ==
  ASSUME NEW p \in Packets
  PROVE  /\ p.seq \in Nat /\ p.seq >= 1 /\ p.count \in Nat /\ Last(p) \in Nat
         /\ p.fits \in Nat /\ p.fits <= p.count
         /\ p.session \in Sessions /\ p.session # NoSession
         /\ p # NoPacket
BY FeedAssumption DEF Packets, Last, NoPacket

(* What is accepted and handed over are packets of the feed.               *)
LEMMA DataNumbers ==
  ASSUME FeedTyped
  PROVE  /\ DataPackets \subseteq Packets /\ DataPackets \subseteq sent
         /\ \A p \in DataPackets : p.seq \in Nat /\ p.seq >= 1 /\ p.count \in Nat /\ Last(p) \in Nat
<1>1. DataPackets \subseteq Packets /\ DataPackets \subseteq sent
  BY Zenon DEF DataPackets, FeedTyped
<1> QED
  BY Zenon, <1>1, PacketNumbers

(* The feed does not change.                                               *)
LEMMA SameFeed ==
  ASSUME UNCHANGED sent
  PROVE  DataPackets' = DataPackets /\ CutOff' = CutOff /\ Descriptors' = Descriptors
<1>1. DataPackets' = DataPackets
  BY Zenon DEF DataPackets, isEnd
<1> QED
  BY Zenon, <1>1 DEF CutOff, Descriptors, Frames, OtherFrame

(* It holds initially: every queue is empty.                               *)
LEMMA OrderInit == Init => OrderInv
<1> SUFFICES ASSUME Init PROVE OrderInv
  BY Zenon
<1>1. PlaceInv
  BY Zenon, PlaceInit
<1>2. sent \subseteq Packets
  BY Zenon DEF Init, LoopInit, Feeds
<1>3. /\ ring = <<>> /\ processed = <<>> /\ rx = <<>> /\ rcvd = 0
      /\ DOMAIN ring = {} /\ DOMAIN processed = {} /\ Len(processed) = 0
  BY DEF Init, LoopInit, XdpInit
<1>4. netPc = "setup" /\ enginePc = "pop" /\ nextExpected = 1
  BY Zenon DEF Init, LoopInit
<1>5. slots \in [SlotIdx -> Packets \cup {NoPacket}]
  BY Zenon DEF Init, LoopInit
<1>6. FeedTyped
  BY <1>2, <1>3, <1>4, <1>5 DEF FeedTyped
<1>7. Ordered
  BY <1>3, <1>4 DEF Ordered, HasPending, InOrderOnce
<1> QED
  BY Zenon, <1>1, <1>6, <1>7 DEF OrderInv

(* The packet's number is not below what was expected, and what is         *)
(* expected next is not below that.                                        *)
LEMMA Track ==
  ASSUME OrderInv, NEW p \in Packets, trackSession(p)
  PROVE  /\ nextExpected' \in Nat /\ nextExpected <= nextExpected'
         /\ activeSession' # NoSession
         /\ isData(p) => nextExpected <= p.seq /\ nextExpected' = Last(p)
<1> USE PacketNumbers
<1>1. nextExpected \in Nat /\ (activeSession = NoSession => nextExpected = 1)
  BY Zenon DEF OrderInv, FeedTyped
<1>2. expected(p) \in Nat /\ nextExpected <= expected(p)
  BY <1>1 DEF expected
<1> QED
  BY <1>1, <1>2 DEF trackSession, isData, isDuplicate, Last

(* A step of the network thread that puts nothing on the ring, and writes  *)
(* no buffer that is on the ring or with the matching thread.              *)
LEMMA OrderFrame ==
  ASSUME OrderInv, FeedTyped', Horizon \in Nat, Horizon' \in Nat, Horizon <= Horizon',
         HasPending' => Pending' \in DataPackets /\ Last(Pending)' = nextExpected',
         \A n \in DOMAIN ring : ring[n] \in SlotIdx => slots'[ring[n]] = slots[ring[n]],
         EngineHolds => slots'[engineSlot] = slots[engineSlot],
         UNCHANGED <<ring, enginePc, engineSlot, processed, sent, poolSlots>>
  PROVE  Ordered'
<1>0. SlotIdx' = SlotIdx
  BY Zenon, SameSlots
<1>1. \A n \in DOMAIN ring : ring[n] \in SlotIdx =>
        slots[ring[n]] \in DataPackets /\ Last(slots[ring[n]]) <= Horizon'
  BY DataNumbers DEF OrderInv, Ordered
<1>2. enginePc = "process" =>
        slots'[engineSlot] = slots[engineSlot] /\ Last(slots[engineSlot]) <= Horizon'
  BY DataNumbers DEF OrderInv, Ordered, EngineHolds
<1>3. \A k \in DOMAIN processed : processed[k][2] < Horizon'
  <2> SUFFICES ASSUME NEW k \in DOMAIN processed PROVE processed[k][2] < Horizon'
    BY Zenon
  <2>1. processed[k] \in Sessions \X Nat
    BY DEF OrderInv, FeedTyped
  <2>2. processed[k][2] \in Nat /\ processed[k][2] < Horizon
    BY Zenon, <2>1 DEF OrderInv, Ordered
  <2> QED
    BY <2>2
<1>4. InOrderOnce'
  BY DEF OrderInv, Ordered, InOrderOnce
<1> HIDE DEF Horizon, Pending, HasPending
<1> QED
  BY <1>0, <1>1, <1>2, <1>3, <1>4, SameFeed DEF OrderInv, Ordered, Last

(* The horizon is the network thread's.                                    *)
LEMMA SameHorizon ==
  ASSUME UNCHANGED <<netPc, netSlot, slots, rx, frameNo, nextExpected>>
  PROVE  HasPending' = HasPending /\ Pending' = Pending /\ Horizon' = Horizon
<1>1. HasPending' = HasPending
  BY Zenon DEF HasPending
<1>2. Pending' = Pending
  BY Zenon DEF Pending
<1> QED
  BY Zenon, <1>1, <1>2 DEF Horizon

(* The bound of the search is a number.                                    *)
LEMMA HorizonIsNat ==
  ASSUME OrderInv
  PROVE  /\ nextExpected \in Nat /\ Horizon \in Nat /\ Horizon <= nextExpected
         /\ HasPending => Horizon = Pending.seq
         /\ ~HasPending => Horizon = nextExpected
BY DataNumbers DEF OrderInv, FeedTyped, Ordered, Horizon, Last

(* A step outside the handling of a packet.                                *)
LEMMA OrderIdle ==
  ASSUME OrderInv, FeedTyped', ~HasPending, ~HasPending',
         UNCHANGED <<ring, enginePc, engineSlot, processed, sent, poolSlots, slots, nextExpected>>
  PROVE  Ordered'
<1>1. Horizon \in Nat /\ Horizon' = Horizon
  BY Zenon, HorizonIsNat DEF Horizon
<1> QED
  BY <1>1, OrderFrame

(* The packet is handed over, or dropped.                                  *)
LEMMA OrderPush ==
  ASSUME OrderInv, FeedTyped', netPc = "push", pushOrDrop, ~HasPending',
         UNCHANGED <<enginePc, engineSlot, processed, sent, poolSlots, slots, nextExpected>>
  PROVE  Ordered'
<1>1. /\ HasPending /\ Pending = slots[netSlot] /\ Horizon = slots[netSlot].seq
      /\ slots[netSlot] \in DataPackets /\ Last(slots[netSlot]) = nextExpected
      /\ netSlot \in SlotIdx
  BY Zenon, HorizonIsNat, PlaceTypes DEF HasPending, Pending, OrderInv, Ordered, NetHolds
<1>2. Horizon' = nextExpected /\ nextExpected \in Nat /\ Horizon \in Nat /\ Horizon <= Horizon'
  BY HorizonIsNat DEF Horizon
<1>3. CASE ringFull
  BY ZenonT(40), <1>2, <1>3, OrderFrame DEF pushOrDrop
<1>4. CASE ~ringFull
  <2>1. ring' = Append(ring, netSlot) /\ ring \in Seq(SlotIdx \cup {kPoolInvalid}) /\ SlotIdx' = SlotIdx
    BY Zenon, <1>4, PlaceTypes, SameSlots DEF pushOrDrop, OrderInv
  <2>2. /\ \A n \in DOMAIN ring' : \/ n = Len(ring) + 1 /\ ring'[n] = netSlot
                                   \/ n \in DOMAIN ring /\ ring'[n] = ring[n] /\ n <= Len(ring)
        /\ \A n \in DOMAIN ring' : n \in Nat
        /\ Len(ring) \in Nat
    BY <1>1, <2>1, Elements
  <2>3. \A n \in DOMAIN ring : ring[n] \in SlotIdx =>
          /\ slots[ring[n]] \in DataPackets /\ Last(slots[ring[n]]) <= slots[netSlot].seq
          /\ Last(slots[ring[n]]) <= nextExpected
    BY <1>1, <1>2, DataNumbers DEF OrderInv, Ordered
  <2>4. \A n \in DOMAIN ring' : ring'[n] \in SlotIdx =>
          slots[ring'[n]] \in DataPackets /\ Last(slots[ring'[n]]) <= nextExpected
    BY SMTT(40), <1>1, <1>2, <2>2, <2>3
  <2>5. \A m, n \in DOMAIN ring' : m < n /\ ring'[m] \in SlotIdx /\ ring'[n] \in SlotIdx =>
          Last(slots[ring'[m]]) <= slots[ring'[n]].seq
    BY <2>2, <2>3 DEF OrderInv, Ordered
  <2>6. enginePc = "process" =>
          /\ slots[engineSlot] \in DataPackets /\ Last(slots[engineSlot]) <= nextExpected
          /\ \A n \in DOMAIN ring' : ring'[n] \in SlotIdx =>
               Last(slots[engineSlot]) <= slots[ring'[n]].seq
    BY <1>1, <1>2, <2>2, DataNumbers DEF OrderInv, Ordered
  <2>7. \A k \in DOMAIN processed :
          /\ processed[k][2] < nextExpected
          /\ enginePc = "process" => processed[k][2] < slots[engineSlot].seq
          /\ \A n \in DOMAIN ring' : ring'[n] \in SlotIdx => processed[k][2] < slots[ring'[n]].seq
    <3> SUFFICES ASSUME NEW k \in DOMAIN processed
                 PROVE  /\ processed[k][2] < nextExpected
                        /\ enginePc = "process" => processed[k][2] < slots[engineSlot].seq
                        /\ \A n \in DOMAIN ring' : ring'[n] \in SlotIdx => processed[k][2] < slots[ring'[n]].seq
      BY Zenon
    <3>1. processed[k] \in Sessions \X Nat
      BY DEF OrderInv, FeedTyped
    <3>2. processed[k][2] \in Nat /\ processed[k][2] < Horizon
      BY Zenon, <3>1 DEF OrderInv, Ordered
    <3>3. processed[k][2] < nextExpected
      BY <1>2, <3>2
    <3> QED
      BY <1>1, <2>2, <3>2, <3>3 DEF OrderInv, Ordered
  <2>8. InOrderOnce'
    BY Zenon DEF OrderInv, Ordered, InOrderOnce
  <2> QED
    BY <1>2, <2>1, <2>4, <2>5, <2>6, <2>7, <2>8, SameFeed DEF Ordered, Last
<1> QED
  BY Zenon, <1>3, <1>4

(* The sentinel is not a buffer.                                           *)
LEMMA OrderSentinel ==
  ASSUME OrderInv, FeedTyped', ~HasPending, ~HasPending', pushSentinel,
         UNCHANGED <<enginePc, engineSlot, processed, sent, poolSlots, slots, nextExpected>>
  PROVE  Ordered'
<1>1. CASE ringFull
  BY Zenon, <1>1, OrderIdle DEF pushSentinel
<1>2. CASE ~ringFull
  <2>1. /\ ring' = Append(ring, kPoolInvalid) /\ ring \in Seq(SlotIdx \cup {kPoolInvalid})
        /\ kPoolInvalid \notin SlotIdx /\ SlotIdx' = SlotIdx
    BY Zenon, <1>2, PlaceTypes, SameSlots DEF pushSentinel, OrderInv
  <2>2. \A n \in DOMAIN ring' : ring'[n] \in SlotIdx => n \in DOMAIN ring /\ ring'[n] = ring[n]
    BY <2>1, Elements
  <2>3. Horizon' = Horizon
    BY Zenon DEF Horizon
  <2>4. InOrderOnce'
    BY Zenon DEF OrderInv, Ordered, InOrderOnce
  <2> HIDE DEF Horizon, Pending, HasPending
  <2> QED
    BY <2>1, <2>2, <2>3, <2>4, SMTT(30), SameFeed DEF OrderInv, Ordered, Last
<1> QED
  BY Zenon, <1>1, <1>2

(* A header is looked at.                                                  *)
LEMMA OrderTrack ==
  ASSUME OrderInv, FeedTyped', ~HasPending, NEW p \in sent, trackSession(p),
         HasPending' <=> isData(p), HasPending' => Pending' = p,
         \A n \in DOMAIN ring : ring[n] \in SlotIdx => slots'[ring[n]] = slots[ring[n]],
         EngineHolds => slots'[engineSlot] = slots[engineSlot],
         UNCHANGED <<ring, enginePc, engineSlot, processed, sent, poolSlots>>
  PROVE  Ordered'
<1>0. p \in Packets
  BY Zenon DEF OrderInv, FeedTyped
<1>1. Horizon \in Nat /\ Horizon = nextExpected
  BY Zenon, HorizonIsNat
<1>2. Horizon' \in Nat /\ Horizon <= Horizon'
  BY <1>0, <1>1, Track, PacketNumbers DEF Horizon
<1>3. HasPending' => Pending' \in DataPackets /\ Last(Pending)' = nextExpected'
  BY Zenon, <1>0, Track DEF Last, DataPackets, isData
<1> QED
  BY Zenon, <1>1, <1>2, <1>3, OrderFrame

(* A step of the UDP handler.                                              *)
LEMMA OrderUdp ==
  ASSUME OrderInv, ~useXdp, udpStep \/ udpReceive, UNCHANGED <<xdpVars, useXdp>>
  PROVE  FeedTyped' /\ Ordered'
<1> USE DEF setupVars, engineVars, sessionVars, xdpVars, kernelVars, batchVars
<1>0. SlotIdx' = SlotIdx
  BY Zenon, SameSlots DEF udpStep, udpReceive, setup, acquire, recvNothing, recvScratch,
                   recvScratchNothing, recv, push, pushEnd
<1>1. ASSUME UNCHANGED <<sent, slots, nextExpected, activeSession, processed>>
      PROVE  FeedTyped'
  BY Zenon, <1>0, <1>1, SameFeed DEF OrderInv, FeedTyped
<1>2. CASE setup \/ acquire \/ recvNothing \/ recvScratch \/ recvScratchNothing
  <2>1. /\ UNCHANGED <<sent, slots, nextExpected, activeSession, processed>>
        /\ UNCHANGED <<ring, enginePc, engineSlot, sent, poolSlots>>
        /\ ~HasPending /\ ~HasPending'
    BY Zenon, <1>2 DEF setup, acquire, recvNothing, recvScratch, recvScratchNothing, HasPending
  <2> QED
    BY Zenon, <1>1, <2>1, OrderIdle
<1>3. CASE push
  BY Zenon, <1>1, <1>3, OrderPush DEF push, HasPending
<1>4. CASE pushEnd
  BY Zenon, <1>1, <1>4, OrderSentinel DEF pushEnd, HasPending
<1>5. ASSUME NEW p \in sent, recv(p) PROVE FeedTyped' /\ Ordered'
  <2>1. p \in Packets /\ netSlot \in SlotIdx /\ ~HasPending /\ NetHolds
    BY Zenon, <1>5, PlaceTypes DEF recv, OrderInv, FeedTyped, HasPending, NetHolds
  <2>2. /\ trackSession(p) /\ slots' = [slots EXCEPT ![netSlot] = p]
        /\ HasPending' <=> isData(p)
        /\ HasPending' => netPc' = "push" /\ netSlot' = netSlot
        /\ UNCHANGED <<sent, ring, enginePc, engineSlot, processed, poolSlots>>
    BY Zenon, <1>5 DEF recv, HasPending
  <2>3. slots \in [SlotIdx -> Packets \cup {NoPacket}]
    BY Zenon DEF OrderInv, FeedTyped
  <2>4. FeedTyped'
    BY Zenon, <1>0, <2>1, <2>2, <2>3, Track, SameFeed DEF OrderInv, FeedTyped
  <2>5. HasPending' => Pending' = p
    BY ZenonT(40), <2>1, <2>2, <2>3 DEF Pending
  <2>6. \A n \in DOMAIN ring : ring[n] \in SlotIdx => slots'[ring[n]] = slots[ring[n]]
    BY SMTT(40), <2>1, <2>2, <2>3, PlaceTypes DEF OrderInv, PlaceInv, OnePlace
  <2>7. EngineHolds => slots'[engineSlot] = slots[engineSlot]
    BY <2>1, <2>2, <2>3, PlaceTypes DEF OrderInv, PlaceInv, OnePlace
  <2> QED
    BY Zenon, <2>1, <2>2, <2>4, <2>5, <2>6, <2>7, OrderTrack
<1> QED
  BY Zenon, <1>2, <1>3, <1>4, <1>5 DEF udpStep, udpReceive

(* The AF_XDP handler looks at a frame of its batch.                       *)
LEMMA OrderXdpFrame ==
  ASSUME OrderInv, useXdp, UNCHANGED useXdp, frame
  PROVE  FeedTyped' /\ Ordered'
<1> USE DEF setupVars, engineVars, sessionVars, kernelVars
<1> DEFINE p == rx[frameNo + 1].packet
<1>1. /\ netPc = "frame" /\ frameNo \in Nat /\ rcvd \in Nat
      /\ frameNo < rcvd /\ rcvd <= Len(rx) /\ rx \in Seq(Descriptors)
  BY Zenon DEF frame, OrderInv, FeedTyped
<1>2. p \in sent \cup {OtherFrame}
  <2>1. rx[frameNo + 1] \in Descriptors
    BY <1>1
  <2> QED
    BY Zenon, <2>1 DEF Descriptors
<1>3. /\ UNCHANGED <<sent, poolSlots, slots, ring, netSlot, enginePc, engineSlot, processed>>
      /\ UNCHANGED <<rx, rcvd>>
      /\ SlotIdx' = SlotIdx
  BY Zenon, SameSlots DEF frame
<1>4. ~HasPending
  BY Zenon, <1>1 DEF HasPending
<1>5. \/ nextFrame
      \/ netPc' \in {"pushEnd", "copy"} /\ UNCHANGED frameNo
  BY Zenon DEF frame
<1>6. netPc' \in {"frame", "copy", "push"} =>
        frameNo' \in Nat /\ frameNo' < rcvd /\ netPc' # "push"
  BY <1>1, <1>5 DEF nextFrame
<1>7. CASE p = OtherFrame
  <2>1. nextFrame /\ UNCHANGED <<activeSession, nextExpected>>
    BY Zenon, <1>7 DEF frame
  <2>2. FeedTyped'
    BY Zenon, <1>1, <1>3, <1>6, <2>1, SameFeed DEF OrderInv, FeedTyped
  <2> QED
    BY Zenon, <1>3, <1>4, <2>1, <2>2, OrderIdle DEF nextFrame, HasPending
<1>8. CASE p # OtherFrame
  <2>1. p \in sent /\ p \in Packets /\ trackSession(p)
    BY Zenon, <1>2, <1>8 DEF frame, OrderInv, FeedTyped
  <2>2. FeedTyped'
    BY Zenon, <1>1, <1>3, <1>6, <2>1, Track, SameFeed DEF OrderInv, FeedTyped
  <2>3. /\ HasPending' <=> isData(p)
        /\ HasPending' => netPc' = "copy" /\ frameNo' = frameNo
    <3>1. /\ isData(p) => ~isEnd(p)
          /\ isEnd(p) \/ isData(p) =>
               netPc' = (IF isEnd(p) THEN "pushEnd" ELSE "copy") /\ UNCHANGED frameNo
          /\ ~(isEnd(p) \/ isData(p)) => netPc' \in {"release", "frame"}
      BY Zenon, <1>8 DEF frame, nextFrame, isData
    <3> HIDE DEF p
    <3> QED
      BY Zenon, <3>1 DEF HasPending
  <2>4. HasPending' => Pending' = p
    BY Zenon, <1>3, <2>3 DEF Pending
  <2> HIDE DEF p
  <2> QED
    BY Zenon, <1>3, <1>4, <2>1, <2>2, <2>3, <2>4, OrderTrack
<1> QED
  BY Zenon, <1>7, <1>8

(* The AF_XDP handler copies the packet into a buffer, or drops it.        *)
LEMMA OrderXdpCopy ==
  ASSUME OrderInv, useXdp, UNCHANGED useXdp, copy
  PROVE  FeedTyped' /\ Ordered'
<1> USE DEF setupVars, engineVars, sessionVars, kernelVars
<1>1. /\ netPc = "copy" /\ frameNo \in Nat /\ rcvd \in Nat
      /\ frameNo < rcvd /\ rcvd <= Len(rx)
  BY Zenon DEF copy, OrderInv, FeedTyped
<1>2. /\ UNCHANGED <<sent, poolSlots, ring, enginePc, engineSlot, processed, nextExpected>>
      /\ UNCHANGED <<activeSession, rx, rcvd>>
      /\ SlotIdx' = SlotIdx
  BY Zenon, SameSlots DEF copy
<1>3. /\ HasPending /\ Pending = rx[frameNo + 1].packet
      /\ Pending \in DataPackets /\ Last(Pending) = nextExpected
  BY Zenon, <1>1 DEF HasPending, Pending, OrderInv, Ordered
<1>4. slots \in [SlotIdx -> Packets \cup {NoPacket}]
  BY Zenon DEF OrderInv, FeedTyped
<1>5. CASE pool = <<>>
  <2>1. nextFrame /\ UNCHANGED slots
    BY Zenon, <1>5 DEF copy
  <2>2. FeedTyped'
    BY <1>1, <1>2, <2>1, SameFeed DEF OrderInv, FeedTyped, nextFrame
  <2>3. ~HasPending'
    BY Zenon, <2>1 DEF nextFrame, HasPending
  <2>4. Horizon \in Nat /\ Horizon' \in Nat /\ Horizon <= Horizon'
    BY Zenon, <1>2, <2>3, HorizonIsNat DEF Horizon
  <2> QED
    BY Zenon, <1>2, <2>1, <2>2, <2>3, <2>4, OrderFrame
<1>6. CASE pool # <<>>
  <2> DEFINE x == Head(pool)
  <2>1. /\ x \in SlotIdx /\ \A n \in DOMAIN ring : ring[n] # x
        /\ x # engineSlot
    BY <1>6, PlaceTypes, Elements, SMTT(30) DEF OrderInv, PlaceInv, OnePlace
  <2>2. /\ netPc' = "push" /\ netSlot' = x /\ UNCHANGED frameNo
        /\ slots' = [slots EXCEPT ![x] = Pending]
    BY Zenon, <1>3, <1>6 DEF copy
  <2> HIDE DEF x
  <2>3. slots'[x] = Pending /\ slots' \in [SlotIdx -> Packets \cup {NoPacket}]
    BY Zenon, <1>3, <1>4, <2>1, <2>2, DataNumbers DEF OrderInv
  <2>4. FeedTyped'
    BY Zenon, <1>1, <1>2, <2>2, <2>3, SameFeed DEF OrderInv, FeedTyped
  <2>5. HasPending' /\ Pending' = Pending
    BY Zenon, <2>2, <2>3 DEF HasPending, Pending
  <2>6. Horizon' = Horizon /\ Horizon \in Nat
    BY Zenon, <1>3, <2>5, HorizonIsNat DEF Horizon
  <2>7. \A n \in DOMAIN ring : ring[n] \in SlotIdx => slots'[ring[n]] = slots[ring[n]]
    BY Zenon, <1>4, <2>1, <2>2
  <2>8. EngineHolds => slots'[engineSlot] = slots[engineSlot]
    BY Zenon, <1>4, <2>1, <2>2, PlaceTypes DEF OrderInv
  <2> QED
    BY <1>2, <1>3, <2>4, <2>5, <2>6, <2>7, <2>8, OrderFrame, SMTT(30) DEF Last
<1> QED
  BY Zenon, <1>5, <1>6

(* A step of the AF_XDP handler, or of the kernel.                         *)
LEMMA OrderXdp ==
  ASSUME OrderInv, useXdp, UNCHANGED useXdp,
         xdpStep \/ xdpSetup \/ \E p \in sent \cup {OtherFrame} : arrive(p)
  PROVE  FeedTyped' /\ Ordered'
<1> USE DEF setupVars, engineVars, sessionVars, kernelVars, batchVars
<1>1. CASE frame
  BY Zenon, <1>1, OrderXdpFrame
<1>2. CASE copy
  BY Zenon, <1>2, OrderXdpCopy
<1>3. CASE xdpPush
  <2>1. FeedTyped'
    BY <1>3, SameSlots, SameFeed DEF xdpPush, nextFrame, OrderInv, FeedTyped
  <2> QED
    BY Zenon, <1>3, <2>1, OrderPush DEF xdpPush, nextFrame, HasPending
<1>4. CASE xdpPushEnd
  <2>1. FeedTyped'
    BY Zenon, <1>4, SameSlots, SameFeed DEF xdpPushEnd, OrderInv, FeedTyped
  <2> QED
    BY Zenon, <1>4, <2>1, OrderSentinel DEF xdpPushEnd, HasPending
<1>5. CASE xdpSetup \/ refill
  <2>1. FeedTyped'
    BY Zenon, <1>5, SameSlots, SameFeed DEF xdpSetup, refill, OrderInv, FeedTyped
  <2> QED
    BY Zenon, <1>5, <2>1, OrderIdle DEF xdpSetup, refill, HasPending
<1>6. CASE peek
  <2>1. /\ netPc' = "frame" => frameNo' = 0 /\ rcvd' \in 1 .. Len(rx)
        /\ rcvd' \in Nat
    BY <1>6 DEF peek, OrderInv, FeedTyped
  <2>2. netPc' \notin {"copy", "push"} /\ netPc = "peek"
    BY <1>6 DEF peek
  <2>3. FeedTyped'
    BY <1>6, <2>1, <2>2, SameSlots, SameFeed DEF peek, OrderInv, FeedTyped
  <2> QED
    BY Zenon, <1>6, <2>2, <2>3, OrderIdle DEF peek, HasPending
<1>7. CASE releaseRx
  <2>1. SubSeq(rx, rcvd + 1, Len(rx)) \in Seq(Descriptors)
    <3>1. rx \in Seq(Descriptors) /\ rcvd \in Nat
      BY Zenon DEF OrderInv, FeedTyped
    <3> HIDE DEF Descriptors
    <3> QED
      BY <3>1
  <2>2. FeedTyped'
    BY Zenon, <1>7, <2>1, SameSlots, SameFeed DEF releaseRx, OrderInv, FeedTyped
  <2> QED
    BY Zenon, <1>7, <2>2, OrderIdle DEF releaseRx, HasPending
<1>8. ASSUME NEW p \in sent \cup {OtherFrame}, arrive(p) PROVE FeedTyped' /\ Ordered'
  <2> USE DEF loopVars, netVars
  <2> DEFINE d == [addr |-> Head(fill), packet |-> p]
  <2>1. rx' = Append(rx, d) /\ rx \in Seq(Descriptors) /\ d \in Descriptors
    BY Zenon, <1>8 DEF arrive, Descriptors, OrderInv, FeedTyped
  <2> HIDE DEF d
  <2>2. /\ rx' \in Seq(Descriptors) /\ Len(rx') = Len(rx) + 1 /\ Len(rx) \in Nat
        /\ \A n \in 1 .. Len(rx) : rx'[n] = rx[n]
    BY <2>1
  <2>3. FeedTyped'
    <3>1. UNCHANGED <<sent, poolSlots, slots, nextExpected, activeSession, processed,
                      netPc, rcvd, frameNo>>
      BY Zenon, <1>8 DEF arrive
    <3>2. SlotIdx' = SlotIdx /\ Descriptors' = Descriptors
      BY Zenon, <3>1, SameSlots, SameFeed
    <3>3. rcvd \in Nat /\ rcvd <= Len(rx) => rcvd <= Len(rx')
      BY <2>2
    <3> QED
      BY Zenon, <2>2, <3>1, <3>2, <3>3 DEF OrderInv, FeedTyped
  <2>4. HasPending' = HasPending /\ (HasPending => Pending' = Pending)
    <3>1. UNCHANGED <<netPc, netSlot, slots, frameNo>>
      BY Zenon, <1>8 DEF arrive
    <3>2. ASSUME netPc = "copy" PROVE frameNo + 1 \in 1 .. Len(rx)
      <4>1. frameNo \in Nat /\ frameNo < rcvd /\ rcvd <= Len(rx) /\ rcvd \in Nat
        BY Zenon, <3>2 DEF OrderInv, FeedTyped
      <4> QED
        BY <2>2, <4>1
    <3> QED
      BY Zenon, <2>2, <3>1, <3>2 DEF HasPending, Pending
  <2>5. Horizon' = Horizon /\ Horizon \in Nat
    BY Zenon, <1>8, <2>4, HorizonIsNat DEF arrive, Horizon
  <2>6. UNCHANGED <<ring, enginePc, engineSlot, processed, sent, poolSlots, slots, nextExpected>>
    BY Zenon, <1>8 DEF arrive
  <2>7. HasPending' => Pending' \in DataPackets /\ Last(Pending)' = nextExpected'
    BY Zenon, <2>4, <2>6 DEF OrderInv, Ordered, Last
  <2>8. Horizon' \in Nat /\ Horizon <= Horizon'
    BY <2>5
  <2> QED
    BY Zenon, <2>3, <2>5, <2>6, <2>7, <2>8, OrderFrame
<1> QED
  BY Zenon, <1>1, <1>2, <1>3, <1>4, <1>5, <1>6, <1>7, <1>8 DEF xdpStep

(* The messages found in a buffer are numbered from the sequence number    *)
(* on.                                                                     *)
LEMMA Messages ==
  ASSUME NEW q \in Seq(Sessions \X Nat), NEW p \in Packets
  PROVE  LET r == q \o messages(p)
         IN  /\ r \in Seq(Sessions \X Nat) /\ Len(r) = Len(q) + p.fits /\ Len(q) \in Nat
             /\ \A n \in 1 .. Len(q) : r[n] = q[n] /\ q[n][2] \in Nat
             /\ \A n \in Len(q) + 1 .. Len(r) : r[n][2] = p.seq + (n - Len(q)) - 1
<1>1. p.seq \in Nat /\ p.seq >= 1 /\ p.fits \in Nat /\ p.session \in Sessions
  BY Zenon, PacketNumbers
<1> DEFINE T == Sessions \X Nat
           g == messages(p)
           r == q \o g
<1>2. \A n \in 1 .. p.fits : <<p.session, p.seq + n - 1>> \in T
  BY <1>1
<1>3. \A n \in 1 .. Len(q) : q[n][2] \in Nat
  <2> SUFFICES ASSUME NEW n \in 1 .. Len(q) PROVE q[n][2] \in Nat
    BY Zenon
  <2>1. q[n] \in Sessions \X Nat
    OBVIOUS
  <2> QED
    BY Zenon, <2>1
<1>4. q \in Seq(T)
  BY Zenon
<1> HIDE DEF T
<1>5. g \in Seq(T) /\ Len(g) = p.fits
  <2>1. g \in [1 .. p.fits -> T]
    BY Zenon, <1>2 DEF messages
  <2> HIDE DEF g
  <2> QED
    BY Zenon, <1>1, <2>1, IntervalIsSeq
<1>6. \A n \in 1 .. p.fits : g[n][2] = p.seq + n - 1
  BY Zenon DEF messages
<1> HIDE DEF g
<1>7. /\ r \in Seq(T) /\ Len(r) = Len(q) + p.fits /\ Len(q) \in Nat
      /\ \A n \in 1 .. Len(q) : r[n] = q[n]
      /\ \A n \in Len(q) + 1 .. Len(r) : r[n] = g[n - Len(q)]
  <2>1. /\ r \in Seq(T) /\ Len(r) = Len(q) + Len(g) /\ Len(q) \in Nat
        /\ \A n \in 1 .. Len(q) : r[n] = q[n]
        /\ \A n \in Len(q) + 1 .. Len(q) + Len(g) : r[n] = g[n - Len(q)]
    BY <1>4, <1>5, Concatenated, Zenon
  <2> HIDE DEF r
  <2> QED
    BY <1>5, <2>1
<1> HIDE DEF r
<1>8. \A n \in Len(q) + 1 .. Len(r) : r[n][2] = p.seq + (n - Len(q)) - 1
  <2> SUFFICES ASSUME NEW n \in Len(q) + 1 .. Len(r)
               PROVE  r[n][2] = p.seq + (n - Len(q)) - 1
    BY Zenon
  <2>1. n - Len(q) \in 1 .. p.fits
    BY <1>1, <1>7
  <2> QED
    BY Zenon, <1>6, <1>7, <2>1
<1> QED
  BY Zenon, <1>3, <1>7, <1>8 DEF T, r, g

(* A step of the matching thread.                                          *)
LEMMA OrderEngine ==
  ASSUME OrderInv, engineStep \/ spin, UNCHANGED <<xdpVars, useXdp>>
  PROVE  FeedTyped' /\ Ordered'
<1> USE DEF setupVars, netVars, sessionVars, xdpVars, kernelVars, batchVars
<1>0. /\ UNCHANGED <<sent, poolSlots, slots, netPc, netSlot, nextExpected, activeSession>>
      /\ SlotIdx' = SlotIdx
      /\ HasPending' = HasPending /\ Pending' = Pending /\ Horizon' = Horizon
  <2>1. UNCHANGED <<sent, poolSlots, slots, netPc, netSlot, nextExpected, activeSession>>
    BY Zenon DEF engineStep, pop, popEnd, process, release, setStop, join, spin
  <2> QED
    BY Zenon, <2>1, SameSlots, SameHorizon
<1>1. CASE ~process
  <2>1. UNCHANGED processed
    BY Zenon, <1>1 DEF engineStep, pop, popEnd, release, setStop, join, spin
  <2>2. FeedTyped'
    BY Zenon, <1>0, <2>1, SameFeed DEF OrderInv, FeedTyped
  <2>3. InOrderOnce'
    BY Zenon, <2>1 DEF OrderInv, Ordered, InOrderOnce
  <2> HIDE DEF Horizon, Pending, HasPending
  <2>4. CASE pop \/ popEnd
    <3>1. ring # <<>> /\ ring' = Tail(ring) /\ ring \in Seq(SlotIdx \cup {kPoolInvalid})
      BY Zenon, <2>4, PlaceTypes DEF pop, popEnd, OrderInv
    <3>2. /\ \A n \in DOMAIN ring' : ring'[n] = ring[n + 1] /\ n + 1 \in DOMAIN ring
                                       /\ n \in Nat /\ n >= 1
          /\ Head(ring) = ring[1] /\ 1 \in DOMAIN ring
          /\ Head(ring) \in SlotIdx \cup {kPoolInvalid}
      BY <3>1, Elements
    <3>3. enginePc' = "process" => engineSlot' = ring[1] /\ ring[1] \in SlotIdx
      BY ZenonT(40), <2>4, <3>2 DEF pop, popEnd
    <3>4. /\ \A n \in DOMAIN ring' : ring'[n] \in SlotIdx =>
               slots[ring'[n]] \in DataPackets /\ Last(slots[ring'[n]]) <= Horizon
          /\ \A m, n \in DOMAIN ring' : m < n /\ ring'[m] \in SlotIdx /\ ring'[n] \in SlotIdx =>
               Last(slots[ring'[m]]) <= slots[ring'[n]].seq
      BY <3>2, SMTT(30) DEF OrderInv, Ordered
    <3>5. enginePc' = "process" =>
            /\ slots[engineSlot'] \in DataPackets /\ Last(slots[engineSlot']) <= Horizon
            /\ \A n \in DOMAIN ring' : ring'[n] \in SlotIdx =>
                 Last(slots[engineSlot']) <= slots[ring'[n]].seq
      BY <3>2, <3>3, SMTT(30) DEF OrderInv, Ordered
    <3>6. \A k \in DOMAIN processed :
            /\ processed[k][2] < Horizon
            /\ enginePc' = "process" => processed[k][2] < slots[engineSlot'].seq
            /\ \A n \in DOMAIN ring' : ring'[n] \in SlotIdx => processed[k][2] < slots[ring'[n]].seq
      BY ZenonT(40), <3>2, <3>3 DEF OrderInv, Ordered
    <3>7. HasPending => Pending \in DataPackets /\ Last(Pending) = nextExpected
      BY DEF OrderInv, Ordered
    <3> QED
      BY Zenon, <1>0, <2>1, <2>2, <2>3, <3>4, <3>5, <3>6, <3>7, SameFeed DEF Ordered, Last
  <2>5. CASE release \/ setStop \/ join \/ spin
    <3>1. UNCHANGED ring /\ enginePc' # "process"
      BY Zenon, <2>5 DEF release, setStop, join, spin
    <3> QED
      BY Zenon, <1>0, <2>1, <2>2, <2>3, <3>1, SameFeed DEF OrderInv, Ordered, Last
  <2> QED
    BY Zenon, <1>1, <2>4, <2>5 DEF engineStep
<1>2. CASE process
  <2> DEFINE p == slots[engineSlot]
  <2>1. /\ p \in Packets /\ Last(p) <= Horizon /\ Horizon \in Nat
        /\ enginePc = "process" /\ enginePc' = "release"
        /\ processed' = processed \o messages(p) /\ UNCHANGED <<ring, engineSlot>>
        /\ processed \in Seq(Sessions \X Nat)
    BY Zenon, <1>2, HorizonIsNat, DataNumbers DEF process, OrderInv, Ordered, FeedTyped
  <2>2. /\ \A n \in DOMAIN ring : ring[n] \in SlotIdx =>
             slots[ring[n]] \in DataPackets /\ Last(p) <= slots[ring[n]].seq
        /\ \A k \in 1 .. Len(processed) : processed[k][2] < p.seq
    <3>1. DOMAIN processed = 1 .. Len(processed)
      BY <2>1
    <3>2. \A k \in DOMAIN processed : processed[k][2] < p.seq
      BY Zenon, <2>1 DEF OrderInv, Ordered
    <3>3. \A n \in DOMAIN ring : ring[n] \in SlotIdx =>
            slots[ring[n]] \in DataPackets /\ Last(p) <= slots[ring[n]].seq
      BY Zenon, <2>1 DEF OrderInv, Ordered
    <3> QED
      BY Zenon, <3>1, <3>2, <3>3
  <2> HIDE DEF p
  <2>3. /\ processed' \in Seq(Sessions \X Nat) /\ Len(processed') = Len(processed) + p.fits
        /\ Len(processed) \in Nat
        /\ \A n \in 1 .. Len(processed) :
             processed'[n] = processed[n] /\ processed[n][2] \in Nat
        /\ \A n \in Len(processed) + 1 .. Len(processed') :
             processed'[n][2] = p.seq + (n - Len(processed)) - 1
    BY SMTT(40), <2>1, Messages
  <2>4. /\ p.seq \in Nat /\ p.count \in Nat /\ Last(p) = p.seq + p.count
        /\ p.fits \in Nat /\ p.fits <= p.count
    BY Zenon, <2>1, PacketNumbers DEF Last
  <2> DEFINE was(n) == processed[n][2]
             is(n) == processed'[n][2]
             len == Len(processed)
             len1 == Len(processed')
  <2>5. /\ len \in Nat /\ len1 = len + p.fits
        /\ \A n \in 1 .. len : is(n) = was(n) /\ was(n) \in Nat /\ was(n) < p.seq
        /\ \A n \in len + 1 .. len1 : is(n) = p.seq + (n - len) - 1
        /\ \A m, n \in 1 .. len : m < n => was(m) < was(n)
    BY Zenon, <2>2, <2>3 DEF OrderInv, Ordered, InOrderOnce
  <2>6. /\ \A k \in 1 .. len1 : is(k) < Last(p) /\ is(k) \in Nat
        /\ \A m, n \in 1 .. len1 : m < n => is(m) < is(n)
    <3> HIDE DEF was, is, len, len1
    <3> QED
      BY <2>4, <2>5
  <2>7. InOrderOnce'
    BY Zenon, <2>6 DEF InOrderOnce
  <2>8. FeedTyped'
    BY Zenon, <1>0, <2>3, SameFeed DEF OrderInv, FeedTyped
  <2>9. \A k \in DOMAIN processed' :
          /\ processed'[k][2] < Horizon
          /\ \A n \in DOMAIN ring : ring[n] \in SlotIdx => processed'[k][2] < slots[ring[n]].seq
    <3>1. DOMAIN processed' = 1 .. Len(processed')
      BY <2>3, SMTT(30)
    <3>2. \A n \in DOMAIN ring : ring[n] \in SlotIdx =>
            slots[ring[n]].seq \in Nat /\ Last(p) <= slots[ring[n]].seq
      BY Zenon, <2>2, DataNumbers DEF OrderInv
    <3>3. Last(p) \in Nat
      BY <2>4
    <3> SUFFICES ASSUME NEW k \in 1 .. len1
                 PROVE  /\ is(k) < Horizon
                        /\ \A n \in DOMAIN ring : ring[n] \in SlotIdx => is(k) < slots[ring[n]].seq
      BY Zenon, <3>1
    <3>4. is(k) < Last(p) /\ is(k) \in Nat
      BY Zenon, <2>6
    <3> HIDE DEF Horizon, is
    <3> QED
      BY <2>1, <3>2, <3>3, <3>4, SMTT(30)
  <2> HIDE DEF Horizon, Pending, HasPending
  <2> QED
    BY Zenon, <1>0, <2>1, <2>7, <2>8, <2>9, SameFeed DEF OrderInv, Ordered, Last
<1> QED
  BY Zenon, <1>1, <1>2

(* Every step keeps the numbers growing.                                   *)
LEMMA OrderNext == OrderInv /\ [Next]_vars => OrderInv'
<1> SUFFICES ASSUME OrderInv, [Next]_vars PROVE FeedTyped' /\ Ordered'
  BY Zenon, PlaceNext DEF OrderInv
<1>1. CASE UNCHANGED vars
  <2> USE <1>1, SameSlots DEF vars, loopVars, setupVars, netVars, sessionVars, engineVars,
                              xdpVars, kernelVars, batchVars
  <2>1. FeedTyped'
    BY Zenon, SameFeed DEF OrderInv, FeedTyped
  <2>2. UNCHANGED <<HasPending, Pending, Horizon, InOrderOnce>>
    BY Zenon DEF HasPending, Pending, Horizon, InOrderOnce
  <2> QED
    BY Zenon, <2>1, <2>2, SameFeed DEF OrderInv, Ordered, Last
<1>2. CASE network /\ UNCHANGED useXdp
  BY Zenon, <1>2, OrderUdp, OrderXdp DEF network
<1>3. CASE netStep
  BY Zenon, <1>3, OrderUdp, OrderXdp DEF netStep
<1> QED
  BY Zenon, <1>1, <1>2, <1>3, OrderEngine DEF Next, Terminated

(* Messages are processed in the order of their numbers and none twice,    *)
(* for every feed, ring, pool and batch size, either handler, and every    *)
(* loss, duplication, reordering and drop.                                 *)
THEOREM ProcessedInOrder == Spec => []InOrderOnce
<1>1. OrderInv => InOrderOnce
  BY Zenon DEF OrderInv, Ordered
<1> QED
  BY <1>1, OrderInit, OrderNext, PTL DEF Spec
=============================================================================
