-------------------------- MODULE FeedAccountProofs --------------------------
(***************************************************************************)
(* What is accounted for between the two threads.  Every hole in the       *)
(* messages processed shows in the handler's statistics; every buffer is   *)
(* in exactly one place, the pool, the ring or the hands of one thread;    *)
(* and so is every frame the AF_XDP handler shares with the kernel.        *)
(***************************************************************************)
EXTENDS LiveFeedProofs

(* Holes are counted.                                                      *)
NoLoss == gapsDetected = 0 /\ packetsDropped = 0

(* Where the matching thread will go on: with the packet in its hand, the  *)
(* first one on the ring, or the next that the network thread hands over.  *)
(* Once the network thread has ended there may be none.                    *)
FollowsOn(next) ==
  /\ ring # <<>> /\ ring[1] \in SlotIdx => next = slots[ring[1]].seq
  /\ ring = <<>> /\ ~NetEnded => next = Horizon

(* From the last message processed up to the number next, there are only   *)
(* messages that no buffer has kept.                                       *)
Skipped(next) == processed[Len(processed)][2] + 1 .. next - 1 \subseteq CutOff

(* While nothing is lost, each packet starts where the one before ends by  *)
(* its header.                                                             *)
Tight ==
  /\ \A n \in DOMAIN ring : n + 1 \in DOMAIN ring /\ ring[n + 1] \in SlotIdx =>
       Last(slots[ring[n]]) = slots[ring[n + 1]].seq
  /\ ring # <<>> /\ ~NetEnded => Last(slots[ring[Len(ring)]]) = Horizon
  /\ enginePc = "process" => FollowsOn(Last(slots[engineSlot]))
  /\ processed # <<>> =>
       IF enginePc = "process"
       THEN Skipped(slots[engineSlot].seq)
       ELSE \E next : FollowsOn(next) /\ Skipped(next)
  /\ Contiguous

(* Nothing is accepted before the handler knows its session.               *)
Counted ==
  /\ gapsDetected \in Nat /\ packetsDropped \in Nat
  /\ activeSession = NoSession =>
       /\ netPc \notin {"copy", "push", "pushEnd"}
       /\ ring = <<>> /\ processed = <<>> /\ enginePc # "process"

GapInv == OrderInv /\ Counted /\ (NoLoss => Tight)

(* It holds initially: nothing was lost.                                   *)
LEMMA GapInit == Init => GapInv
<1> SUFFICES ASSUME Init PROVE GapInv
  BY Zenon
<1>1. OrderInv
  BY Zenon, OrderInit
<1>2. /\ ring = <<>> /\ processed = <<>> /\ netPc = "setup" /\ enginePc = "pop"
      /\ gapsDetected = 0 /\ packetsDropped = 0
      /\ DOMAIN ring = {} /\ Len(processed) = 0
  BY DEF Init, LoopInit
<1>3. Contiguous
  BY <1>2 DEF Contiguous
<1> QED
  BY Zenon, <1>1, <1>2, <1>3 DEF GapInv, Counted, Tight

(* A step of the network thread that leaves the ring alone, and either     *)
(* the horizon too or makes the loss known.                                *)
LEMMA GapFrame ==
  ASSUME GapInv, NoLoss' => NoLoss,
         NoLoss' => Horizon' = Horizon \/ activeSession = NoSession,
         NetEnded => NetEnded',
         \A n \in DOMAIN ring : ring[n] \in SlotIdx => slots'[ring[n]] = slots[ring[n]],
         EngineHolds => slots'[engineSlot] = slots[engineSlot],
         UNCHANGED <<ring, enginePc, engineSlot, processed, sent, poolSlots>>
  PROVE  NoLoss' => Tight'
<1> SUFFICES ASSUME NoLoss' PROVE Tight'
  BY Zenon
<1>0. Tight /\ SlotIdx' = SlotIdx
  BY Zenon, SameSlots DEF GapInv
<1>1. Contiguous' /\ \A next : Skipped(next) => Skipped(next)'
  BY Zenon, <1>0, SameFeed DEF Tight, Contiguous, Skipped
<1>2. ring \in Seq(SlotIdx \cup {kPoolInvalid}) /\ DOMAIN ring = 1 .. Len(ring) /\ Len(ring) \in Nat
  BY Zenon, PlaceTypes, Elements DEF GapInv, OrderInv
<1>3. CASE activeSession = NoSession
  <2>1. ring = <<>> /\ processed = <<>> /\ enginePc # "process" /\ DOMAIN ring = {}
    BY <1>3, SMTT(30) DEF GapInv, Counted
  <2> QED
    BY Zenon, <1>1, <2>1 DEF Tight
<1>4. CASE activeSession # NoSession
  <2>1. Horizon' = Horizon
    BY Zenon, <1>4
  <2>2. \A n \in DOMAIN ring : ring[n] \in SlotIdx \/ (n = Len(ring) /\ NetEnded)
    <3>1. \A n \in DOMAIN ring : ring[n] = kPoolInvalid => n = Len(ring) /\ NetEnded
      BY Zenon DEF GapInv, OrderInv, PlaceInv, EndInv
    <3>2. \A n \in DOMAIN ring : ring[n] \in SlotIdx \cup {kPoolInvalid}
      BY Zenon, <1>2, Elements
    <3> QED
      BY Zenon, <3>1, <3>2
  <2>3. \A n \in DOMAIN ring : n + 1 \in DOMAIN ring /\ ring[n + 1] \in SlotIdx =>
          Last(slots'[ring[n]]) = slots'[ring[n + 1]].seq
    BY <1>0, <1>2, <2>2, SMTT(30) DEF Tight
  <2>4. ring # <<>> /\ ~NetEnded' => Last(slots'[ring[Len(ring)]]) = Horizon
    <3> SUFFICES ASSUME ring # <<>>, ~NetEnded' PROVE Last(slots'[ring[Len(ring)]]) = Horizon
      BY Zenon
    <3>1. Len(ring) \in DOMAIN ring /\ ~NetEnded
      BY <1>2, Elements, SMTT(30)
    <3> QED
      BY Zenon, <1>0, <2>2, <3>1 DEF Tight
  <2>5. ASSUME NEW next, FollowsOn(next) PROVE FollowsOn(next)'
    <3>1. ring # <<>> => 1 \in DOMAIN ring
      BY Zenon, <1>2, Elements
    <3> HIDE DEF Horizon
    <3> QED
      BY Zenon, <1>0, <2>1, <2>5, <3>1 DEF FollowsOn
  <2> HIDE DEF Horizon
  <2> QED
    BY Zenon, <1>0, <1>1, <2>1, <2>3, <2>4, <2>5 DEF Tight, Last, EngineHolds
<1> QED
  BY Zenon, <1>3, <1>4

(* A step that leaves the statistics, the session and the buffers alone.   *)
LEMMA GapIdle ==
  ASSUME GapInv, ~HasPending, ~HasPending', netPc' # "pushEnd", NetEnded => NetEnded',
         UNCHANGED <<ring, enginePc, engineSlot, processed, sent, poolSlots, slots, nextExpected,
                     activeSession, gapsDetected>>,
         packetsDropped' \in {packetsDropped, packetsDropped + 1}
  PROVE  Counted' /\ (NoLoss' => Tight')
<1>1. Counted'
  BY DEF GapInv, Counted, HasPending
<1>2. Horizon' = Horizon
  BY Zenon DEF Horizon
<1>3. NoLoss' => NoLoss
  BY DEF NoLoss, GapInv, Counted
<1> QED
  BY Zenon, <1>1, <1>2, <1>3, GapFrame

(* The packet is handed over, or its loss is counted.                      *)
LEMMA GapPush ==
  ASSUME GapInv, netPc = "push", pushOrDrop, ~HasPending', netPc' \notin {"pushEnd", "done"},
         UNCHANGED <<enginePc, engineSlot, processed, sent, poolSlots, slots, nextExpected,
                     activeSession, gapsDetected, done>>
  PROVE  Counted' /\ (NoLoss' => Tight')
<1>0. activeSession # NoSession
  BY Zenon DEF GapInv, Counted
<1>1. CASE ringFull
  <2>1. packetsDropped' = packetsDropped + 1 /\ packetsDropped \in Nat
    BY Zenon, <1>1 DEF pushOrDrop, GapInv, Counted
  <2> QED
    BY <1>0, <2>1 DEF GapInv, Counted, NoLoss
<1>2. CASE ~ringFull
  <2>1. /\ ring' = Append(ring, netSlot) /\ UNCHANGED packetsDropped
        /\ ring \in Seq(SlotIdx) /\ netSlot \in SlotIdx /\ SlotIdx' = SlotIdx
        /\ ~NetEnded /\ ~NetEnded'
    BY Zenon, <1>2, PlaceTypes, SameSlots
    DEF pushOrDrop, GapInv, OrderInv, PlaceInv, EndInv, BuffersCounted, NetHolds, NetEnded
  <2>2. Counted'
    BY Zenon, <1>0, <2>1 DEF GapInv, Counted
  <2> SUFFICES ASSUME NoLoss' PROVE Tight'
    BY Zenon, <2>2
  <2>3. Tight
    BY Zenon, <2>1 DEF NoLoss, GapInv
  <2>4. /\ Horizon = slots[netSlot].seq /\ Last(slots[netSlot]) = nextExpected
        /\ Horizon' = nextExpected
    BY Zenon, HorizonIsNat DEF HasPending, Pending, Horizon, GapInv, OrderInv, Ordered
  <2>5. /\ Len(ring) \in Nat /\ DOMAIN ring = 1 .. Len(ring)
        /\ DOMAIN ring' = 1 .. Len(ring) + 1 /\ Len(ring') = Len(ring) + 1
        /\ ring'[Len(ring) + 1] = netSlot
        /\ \A n \in DOMAIN ring : ring'[n] = ring[n] /\ ring[n] \in SlotIdx
        /\ ring' # <<>>
        /\ ring = <<>> <=> Len(ring) = 0
    BY <2>1, Elements, Lengths, SMTT(30)
  <2> HIDE DEF Horizon
  <2>6. \A n \in DOMAIN ring' : n + 1 \in DOMAIN ring' /\ ring'[n + 1] \in SlotIdx =>
          Last(slots[ring'[n]]) = slots[ring'[n + 1]].seq
    <3> SUFFICES ASSUME NEW n \in DOMAIN ring', n + 1 \in DOMAIN ring'
                 PROVE  Last(slots[ring'[n]]) = slots[ring'[n + 1]].seq
      BY Zenon
    <3>1. CASE n = Len(ring)
      BY <2>1, <2>3, <2>4, <2>5, <3>1, SMTT(30) DEF Tight
    <3>2. CASE n # Len(ring)
      <4>1. n \in DOMAIN ring /\ n + 1 \in DOMAIN ring
        BY <2>5, <3>2
      <4> QED
        BY Zenon, <2>3, <2>5, <4>1 DEF Tight
    <3> QED
      BY Zenon, <3>1, <3>2
  <2>7. ASSUME NEW next, FollowsOn(next) PROVE FollowsOn(next)'
    BY <2>1, <2>4, <2>5, <2>7, SMTT(30) DEF FollowsOn
  <2>8. Contiguous' /\ \A next : Skipped(next) => Skipped(next)'
    BY Zenon, <2>3, SameFeed DEF Tight, Contiguous, Skipped
  <2> QED
    BY Zenon, <2>1, <2>3, <2>4, <2>5, <2>6, <2>7, <2>8 DEF Tight, Last
<1> QED
  BY Zenon, <1>1, <1>2

(* Behind the sentinel nothing follows.                                    *)
LEMMA GapSentinel ==
  ASSUME GapInv, netPc = "pushEnd", pushSentinel, NetEnded', netPc' \notin {"copy", "push", "pushEnd"},
         UNCHANGED <<enginePc, engineSlot, processed, sent, poolSlots, slots, nextExpected,
                     activeSession, gapsDetected, packetsDropped>>
  PROVE  Counted' /\ (NoLoss' => Tight')
<1>0. activeSession # NoSession
  BY Zenon DEF GapInv, Counted
<1>1. Counted'
  BY Zenon, <1>0 DEF GapInv, Counted
<1>2. CASE ringFull
  <2>1. Horizon' = Horizon
    BY Zenon DEF Horizon, HasPending
  <2> QED
    BY Zenon, <1>1, <1>2, <2>1, GapFrame DEF pushSentinel, NoLoss
<1>3. CASE ~ringFull
  <2>1. /\ ring' = Append(ring, kPoolInvalid)
        /\ ring \in Seq(SlotIdx) /\ kPoolInvalid \notin SlotIdx /\ SlotIdx' = SlotIdx
        /\ ~NetEnded
    BY Zenon, <1>3, PlaceTypes, SameSlots
    DEF pushSentinel, GapInv, OrderInv, PlaceInv, EndInv, BuffersCounted, NetEnded
  <2> SUFFICES ASSUME NoLoss' PROVE Tight'
    BY Zenon, <1>1
  <2>2. Tight
    BY Zenon DEF NoLoss, GapInv
  <2>3. /\ Len(ring) \in Nat /\ DOMAIN ring = 1 .. Len(ring)
        /\ DOMAIN ring' = 1 .. Len(ring) + 1
        /\ ring'[Len(ring) + 1] = kPoolInvalid
        /\ \A n \in DOMAIN ring : ring'[n] = ring[n] /\ ring[n] \in SlotIdx
        /\ ring' # <<>>
        /\ ring = <<>> <=> Len(ring) = 0
    <3> DEFINE S == SlotIdx \cup {kPoolInvalid}
    <3>1. ring \in Seq(S) /\ kPoolInvalid \in S
      BY <2>1
    <3>2. \A n \in DOMAIN ring : ring[n] \in SlotIdx
      BY <2>1
    <3> HIDE DEF S
    <3> QED
      BY <2>1, <3>1, <3>2, Elements, Lengths, SMTT(30)
  <2>4. \A n \in DOMAIN ring' : n + 1 \in DOMAIN ring' /\ ring'[n + 1] \in SlotIdx =>
          Last(slots[ring'[n]]) = slots[ring'[n + 1]].seq
    <3> SUFFICES ASSUME NEW n \in DOMAIN ring', n + 1 \in DOMAIN ring', ring'[n + 1] \in SlotIdx
                 PROVE  Last(slots[ring'[n]]) = slots[ring'[n + 1]].seq
      BY Zenon
    <3>1. n \in DOMAIN ring /\ n + 1 \in DOMAIN ring
      BY <2>1, <2>3
    <3> QED
      BY Zenon, <2>2, <2>3, <3>1 DEF Tight
  <2>5. ASSUME NEW next, FollowsOn(next) PROVE FollowsOn(next)'
    BY <2>1, <2>3, <2>5, SMTT(30) DEF FollowsOn
  <2>6. Contiguous' /\ \A next : Skipped(next) => Skipped(next)'
    BY Zenon, <2>2, SameFeed DEF Tight, Contiguous, Skipped
  <2> QED
    BY Zenon, <2>1, <2>2, <2>3, <2>4, <2>5, <2>6 DEF Tight, Last
<1> QED
  BY Zenon, <1>2, <1>3

(* A packet that is accepted and counts no gap has the expected number.    *)
LEMMA NoGap ==
  ASSUME GapInv, NEW p \in Packets, trackSession(p), NoLoss', isData(p), activeSession # NoSession
  PROVE  p.seq = nextExpected
<1>1. gapsDetected \in Nat /\ gapsDetected' = 0
  BY Zenon DEF GapInv, Counted, NoLoss
<1>2. ~isGap(p)
  BY <1>1 DEF trackSession
<1>3. expected(p) = nextExpected /\ nextExpected \in Nat /\ p.seq \in Nat
  BY Zenon, PacketNumbers DEF expected, GapInv, OrderInv, FeedTyped
<1> QED
  BY <1>2, <1>3 DEF isData, isDuplicate, isGap

(* A header is looked at: a number that is not the expected one counts as  *)
(* a gap, unless it is the first.                                          *)
LEMMA GapTrack ==
  ASSUME GapInv, ~HasPending, ~NetEnded, NEW p \in Packets, trackSession(p),
         HasPending' <=> isData(p), HasPending' => Pending' = p,
         \A n \in DOMAIN ring : ring[n] \in SlotIdx => slots'[ring[n]] = slots[ring[n]],
         EngineHolds => slots'[engineSlot] = slots[engineSlot],
         UNCHANGED <<ring, enginePc, engineSlot, processed, sent, poolSlots, packetsDropped>>
  PROVE  Counted' /\ (NoLoss' => Tight')
<1>1. gapsDetected' \in {gapsDetected, gapsDetected + 1} /\ gapsDetected \in Nat
  BY Zenon DEF trackSession, GapInv, Counted
<1>2. activeSession' # NoSession
  BY Zenon, Track DEF GapInv
<1>3. Counted'
  BY <1>1, <1>2, SMTT(30) DEF GapInv, Counted
<1>4. NoLoss' => NoLoss
  BY <1>1, SMTT(30) DEF NoLoss
<1>5. NoLoss' => Horizon' = Horizon \/ activeSession = NoSession
  <2> SUFFICES ASSUME NoLoss', activeSession # NoSession PROVE Horizon' = Horizon
    BY Zenon
  <2>1. expected(p) = nextExpected /\ nextExpected \in Nat /\ p.seq \in Nat /\ Horizon = nextExpected
    BY Zenon, HorizonIsNat, PacketNumbers DEF expected, GapInv
  <2>2. CASE isData(p)
    <3>1. p.seq = nextExpected
      BY Zenon, <2>2, NoGap
    <3> QED
      BY Zenon, <2>1, <2>2, <3>1 DEF Horizon
  <2>3. CASE ~isData(p)
    BY Zenon, <2>1, <2>3 DEF Horizon, trackSession
  <2> QED
    BY Zenon, <2>2, <2>3
<1> QED
  BY Zenon, <1>3, <1>4, <1>5, GapFrame

(* A step of the UDP handler.                                              *)
LEMMA GapUdp ==
  ASSUME GapInv, ~useXdp, udpStep \/ udpReceive, UNCHANGED <<xdpVars, useXdp>>
  PROVE  Counted' /\ (NoLoss' => Tight')
<1> USE DEF setupVars, engineVars, sessionVars, statVars, xdpVars, batchVars
<1>1. CASE setup \/ acquire \/ recvNothing \/ recvScratch \/ recvScratchNothing
  <2>1. /\ UNCHANGED <<ring, enginePc, engineSlot, processed, sent, poolSlots, slots, nextExpected>>
        /\ UNCHANGED <<activeSession, gapsDetected>>
        /\ packetsDropped' \in {packetsDropped, packetsDropped + 1}
        /\ ~HasPending /\ ~HasPending' /\ netPc' # "pushEnd"
    BY Zenon, <1>1 DEF setup, acquire, recvNothing, recvScratch, recvScratchNothing, HasPending
  <2>2. NetEnded => NetEnded'
    BY Zenon, <1>1 DEF setup, acquire, recvNothing, recvScratch, recvScratchNothing, NetEnded
  <2> QED
    BY Zenon, <2>1, <2>2, GapIdle
<1>2. CASE push
  BY Zenon, <1>2, GapPush DEF push, HasPending
<1>3. CASE pushEnd
  BY Zenon, <1>3, GapSentinel DEF pushEnd, NetEnded
<1>4. ASSUME NEW p \in sent, recv(p) PROVE Counted' /\ (NoLoss' => Tight')
  <2>1. p \in Packets /\ netSlot \in SlotIdx /\ ~HasPending /\ ~NetEnded /\ PlaceInv
    BY Zenon, <1>4, PlaceTypes DEF recv, GapInv, OrderInv, FeedTyped, HasPending, NetHolds, NetEnded,
                            PlaceInv, EndInv, BuffersCounted
  <2>2. /\ trackSession(p) /\ slots' = [slots EXCEPT ![netSlot] = p]
        /\ HasPending' <=> isData(p)
        /\ HasPending' => netPc' = "push" /\ netSlot' = netSlot
        /\ UNCHANGED <<ring, enginePc, engineSlot, processed, sent, poolSlots, packetsDropped>>
    BY Zenon, <1>4 DEF recv, HasPending
  <2>3. slots \in [SlotIdx -> Packets \cup {NoPacket}]
    BY Zenon DEF GapInv, OrderInv, FeedTyped
  <2>4. HasPending' => Pending' = p
    BY Zenon, <2>1, <2>2, <2>3 DEF Pending
  <2>5. \A n \in DOMAIN ring : ring[n] \in SlotIdx => slots'[ring[n]] = slots[ring[n]]
    BY Zenon, <2>1, <2>2, <2>3, PlaceTypes DEF PlaceInv, OnePlace
  <2>6. EngineHolds => slots'[engineSlot] = slots[engineSlot]
    BY Zenon, <2>1, <2>2, <2>3, PlaceTypes DEF PlaceInv, OnePlace
  <2> QED
    BY Zenon, <2>1, <2>2, <2>4, <2>5, <2>6, GapTrack
<1> QED
  BY Zenon, <1>1, <1>2, <1>3, <1>4 DEF udpStep, udpReceive

(* The AF_XDP handler looks at a frame of its batch.                       *)
LEMMA GapXdpFrame ==
  ASSUME GapInv, useXdp, frame
  PROVE  Counted' /\ (NoLoss' => Tight')
<1> USE DEF setupVars, engineVars, sessionVars, kernelVars
<1> DEFINE p == rx[frameNo + 1].packet
<1>1. /\ netPc = "frame" /\ frameNo \in Nat
      /\ frameNo < rcvd /\ rcvd <= Len(rx) /\ rcvd \in Nat /\ rx \in Seq(Descriptors)
  BY Zenon DEF frame, GapInv, OrderInv, FeedTyped
<1>2. p \in sent \cup {OtherFrame}
  <2>1. rx[frameNo + 1] \in Descriptors
    BY <1>1
  <2> QED
    BY Zenon, <2>1 DEF Descriptors
<1>3. UNCHANGED <<sent, poolSlots, slots, ring, enginePc, engineSlot, processed, packetsDropped, rx>>
  BY Zenon DEF frame
<1>4. ~HasPending /\ ~NetEnded
  BY Zenon, <1>1 DEF HasPending, NetEnded, GapInv, OrderInv, PlaceInv, EndInv, BuffersCounted
<1>5. CASE p = OtherFrame
  <2>1. nextFrame /\ UNCHANGED <<activeSession, nextExpected, gapsDetected>>
    BY Zenon, <1>5 DEF frame
  <2> QED
    BY Zenon, <1>3, <1>4, <2>1, GapIdle DEF nextFrame, HasPending
<1>6. CASE p # OtherFrame
  <2>1. p \in Packets /\ trackSession(p)
    BY Zenon, <1>2, <1>6 DEF frame, GapInv, OrderInv, FeedTyped
  <2>2. /\ HasPending' <=> isData(p)
        /\ HasPending' => netPc' = "copy" /\ frameNo' = frameNo
    <3>1. /\ isData(p) => ~isEnd(p)
          /\ isEnd(p) \/ isData(p) =>
               netPc' = (IF isEnd(p) THEN "pushEnd" ELSE "copy") /\ UNCHANGED frameNo
          /\ ~(isEnd(p) \/ isData(p)) => netPc' \in {"release", "frame"}
      BY Zenon, <1>6 DEF frame, nextFrame, isData
    <3> HIDE DEF p
    <3> QED
      BY Zenon, <3>1 DEF HasPending
  <2>3. HasPending' => Pending' = p
    BY Zenon, <1>3, <2>2 DEF Pending
  <2> HIDE DEF p
  <2> QED
    BY Zenon, <1>3, <1>4, <2>1, <2>2, <2>3, GapTrack
<1> QED
  BY Zenon, <1>5, <1>6

(* The AF_XDP handler copies the packet into a buffer, or counts its loss. *)
LEMMA GapXdpCopy ==
  ASSUME GapInv, useXdp, copy
  PROVE  Counted' /\ (NoLoss' => Tight')
<1> USE DEF setupVars, engineVars, sessionVars, kernelVars
<1>1. /\ netPc = "copy" /\ activeSession # NoSession
      /\ packetsDropped \in Nat /\ gapsDetected \in Nat
  BY Zenon DEF copy, GapInv, Counted
<1>2. /\ UNCHANGED <<sent, poolSlots, ring, enginePc, engineSlot, processed, nextExpected>>
      /\ UNCHANGED <<activeSession, rx, gapsDetected, done>>
  BY Zenon DEF copy
<1>3. CASE pool = <<>>
  <2>1. packetsDropped' = packetsDropped + 1
    BY Zenon, <1>3 DEF copy
  <2> QED
    BY <1>1, <1>2, <2>1, SMTT(30) DEF GapInv, Counted, NoLoss
<1>4. CASE pool # <<>>
  <2> DEFINE x == Head(pool)
  <2>1. /\ x \in SlotIdx /\ \A n \in DOMAIN ring : ring[n] # x
        /\ x # engineSlot
    <3>1. OnePlace /\ pool \in Seq(SlotIdx)
      BY Zenon, PlaceTypes DEF GapInv, OrderInv, PlaceInv
    <3>2. x = pool[1] /\ 1 \in DOMAIN pool /\ pool[1] \in SlotIdx
      BY Zenon, <1>4, <3>1, Elements
    <3> QED
      BY Zenon, <3>1, <3>2 DEF OnePlace
  <2>2. /\ netPc' = "push" /\ netSlot' = x /\ UNCHANGED <<frameNo, packetsDropped>>
        /\ slots' = [slots EXCEPT ![x] = Pending] /\ HasPending
    BY Zenon, <1>1, <1>4 DEF copy, Pending, HasPending
  <2>3. slots \in [SlotIdx -> Packets \cup {NoPacket}]
    BY Zenon DEF GapInv, OrderInv, FeedTyped
  <2> HIDE DEF x
  <2>4. HasPending' /\ Pending' = Pending
    BY Zenon, <2>1, <2>2, <2>3 DEF HasPending, Pending
  <2>5. Horizon' = Horizon
    BY Zenon, <2>2, <2>4 DEF Horizon
  <2>6. \A n \in DOMAIN ring : ring[n] \in SlotIdx => slots'[ring[n]] = slots[ring[n]]
    BY Zenon, <2>1, <2>2, <2>3
  <2>7. EngineHolds => slots'[engineSlot] = slots[engineSlot]
    BY Zenon, <2>1, <2>2, <2>3, PlaceTypes DEF GapInv, OrderInv
  <2>8. NetEnded => NetEnded'
    BY Zenon, <1>1, <1>2 DEF NetEnded
  <2>9. Counted' /\ (NoLoss' => NoLoss)
    BY Zenon, <1>1, <1>2, <2>2 DEF Counted, NoLoss
  <2> QED
    BY Zenon, <1>2, <2>5, <2>6, <2>7, <2>8, <2>9, GapFrame
<1> QED
  BY Zenon, <1>3, <1>4

(* A step of the AF_XDP handler, or of the kernel.                         *)
LEMMA GapXdp ==
  ASSUME GapInv, useXdp, UNCHANGED useXdp,
         xdpStep \/ xdpSetup \/ \E p \in sent \cup {OtherFrame} : arrive(p)
  PROVE  Counted' /\ (NoLoss' => Tight')
<1> USE DEF setupVars, engineVars, sessionVars, statVars, kernelVars, batchVars
<1>1. CASE frame
  BY Zenon, <1>1, GapXdpFrame
<1>2. CASE copy
  BY Zenon, <1>2, GapXdpCopy
<1>3. CASE xdpPush
  BY Zenon, <1>3, GapPush DEF xdpPush, nextFrame, HasPending
<1>4. CASE xdpPushEnd
  BY Zenon, <1>4, GapSentinel DEF xdpPushEnd, NetEnded
<1>5. CASE xdpSetup \/ refill \/ releaseRx
  <2>1. /\ UNCHANGED <<ring, enginePc, engineSlot, processed, sent, poolSlots, slots, nextExpected>>
        /\ UNCHANGED <<activeSession, gapsDetected, packetsDropped, done>>
        /\ netPc \in {"setup", "refill", "release"}
        /\ netPc' \in {"peek", "done", "refill"}
    BY Zenon, <1>5 DEF xdpSetup, refill, releaseRx
  <2>2. ~HasPending /\ ~HasPending' /\ (NetEnded => NetEnded')
    BY Zenon, <2>1 DEF HasPending, NetEnded
  <2> QED
    BY Zenon, <2>1, <2>2, GapIdle
<1>6. CASE peek
  BY Zenon, <1>6, GapIdle DEF peek, HasPending, NetEnded
<1>7. ASSUME NEW p \in sent \cup {OtherFrame}, arrive(p)
      PROVE  Counted' /\ (NoLoss' => Tight')
  <2> USE DEF loopVars, netVars
  <2> DEFINE d == [addr |-> Head(fill), packet |-> p]
  <2>1. rx' = Append(rx, d) /\ rx \in Seq(Descriptors) /\ d \in Descriptors
    BY Zenon, <1>7 DEF arrive, Descriptors, GapInv, OrderInv, FeedTyped
  <2> HIDE DEF d
  <2>2. \A n \in 1 .. Len(rx) : rx'[n] = rx[n]
    BY <2>1
  <2>3. HasPending' = HasPending /\ (HasPending => Pending' = Pending)
    <3>1. UNCHANGED <<netPc, netSlot, slots, frameNo>>
      BY Zenon, <1>7 DEF arrive
    <3>2. netPc = "copy" => frameNo + 1 \in 1 .. Len(rx)
      BY <2>1 DEF GapInv, OrderInv, FeedTyped
    <3> QED
      BY Zenon, <2>2, <3>1, <3>2 DEF HasPending, Pending
  <2>4. Horizon' = Horizon
    BY Zenon, <1>7, <2>3 DEF arrive, Horizon
  <2>5. Counted'
    BY Zenon, <1>7 DEF arrive, GapInv, Counted
  <2> QED
    BY Zenon, <1>7, <2>4, <2>5, GapFrame DEF arrive, NetEnded, NoLoss
<1> QED
  BY Zenon, <1>1, <1>2, <1>3, <1>4, <1>5, <1>6, <1>7 DEF xdpStep

(* The matching thread pops a packet: what follows it is on the ring       *)
(* behind it, or not handed over yet.                                      *)
LEMMA GapPop ==
  ASSUME GapInv, Tight, pop, UNCHANGED <<xdpVars, useXdp>>
  PROVE  Tight'
<1> USE DEF setupVars, netVars, sessionVars, xdpVars, batchVars, kernelVars
<1>1. /\ UNCHANGED <<slots, processed, netPc, netSlot, nextExpected, done, rx, frameNo, sent, poolSlots>>
      /\ enginePc = "pop" /\ enginePc' = "process" /\ engineSlot' = Head(ring)
      /\ ring # <<>> /\ ring' = Tail(ring) /\ Head(ring) # kPoolInvalid
  BY Zenon DEF pop
<1>2. /\ Horizon' = Horizon /\ NetEnded' = NetEnded /\ SlotIdx' = SlotIdx
  BY <1>1, SameSlots, SameHorizon DEF NetEnded
<1>3. ring \in Seq(SlotIdx \cup {kPoolInvalid})
  BY Zenon, PlaceTypes DEF GapInv, OrderInv
<1>4. /\ Len(ring) \in Nat /\ DOMAIN ring = 1 .. Len(ring) /\ 1 \in DOMAIN ring
      /\ Len(ring') = Len(ring) - 1 /\ DOMAIN ring' = 1 .. Len(ring) - 1
      /\ \A n \in DOMAIN ring' : ring'[n] = ring[n + 1] /\ n + 1 \in DOMAIN ring
      /\ engineSlot' = ring[1] /\ ring[1] \in SlotIdx
      /\ ring' = <<>> <=> Len(ring) = 1
  <2>1. Tail(ring) = <<>> <=> Len(Tail(ring)) = 0
    BY Zenon, <1>1, <1>3, Lengths
  <2> QED
    BY <1>1, <1>3, <2>1, Elements, Lengths, SMTT(30)
<1>5. \A n \in DOMAIN ring' : n + 1 \in DOMAIN ring' /\ ring'[n + 1] \in SlotIdx =>
        Last(slots[ring'[n]]) = slots[ring'[n + 1]].seq
  <2> SUFFICES ASSUME NEW n \in DOMAIN ring', n + 1 \in DOMAIN ring', ring'[n + 1] \in SlotIdx
               PROVE  Last(slots[ring'[n]]) = slots[ring'[n + 1]].seq
    BY Zenon
  <2>1. /\ ring'[n] = ring[n + 1] /\ ring'[n + 1] = ring[n + 1 + 1]
        /\ n + 1 \in DOMAIN ring /\ n + 1 + 1 \in DOMAIN ring
    BY Zenon, <1>4
  <2> QED
    BY Zenon, <2>1 DEF Tight
<1>6. ring' # <<>> /\ ~NetEnded => Last(slots[ring'[Len(ring')]]) = Horizon
  <2> SUFFICES ASSUME ring' # <<>>, ~NetEnded PROVE ring'[Len(ring')] = ring[Len(ring)]
    BY Zenon, <1>1 DEF Tight
  <2>1. Len(ring') \in DOMAIN ring' /\ Len(ring') + 1 = Len(ring)
    BY <1>4
  <2> QED
    BY Zenon, <1>4, <2>1
<1>7. ring' # <<>> /\ ring'[1] \in SlotIdx => Last(slots[ring[1]]) = slots[ring'[1]].seq
  <2> SUFFICES ASSUME ring' # <<>>, ring'[1] \in SlotIdx
               PROVE  Last(slots[ring[1]]) = slots[ring'[1]].seq
    BY Zenon
  <2>1. 1 \in DOMAIN ring' /\ ring'[1] = ring[1 + 1] /\ 1 + 1 \in DOMAIN ring
    BY <1>4
  <2> QED
    BY Zenon, <1>4, <2>1 DEF Tight
<1>8. ring' = <<>> /\ ~NetEnded => Last(slots[ring[1]]) = Horizon
  BY Zenon, <1>1, <1>4 DEF Tight
<1>9. processed # <<>> => Skipped(slots[ring[1]].seq)
  BY Zenon, <1>1, <1>4 DEF Tight, FollowsOn
<1>10. Contiguous' /\ \A next : Skipped(next) => Skipped(next)'
  BY Zenon, <1>1, SameFeed DEF Tight, Contiguous, Skipped
<1> HIDE DEF Horizon
<1> QED
  BY Zenon, <1>1, <1>2, <1>4, <1>5, <1>6, <1>7, <1>8, <1>9, <1>10 DEF Tight, FollowsOn, Last

(* The matching thread processes a packet: its messages follow each other  *)
(* and those before, and what comes next follows the last it announces.    *)
LEMMA GapProcess ==
  ASSUME GapInv, Tight, process, UNCHANGED <<xdpVars, useXdp>>
  PROVE  Tight'
<1> USE DEF setupVars, netVars, sessionVars, xdpVars, batchVars, kernelVars
<1> DEFINE p == slots[engineSlot]
<1>0. p \in DataPackets /\ DataPackets \subseteq Packets
  BY Zenon, DataNumbers DEF process, GapInv, OrderInv, Ordered
<1>1. /\ UNCHANGED <<slots, ring, netPc, netSlot, nextExpected, done, rx, frameNo, sent, poolSlots>>
      /\ UNCHANGED engineSlot
      /\ enginePc = "process" /\ enginePc' = "release"
      /\ processed' = processed \o messages(p)
      /\ p \in Packets /\ processed \in Seq(Sessions \X Nat)
  BY Zenon, <1>0 DEF process, GapInv, OrderInv, FeedTyped
<1>2. /\ Horizon' = Horizon /\ NetEnded' = NetEnded /\ SlotIdx' = SlotIdx /\ CutOff' = CutOff
  BY <1>1, SameSlots, SameHorizon, SameFeed, SMTT(30) DEF NetEnded
<1> DEFINE was(n) == processed[n][2]
           is(n) == processed'[n][2]
           len == Len(processed)
           len1 == Len(processed')
<1>3. /\ len \in Nat /\ len1 = len + p.fits
      /\ \A n \in 1 .. len : is(n) = was(n) /\ was(n) \in Nat
      /\ \A n \in len + 1 .. len1 : is(n) = p.seq + (n - len) - 1
      /\ processed' \in Seq(Sessions \X Nat)
  <2> HIDE DEF p
  <2>1. /\ processed' \in Seq(Sessions \X Nat) /\ Len(processed') = Len(processed) + p.fits
        /\ Len(processed) \in Nat
        /\ \A n \in 1 .. Len(processed) :
             processed'[n] = processed[n] /\ processed[n][2] \in Nat
        /\ \A n \in Len(processed) + 1 .. Len(processed') :
             processed'[n][2] = p.seq + (n - Len(processed)) - 1
    BY Zenon, <1>1, Messages
  <2> QED
    BY Zenon, <2>1
<1>4. /\ processed # <<>> <=> len # 0
      /\ processed' # <<>> <=> len1 # 0
  BY Zenon, <1>1, <1>3, Lengths
<1>5. /\ len # 0 => was(len) + 1 .. p.seq - 1 \subseteq CutOff
      /\ \A n \in 1 .. len - 1 : was(n) + 1 .. was(n + 1) - 1 \subseteq CutOff
  BY Zenon, <1>1, <1>4 DEF Tight, Contiguous, Skipped
<1>6. /\ p.seq \in Nat /\ p.count \in Nat /\ Last(p) = p.seq + p.count
      /\ p.fits \in Nat /\ p.fits <= p.count
  BY Zenon, <1>1, PacketNumbers DEF Last
<1>7. FollowsOn(Last(p))
  BY Zenon, <1>1 DEF Tight
<1>8. p.seq + p.fits .. Last(p) - 1 \subseteq CutOff
  <2> HIDE DEF p
  <2>1. p.seq + p.fits .. p.seq + p.count - 1 \subseteq CutOff
    BY Zenon, <1>0 DEF CutOff
  <2>2. Last(p) - 1 = p.seq + p.count - 1
    BY <1>6
  <2> QED
    BY Zenon, <2>1, <2>2
<1>9. \A n \in 1 .. len1 - 1 : is(n) + 1 .. is(n + 1) - 1 \subseteq CutOff
  <2> HIDE DEF p, was, is, len, len1
  <2> SUFFICES ASSUME NEW n \in 1 .. len1 - 1 PROVE is(n) + 1 .. is(n + 1) - 1 \subseteq CutOff
    BY Zenon
  <2>1. CASE n < len
    <3>1. n \in 1 .. len - 1 /\ n \in 1 .. len /\ n + 1 \in 1 .. len
      BY <1>3, <2>1
    <3> QED
      BY Zenon, <1>3, <1>5, <3>1
  <2>2. CASE n = len
    <3>1. n \in 1 .. len /\ n + 1 \in len + 1 .. len1 /\ len # 0 /\ p.seq + ((n + 1) - len) - 1 = p.seq
      BY <1>3, <1>6, <2>2
    <3>2. is(n) = was(len) /\ is(n + 1) = p.seq
      BY Zenon, <1>3, <2>2, <3>1
    <3> QED
      BY Zenon, <1>5, <3>1, <3>2
  <2>3. CASE n > len
    <3>1. /\ n \in len + 1 .. len1 /\ n + 1 \in len + 1 .. len1
          /\ (p.seq + (n - len) - 1) + 1 .. (p.seq + ((n + 1) - len) - 1) - 1 = {}
      BY <1>3, <1>6, <2>3, SMTT(30)
    <3>2. is(n) = p.seq + (n - len) - 1 /\ is(n + 1) = p.seq + ((n + 1) - len) - 1
      BY Zenon, <1>3, <3>1
    <3> QED
      BY Zenon, <3>1, <3>2
  <2> QED
    BY <1>3, <2>1, <2>2, <2>3, SMTT(30)
<1>10. len1 # 0 => is(len1) + 1 .. Last(p) - 1 \subseteq CutOff
  <2> HIDE DEF p, was, is, len, len1
  <2>1. CASE p.fits = 0
    <3>1. len1 = len /\ (len # 0 => len \in 1 .. len) /\ p.seq + p.fits = p.seq
      BY <1>3, <1>6, <2>1
    <3>2. len # 0 => is(len) = was(len) /\ was(len) \in Nat
      BY Zenon, <1>3, <3>1
    <3>3. \A k \in was(len) + 1 .. Last(p) - 1 : was(len) \in Nat =>
            k \in was(len) + 1 .. p.seq - 1 \/ k \in p.seq .. Last(p) - 1
      BY <1>6
    <3> QED
      BY Zenon, <1>5, <1>8, <3>1, <3>2, <3>3
  <2>2. CASE p.fits # 0
    <3>1. len1 \in len + 1 .. len1 /\ p.seq + (len1 - len) - 1 + 1 = p.seq + p.fits
      BY SMTT(40), <1>3, <1>6, <2>2
    <3>2. is(len1) = p.seq + (len1 - len) - 1
      BY Zenon, <1>3, <3>1
    <3> QED
      BY Zenon, <1>8, <3>1, <3>2
  <2> QED
    BY Zenon, <2>1, <2>2
<1>11. Contiguous'
  BY Zenon, <1>2, <1>9 DEF Contiguous
<1>12. processed' # <<>> => \E next : FollowsOn(next)' /\ Skipped(next)'
  <2>1. processed' # <<>> => Skipped(Last(p))'
    BY Zenon, <1>1, <1>2, <1>4, <1>10 DEF Skipped, Last
  <2> HIDE DEF p, Horizon
  <2>2. FollowsOn(Last(p))'
    BY Zenon, <1>1, <1>2, <1>7 DEF FollowsOn, Last, p
  <2> QED
    BY Zenon, <2>1, <2>2
<1> HIDE DEF Horizon
<1> QED
  BY Zenon, <1>1, <1>2, <1>11, <1>12 DEF Tight, Last

(* A step of the matching thread.                                          *)
LEMMA GapEngine ==
  ASSUME GapInv, engineStep \/ spin, UNCHANGED <<xdpVars, useXdp>>
  PROVE  Counted' /\ (NoLoss' => Tight')
<1> USE DEF setupVars, netVars, sessionVars, statVars, xdpVars, batchVars, kernelVars
<1>1. UNCHANGED <<netPc, netSlot, activeSession, nextExpected, gapsDetected, packetsDropped,
                  slots, sent, poolSlots, done, rx, frameNo>>
  BY Zenon DEF engineStep, pop, popEnd, process, release, setStop, join, spin
<1>2. Counted'
  <2>1. CASE activeSession # NoSession
    BY Zenon, <1>1, <2>1 DEF GapInv, Counted
  <2>2. CASE activeSession = NoSession
    <3>1. ring = <<>> /\ processed = <<>> /\ enginePc # "process"
      BY Zenon, <2>2 DEF GapInv, Counted
    <3>2. UNCHANGED <<ring, processed>> /\ enginePc' # "process"
      BY Zenon, <3>1 DEF engineStep, pop, popEnd, process, release, setStop, join, spin
    <3> QED
      BY Zenon, <1>1, <3>1, <3>2 DEF GapInv, Counted
  <2> QED
    BY Zenon, <2>1, <2>2
<1> SUFFICES ASSUME NoLoss PROVE Tight'
  BY Zenon, <1>1, <1>2 DEF NoLoss
<1>3. Tight
  BY Zenon DEF GapInv
<1>4. /\ Horizon' = Horizon /\ NetEnded' = NetEnded /\ SlotIdx' = SlotIdx
  BY <1>1, SameSlots, SameHorizon DEF NetEnded
<1>5. CASE pop
  BY Zenon, <1>3, <1>5, GapPop
<1>6. CASE process
  BY Zenon, <1>3, <1>6, GapProcess
<1>7. CASE popEnd
  <2>1. ring \in Seq(SlotIdx \cup {kPoolInvalid}) /\ ring # <<>> /\ ring' = Tail(ring)
    BY Zenon, <1>7, PlaceTypes DEF popEnd, GapInv, OrderInv
  <2>2. 1 \in DOMAIN ring /\ ring[1] = kPoolInvalid
    BY Zenon, <1>7, <2>1, Elements DEF popEnd
  <2>3. Len(ring) = 1 /\ NetEnded
    BY Zenon, <2>2 DEF GapInv, OrderInv, PlaceInv, EndInv
  <2>4. ring' = <<>> /\ DOMAIN ring' = {}
    <3>1. Tail(ring) = <<>>
      BY <2>1, <2>3, Lengths
    <3> QED
      BY <2>1, <3>1
  <2>5. UNCHANGED processed /\ enginePc = "pop" /\ enginePc' = "stop"
    BY Zenon, <1>7 DEF popEnd
  <2>6. Contiguous' /\ \A next : Skipped(next) => Skipped(next)'
    BY Zenon, <1>1, <1>3, <2>5, SameFeed DEF Tight, Contiguous, Skipped
  <2> QED
    <3>1. \A next : FollowsOn(next)'
      BY Zenon, <1>4, <2>3, <2>4 DEF FollowsOn
    <3>2. processed # <<>> => \E next : Skipped(next)
      BY Zenon, <1>3, <2>5 DEF Tight
    <3> QED
      BY Zenon, <1>4, <2>3, <2>4, <2>5, <2>6, <3>1, <3>2 DEF Tight
<1>8. CASE release \/ setStop \/ join \/ spin
  <2>1. UNCHANGED <<ring, processed>> /\ enginePc # "process" /\ enginePc' # "process"
    BY Zenon, <1>8 DEF release, setStop, join, spin
  <2>2. Contiguous' /\ \A next : Skipped(next) => Skipped(next)'
    BY Zenon, <1>1, <1>3, <2>1, SameFeed DEF Tight, Contiguous, Skipped
  <2> HIDE DEF Horizon
  <2> QED
    BY Zenon, <1>1, <1>3, <1>4, <2>1, <2>2 DEF Tight, FollowsOn, Last
<1> QED
  BY Zenon, <1>5, <1>6, <1>7, <1>8 DEF engineStep

(* Every step keeps the packets tight, or the loss counted.                *)
LEMMA GapNext == GapInv /\ [Next]_vars => GapInv'
<1> SUFFICES ASSUME GapInv, [Next]_vars PROVE Counted' /\ (NoLoss' => Tight')
  BY Zenon, OrderNext DEF GapInv
<1>1. CASE UNCHANGED vars
  <2> USE <1>1 DEF vars, loopVars, setupVars, netVars, sessionVars, statVars, engineVars,
                   xdpVars, kernelVars, batchVars
  <2>1. Counted' /\ (NoLoss' => NoLoss) /\ (NetEnded => NetEnded')
    BY Zenon DEF GapInv, Counted, NoLoss, NetEnded
  <2>2. Horizon' = Horizon
    BY Zenon DEF Horizon, HasPending, Pending
  <2> QED
    BY Zenon, <2>1, <2>2, GapFrame
<1>2. CASE network /\ UNCHANGED useXdp
  BY Zenon, <1>2, GapUdp, GapXdp DEF network
<1>3. CASE netStep
  BY Zenon, <1>3, GapUdp, GapXdp DEF netStep
<1> QED
  BY Zenon, <1>1, <1>2, <1>3, GapEngine DEF Next, Terminated

(* With no gap and no drop in the statistics, the messages processed have  *)
(* consecutive numbers, but for those in the part of a datagram that a     *)
(* buffer is too short for: for every feed, ring, pool and batch size and  *)
(* either handler.                                                         *)
THEOREM HolesAreCounted == Spec => []HolesAreReported
<1>1. GapInv => HolesAreReported
  BY Zenon DEF GapInv, NoLoss, Tight, HolesAreReported
<1> QED
  BY <1>1, GapInit, GapNext, PTL DEF Spec

-----------------------------------------------------------------------------
(***************************************************************************)
(* Until an end of session stops the AF_XDP handler, every frame of the    *)
(* shared area is in exactly one place: the fill ring, the RX ring, the    *)
(* batch that has left the RX ring, or the frames given up.                *)
(***************************************************************************)

Lending == useXdp /\ netPc \notin {"setup", "done"} /\ ~done

(* The addresses saved so far are those of the batch on the RX ring.       *)
Batched ==
  /\ fill \in Seq(Frames)
  /\ batchAddrs \in [0 .. kBatchSize - 1 -> Frames \cup {Indeterminate}]
  /\ rcvd <= kBatchSize
  /\ netPc \in {"frame", "copy", "push"} =>
       \A k \in 0 .. frameNo - 1 : batchAddrs[k] = rx[k + 1].addr
  /\ netPc \in {"copy", "push"} => batchAddrs[frameNo] = rx[frameNo + 1].addr
  /\ netPc = "release" =>
       rcvd <= Len(rx) /\ \A k \in 0 .. rcvd - 1 : batchAddrs[k] = rx[k + 1].addr
  /\ netPc = "refill" => \A k \in 0 .. rcvd - 1 : batchAddrs[k] \in Frames

(* No frame is in two places, and each is in one.                          *)
OneFrame ==
  /\ \A m, n \in DOMAIN fill : fill[m] = fill[n] => m = n
  /\ \A m, n \in DOMAIN rx : rx[m].addr = rx[n].addr => m = n
  /\ \A m, n \in DOMAIN inHand : inHand[m] = inHand[n] => m = n
  /\ \A m \in DOMAIN fill, n \in DOMAIN rx : fill[m] # rx[n].addr
  /\ \A m \in DOMAIN fill, n \in DOMAIN inHand : fill[m] # inHand[n]
  /\ \A m \in DOMAIN rx, n \in DOMAIN inHand : rx[m].addr # inHand[n]
  /\ \A a \in Frames : a \in lost <=> /\ \A n \in DOMAIN fill : fill[n] # a
                                      /\ \A n \in DOMAIN rx : rx[n].addr # a
                                      /\ \A n \in DOMAIN inHand : inHand[n] # a

FrameInv ==
  /\ OrderInv
  /\ netPc = "setup" => fill = <<>> /\ rx = <<>> /\ lost = {} /\ rcvd = 0
                         /\ batchAddrs = [k \in 0 .. kBatchSize - 1 |-> Indeterminate]
  /\ Lending => Batched /\ OneFrame

(* It holds initially: every frame is in the fill ring.                    *)
LEMMA FrameInit == Init => FrameInv
BY Zenon, OrderInit DEF Init, LoopInit, XdpInit, FrameInv, Lending

(* A step that moves no frame.                                             *)
LEMMA FrameStays ==
  ASSUME FrameInv, OrderInv', Lending' => Lending /\ Batched',
         netPc' # "setup", inHand' = inHand, UNCHANGED <<fill, rx, lost>>
  PROVE  FrameInv'
BY DEF FrameInv, OneFrame

(* What the proofs below use of FrameInv.                                  *)
LEMMA FrameTypes ==
  ASSUME FrameInv, Lending
  PROVE  /\ fill \in Seq(Frames) /\ rx \in Seq(Descriptors) /\ rcvd \in Nat
         /\ DOMAIN fill = 1 .. Len(fill) /\ DOMAIN rx = 1 .. Len(rx)
         /\ Len(fill) \in Nat /\ Len(rx) \in Nat
         /\ \A n \in DOMAIN fill : fill[n] \in Frames
         /\ \A n \in DOMAIN rx : rx[n].addr \in Frames
         /\ netPc # "refill" => inHand = <<>> /\ DOMAIN inHand = {}
         /\ netPc = "refill" => /\ DOMAIN inHand = 1 .. rcvd
                                /\ \A n \in 1 .. rcvd : inHand[n] = batchAddrs[n - 1]
<1>1. fill \in Seq(Frames) /\ rx \in Seq(Descriptors) /\ rcvd \in Nat
  BY Zenon DEF FrameInv, Batched, OrderInv, FeedTyped
<1>2. \A n \in DOMAIN rx : rx[n] \in Descriptors
  BY <1>1
<1>3. \A n \in DOMAIN rx : rx[n].addr \in Frames
  BY Zenon, <1>2 DEF Descriptors
<1> QED
  BY <1>1, <1>3, Elements DEF inHand

(* The handler starts by lending every frame.                              *)
LEMMA FrameSetup ==
  ASSUME FrameInv, OrderInv', xdpSetup, UNCHANGED useXdp
  PROVE  FrameInv'
<1>1. CASE netPc' = "done"
  BY Zenon, <1>1 DEF FrameInv, Lending
<1>2. CASE netPc' # "done"
  <2>1. /\ netPc' = "peek" /\ fill' = [n \in 1 .. kNumFrames |-> n - 1]
        /\ UNCHANGED <<rx, batchAddrs, rcvd, lost>> /\ netPc = "setup"
    BY Zenon, <1>2 DEF xdpSetup, batchVars
  <2>2. /\ rx' = <<>> /\ lost' = {} /\ DOMAIN rx' = {} /\ inHand' = <<>> /\ DOMAIN inHand' = {}
        /\ rcvd' = 0 /\ batchAddrs' = [k \in 0 .. kBatchSize - 1 |-> Indeterminate]
    BY <2>1 DEF FrameInv, inHand
  <2>3. /\ DOMAIN fill' = 1 .. kNumFrames /\ \A n \in 1 .. kNumFrames : fill'[n] = n - 1
        /\ fill' \in Seq(Frames)
    BY <2>1, XdpAssumption DEF Frames
  <2>4. \A m, n \in DOMAIN fill' : fill'[m] = fill'[n] => m = n
    BY <2>3, XdpAssumption
  <2>5. \A a \in Frames : ~ \A n \in DOMAIN fill' : fill'[n] # a
    <3> SUFFICES ASSUME NEW a \in Frames PROVE a + 1 \in DOMAIN fill' /\ fill'[a + 1] = a
      BY Zenon
    <3> QED
      BY <2>3, XdpAssumption DEF Frames
  <2>6. OneFrame'
    BY Zenon, <2>2, <2>4, <2>5 DEF OneFrame, Frames
  <2>7. Batched'
    BY <2>1, <2>2, <2>3, XdpAssumption DEF Batched, Frames
  <2> QED
    BY Zenon, <2>1, <2>6, <2>7 DEF FrameInv
<1> QED
  BY Zenon, <1>1, <1>2

(* The kernel moves a frame from the fill ring to the RX ring.             *)
LEMMA FrameArrive ==
  ASSUME FrameInv, OrderInv', useXdp, netPc # "done", NEW p, arrive(p), UNCHANGED useXdp
  PROVE  FrameInv'
<1>1. /\ fill # <<>> /\ fill' = Tail(fill) /\ Head(fill) \in Frames
      /\ rx' = Append(rx, [addr |-> Head(fill), packet |-> p])
      /\ UNCHANGED <<netPc, done, batchAddrs, rcvd, frameNo, lost>>
  BY Zenon DEF arrive, loopVars, netVars, batchVars
<1>2. netPc # "setup"
  BY Zenon, <1>1 DEF FrameInv
<1> SUFFICES ASSUME Lending PROVE Batched' /\ OneFrame'
  BY Zenon, <1>1, <1>2 DEF FrameInv, Lending
<1>0. /\ fill \in Seq(Frames) /\ rx \in Seq(Descriptors) /\ rcvd \in Nat
      /\ DOMAIN fill = 1 .. Len(fill) /\ DOMAIN rx = 1 .. Len(rx)
      /\ Len(fill) \in Nat /\ Len(rx) \in Nat
  BY Zenon, FrameTypes
<1> DEFINE d == [addr |-> Head(fill), packet |-> p]
<1>3. Batched /\ OneFrame /\ rx' \in Seq(Descriptors) /\ rx \in Seq(Descriptors)
  <2>1. Descriptors' = Descriptors
    BY Zenon, SameFeed DEF arrive, loopVars, setupVars
  <2> QED
    BY Zenon, <2>1 DEF FrameInv, OrderInv, FeedTyped
<1>4. /\ \A n \in DOMAIN fill' : fill'[n] = fill[n + 1] /\ n + 1 \in DOMAIN fill /\ n \in Nat /\ n >= 1
      /\ \A n \in DOMAIN fill : n = 1 \/ (n - 1 \in DOMAIN fill' /\ fill'[n - 1] = fill[n])
      /\ Head(fill) = fill[1] /\ 1 \in DOMAIN fill
      /\ fill' \in Seq(Frames)
  BY <1>0, <1>1, Elements, Lengths
<1>5. /\ DOMAIN rx' = 1 .. Len(rx) + 1
      /\ rx'[Len(rx) + 1] = d
      /\ \A n \in DOMAIN rx : rx'[n] = rx[n]
  BY <1>0, <1>1, <1>3
<1>6. inHand' = inHand
  BY Zenon, <1>1 DEF inHand
<1>7. rx'[Len(rx) + 1].addr = fill[1]
  BY <1>4, <1>5
<1>8. /\ \A n \in DOMAIN rx' : \/ n \in DOMAIN rx /\ rx'[n].addr = rx[n].addr
                               \/ n = Len(rx) + 1 /\ rx'[n].addr = fill[1]
      /\ \A n \in DOMAIN rx : n \in DOMAIN rx'
  BY <1>0, <1>5, <1>7
<1>9. Batched'
  <2>1. Len(rx') = Len(rx) + 1
    BY <1>0, <1>1, <1>3
  <2>2. \A k \in 0 .. Len(rx) - 1 : rx'[k + 1] = rx[k + 1]
    BY <1>0, <1>5
  <2>3. netPc \in {"frame", "copy", "push"} => frameNo \in Nat /\ frameNo < rcvd /\ rcvd <= Len(rx)
    BY Zenon DEF FrameInv, OrderInv, FeedTyped, Lending
  <2> QED
    BY <1>0, <1>1, <1>3, <1>4, <2>1, <2>2, <2>3 DEF Batched
<1> HIDE DEF d, inHand
<1>10. /\ \A m, n \in DOMAIN fill' : fill'[m] = fill'[n] => m = n
       /\ \A m \in DOMAIN fill', n \in DOMAIN inHand : fill'[m] # inHand[n]
  BY <1>3, <1>4 DEF OneFrame
<1>11. \A m \in DOMAIN fill', n \in DOMAIN rx' : fill'[m] # rx'[n].addr
  <2> SUFFICES ASSUME NEW m \in DOMAIN fill', NEW n \in DOMAIN rx' PROVE fill'[m] # rx'[n].addr
    BY Zenon
  <2>1. fill'[m] = fill[m + 1] /\ m + 1 \in DOMAIN fill /\ m + 1 # 1
    BY <1>4
  <2>2. CASE n \in DOMAIN rx /\ rx'[n].addr = rx[n].addr
    BY <1>3, <2>1, <2>2 DEF OneFrame
  <2>3. CASE rx'[n].addr = fill[1]
    BY <1>3, <1>4, <2>1, <2>3 DEF OneFrame
  <2> QED
    BY Zenon, <1>8, <2>2, <2>3
<1>12. \A m, n \in DOMAIN rx' : rx'[m].addr = rx'[n].addr => m = n
  BY <1>3, <1>4, <1>8 DEF OneFrame
<1>13. \A m \in DOMAIN rx', n \in DOMAIN inHand : rx'[m].addr # inHand[n]
  BY <1>3, <1>4, <1>8 DEF OneFrame
<1>14. ASSUME NEW a \in Frames
       PROVE  (/\ \A n \in DOMAIN fill' : fill'[n] # a
               /\ \A n \in DOMAIN rx' : rx'[n].addr # a)
              <=> (/\ \A n \in DOMAIN fill : fill[n] # a
                   /\ \A n \in DOMAIN rx : rx[n].addr # a)
  <2>1. Len(rx) + 1 \in DOMAIN rx'
    BY <1>0, <1>5
  <2>2. ASSUME NEW n \in DOMAIN fill, fill[n] = a
        PROVE  (\E m \in DOMAIN fill' : fill'[m] = a) \/ (\E m \in DOMAIN rx' : rx'[m].addr = a)
    <3>1. CASE n = 1
      BY Zenon, <1>7, <2>1, <2>2, <3>1
    <3>2. CASE n # 1
      BY Zenon, <1>4, <2>2, <3>2
    <3> QED
      BY Zenon, <3>1, <3>2
  <2>3. ASSUME NEW n \in DOMAIN rx, rx[n].addr = a PROVE \E m \in DOMAIN rx' : rx'[m].addr = a
    BY Zenon, <1>5, <1>8, <2>3
  <2>4. ASSUME NEW n \in DOMAIN fill', fill'[n] = a PROVE \E m \in DOMAIN fill : fill[m] = a
    BY Zenon, <1>4, <2>4
  <2>5. ASSUME NEW n \in DOMAIN rx', rx'[n].addr = a
        PROVE  (\E m \in DOMAIN fill : fill[m] = a) \/ (\E m \in DOMAIN rx : rx[m].addr = a)
    BY Zenon, <1>4, <1>8, <2>5
  <2> QED
    BY Zenon, <2>2, <2>3, <2>4, <2>5
<1>15. OneFrame'
  <2>1. ASSUME NEW a \in Frames
        PROVE  a \in lost' <=> /\ \A n \in DOMAIN fill' : fill'[n] # a
                               /\ \A n \in DOMAIN rx' : rx'[n].addr # a
                               /\ \A n \in DOMAIN inHand' : inHand'[n] # a
    <3>1. a \in lost <=> /\ \A n \in DOMAIN fill : fill[n] # a
                         /\ \A n \in DOMAIN rx : rx[n].addr # a
                         /\ \A n \in DOMAIN inHand : inHand[n] # a
      BY Zenon, <1>3 DEF OneFrame
    <3>2. (\A n \in DOMAIN inHand : inHand[n] # a) <=> (\A n \in DOMAIN inHand' : inHand'[n] # a)
      BY Zenon, <1>6
    <3>3. a \in lost' <=> a \in lost
      BY Zenon, <1>1
    <3> QED
      BY <1>14, <3>1, <3>2, <3>3, Zenon
  <2>2. \A m, n \in DOMAIN inHand' : inHand'[m] = inHand'[n] => m = n
    BY Zenon, <1>3, <1>6 DEF OneFrame
  <2>3. /\ \A m \in DOMAIN fill', n \in DOMAIN inHand' : fill'[m] # inHand'[n]
        /\ \A m \in DOMAIN rx', n \in DOMAIN inHand' : rx'[m].addr # inHand'[n]
    BY Zenon, <1>6, <1>10, <1>13
  <2> QED
    BY <1>10, <1>11, <1>12, <2>1, <2>2, <2>3, Zenon DEF OneFrame
<1> QED
  BY Zenon, <1>9, <1>15

(* The batch leaves the RX ring.                                           *)
LEMMA FrameRelease ==
  ASSUME FrameInv, OrderInv', releaseRx, UNCHANGED useXdp
  PROVE  FrameInv'
<1>1. /\ netPc = "release" /\ netPc' = "refill" /\ rx' = SubSeq(rx, rcvd + 1, Len(rx))
      /\ UNCHANGED <<done, fill, batchAddrs, rcvd, lost>>
  BY Zenon DEF releaseRx, batchVars
<1> SUFFICES ASSUME Lending PROVE Batched' /\ OneFrame'
  BY Zenon, <1>1 DEF FrameInv, Lending
<1>0. /\ fill \in Seq(Frames) /\ rx \in Seq(Descriptors) /\ rcvd \in Nat
      /\ DOMAIN fill = 1 .. Len(fill) /\ DOMAIN rx = 1 .. Len(rx)
      /\ Len(fill) \in Nat /\ Len(rx) \in Nat
  BY Zenon, FrameTypes
<1>2. Batched /\ OneFrame /\ rcvd <= Len(rx)
  BY Zenon, <1>1 DEF FrameInv, Batched
<1>3. \A k \in 0 .. rcvd - 1 : batchAddrs[k] = rx[k + 1].addr
  BY Zenon, <1>1, <1>2 DEF Batched
<1>4. DOMAIN inHand' = 1 .. rcvd /\ \A n \in 1 .. rcvd : inHand'[n] = rx[n].addr
  <2>1. inHand' = [n \in 1 .. rcvd |-> batchAddrs[n - 1]]
    BY Zenon, <1>1 DEF inHand
  <2>2. \A n \in 1 .. rcvd : n - 1 \in 0 .. rcvd - 1 /\ (n - 1) + 1 = n
    BY <1>0
  <2> QED
    BY Zenon, <1>3, <2>1, <2>2
<1>5. /\ DOMAIN rx' = 1 .. Len(rx) - rcvd
      /\ \A n \in DOMAIN rx' : rx'[n] = rx[n + rcvd]
  <2>1. rx \in Seq(Descriptors) /\ Len(rx) \in Nat /\ rcvd \in Nat /\ rcvd <= Len(rx)
    BY Zenon, <1>0, <1>2
  <2> QED
    BY <1>1, <2>1
<1>6. /\ \A n \in DOMAIN rx' : n + rcvd \in DOMAIN rx /\ rx'[n].addr = rx[n + rcvd].addr
                                 /\ n + rcvd > rcvd /\ n \in Int
      /\ \A n \in DOMAIN rx : \/ n \in DOMAIN inHand' /\ inHand'[n] = rx[n].addr
                              \/ n - rcvd \in DOMAIN rx' /\ rx'[n - rcvd].addr = rx[n].addr
      /\ \A n \in DOMAIN inHand' : n \in DOMAIN rx /\ inHand'[n] = rx[n].addr /\ n <= rcvd
  <2>1. ASSUME NEW n \in DOMAIN rx'
        PROVE  /\ n + rcvd \in DOMAIN rx /\ rx'[n].addr = rx[n + rcvd].addr
               /\ n + rcvd > rcvd /\ n \in Int
    <3>1. n \in 1 .. Len(rx) - rcvd /\ rx'[n] = rx[n + rcvd]
      BY Zenon, <1>5, <2>1
    <3>2. n + rcvd \in 1 .. Len(rx) /\ n + rcvd > rcvd /\ n \in Int
      BY <1>0, <1>2, <3>1
    <3> QED
      BY Zenon, <1>0, <3>1, <3>2
  <2>2. ASSUME NEW n \in DOMAIN rx
        PROVE  \/ n \in DOMAIN inHand' /\ inHand'[n] = rx[n].addr
               \/ n - rcvd \in DOMAIN rx' /\ rx'[n - rcvd].addr = rx[n].addr
    <3>1. n \in 1 .. rcvd \/ (n - rcvd \in 1 .. Len(rx) - rcvd /\ (n - rcvd) + rcvd = n)
      BY <1>0, <1>2
    <3> QED
      BY Zenon, <1>4, <1>5, <3>1
  <2>3. ASSUME NEW n \in DOMAIN inHand'
        PROVE  n \in DOMAIN rx /\ inHand'[n] = rx[n].addr /\ n <= rcvd
    <3>1. n \in 1 .. rcvd
      BY Zenon, <1>4
    <3>2. n \in 1 .. Len(rx) /\ n <= rcvd
      BY <1>0, <1>2, <3>1
    <3> QED
      BY Zenon, <1>0, <1>4, <3>1, <3>2
  <2> QED
    BY Zenon, <2>1, <2>2, <2>3
<1>7. Batched'
  <2>1. \A k \in 0 .. rcvd - 1 : k + 1 \in DOMAIN rx
    BY <1>0, <1>2
  <2>2. \A k \in 0 .. rcvd - 1 : batchAddrs[k] \in Frames
    BY Zenon, <1>3, <2>1, FrameTypes
  <2> QED
    BY Zenon, <1>1, <1>2, <2>2 DEF Batched
<1>8. DOMAIN inHand = {}
  BY Zenon, <1>1, FrameTypes
<1> HIDE DEF inHand
<1>9. \A m, n \in DOMAIN rx' : rx'[m].addr = rx'[n].addr => m = n
  <2> SUFFICES ASSUME NEW m \in DOMAIN rx', NEW n \in DOMAIN rx', rx'[m].addr = rx'[n].addr
               PROVE  m = n
    BY Zenon
  <2>1. m + rcvd = n + rcvd /\ m \in Int /\ n \in Int
    BY <1>2, <1>6 DEF OneFrame
  <2> QED
    BY <1>0, <2>1
<1>10. \A m, n \in DOMAIN inHand' : inHand'[m] = inHand'[n] => m = n
  BY <1>2, <1>6 DEF OneFrame
<1>11. /\ \A m, n \in DOMAIN fill' : fill'[m] = fill'[n] => m = n
       /\ \A m \in DOMAIN fill', n \in DOMAIN rx' : fill'[m] # rx'[n].addr
       /\ \A m \in DOMAIN fill', n \in DOMAIN inHand' : fill'[m] # inHand'[n]
  <2>1. fill' = fill
    BY Zenon, <1>1
  <2>2. \A m \in DOMAIN fill, n \in DOMAIN rx' : fill[m] # rx'[n].addr
    BY <1>2, <1>6 DEF OneFrame
  <2>3. \A m \in DOMAIN fill, n \in DOMAIN inHand' : fill[m] # inHand'[n]
    BY <1>2, <1>6 DEF OneFrame
  <2>4. \A m, n \in DOMAIN fill : fill[m] = fill[n] => m = n
    BY Zenon, <1>2 DEF OneFrame
  <2> QED
    BY Zenon, <2>1, <2>2, <2>3, <2>4
<1>12. \A m \in DOMAIN rx', n \in DOMAIN inHand' : rx'[m].addr # inHand'[n]
  <2> SUFFICES ASSUME NEW m \in DOMAIN rx', NEW n \in DOMAIN inHand', rx'[m].addr = inHand'[n]
               PROVE  FALSE
    BY Zenon
  <2>1. m + rcvd = n
    BY <1>2, <1>6 DEF OneFrame
  <2> QED
    BY <1>0, <1>4, <1>6, <2>1
<1>13. \A a \in Frames : a \in lost' <=> /\ \A n \in DOMAIN fill' : fill'[n] # a
                                         /\ \A n \in DOMAIN rx' : rx'[n].addr # a
                                         /\ \A n \in DOMAIN inHand' : inHand'[n] # a
  <2> SUFFICES ASSUME NEW a \in Frames
               PROVE  (\E n \in DOMAIN rx : rx[n].addr = a)
                        <=> \/ \E n \in DOMAIN rx' : rx'[n].addr = a
                            \/ \E n \in DOMAIN inHand' : inHand'[n] = a
    BY Zenon, <1>1, <1>2, <1>8 DEF OneFrame
  <2> QED
    BY <1>6
<1>14. OneFrame'
  BY <1>9, <1>10, <1>11, <1>12, <1>13, Zenon DEF OneFrame
<1> QED
  BY Zenon, <1>7, <1>14

(* The batch goes back on the fill ring, or is given up.                   *)
LEMMA FrameRefill ==
  ASSUME FrameInv, OrderInv', refill, UNCHANGED useXdp
  PROVE  FrameInv'
<1>1. /\ netPc = "refill" /\ netPc' = "peek"
      /\ UNCHANGED <<done, rx, batchAddrs, rcvd, frameNo>>
  BY Zenon DEF refill
<1> SUFFICES ASSUME Lending PROVE Batched' /\ OneFrame'
  BY Zenon, <1>1 DEF FrameInv, Lending
<1>0. /\ fill \in Seq(Frames) /\ rcvd \in Nat
      /\ DOMAIN fill = 1 .. Len(fill) /\ Len(fill) \in Nat
      /\ DOMAIN inHand = 1 .. rcvd /\ \A n \in 1 .. rcvd : inHand[n] = batchAddrs[n - 1]
  BY Zenon, <1>1, FrameTypes
<1>2. Batched /\ OneFrame
  BY Zenon DEF FrameInv
<1>3. \A k \in 0 .. rcvd - 1 : batchAddrs[k] \in Frames
  BY Zenon, <1>1, <1>2 DEF Batched
<1>4. DOMAIN inHand' = {}
  BY <1>1 DEF inHand
<1> HIDE DEF inHand
<1>5. rx' = rx
  BY Zenon, <1>1
<1>6. /\ \A m, n \in DOMAIN rx' : rx'[m].addr = rx'[n].addr => m = n
      /\ \A m, n \in DOMAIN inHand' : inHand'[m] = inHand'[n] => m = n
      /\ \A m \in DOMAIN fill', n \in DOMAIN inHand' : fill'[m] # inHand'[n]
      /\ \A m \in DOMAIN rx', n \in DOMAIN inHand' : rx'[m].addr # inHand'[n]
  BY Zenon, <1>2, <1>4, <1>5 DEF OneFrame
<1>7. CASE /\ fill' = fill \o [n \in 1 .. 0 |-> batchAddrs[n - 1]]
           /\ lost' = lost \cup {batchAddrs[n] : n \in 0 .. rcvd - 1}
  <2>1. fill' = fill
    BY <1>0, <1>7
  <2>2. Batched'
    BY Zenon, <1>1, <1>2, <2>1 DEF Batched
  <2>3. \A a \in Frames : a \in lost' <=> /\ \A n \in DOMAIN fill' : fill'[n] # a
                                          /\ \A n \in DOMAIN rx' : rx'[n].addr # a
                                          /\ \A n \in DOMAIN inHand' : inHand'[n] # a
    <3> SUFFICES ASSUME NEW a \in Frames
                 PROVE  a \in lost' <=> /\ \A n \in DOMAIN fill : fill[n] # a
                                        /\ \A n \in DOMAIN rx : rx[n].addr # a
      BY Zenon, <1>4, <1>5, <2>1
    <3>1. a \in lost <=> /\ \A n \in DOMAIN fill : fill[n] # a
                         /\ \A n \in DOMAIN rx : rx[n].addr # a
                         /\ \A n \in DOMAIN inHand : inHand[n] # a
      BY Zenon, <1>2 DEF OneFrame
    <3>2. a \in lost' <=> a \in lost \/ \E n \in DOMAIN inHand : inHand[n] = a
      <4>1. ASSUME NEW n \in 0 .. rcvd - 1 PROVE n + 1 \in DOMAIN inHand /\ inHand[n + 1] = batchAddrs[n]
        BY <1>0
      <4>2. ASSUME NEW n \in DOMAIN inHand PROVE n - 1 \in 0 .. rcvd - 1 /\ inHand[n] = batchAddrs[n - 1]
        BY <1>0
      <4>3. a \in lost' <=> a \in lost \/ \E n \in 0 .. rcvd - 1 : batchAddrs[n] = a
        BY Zenon, <1>7
      <4> QED
        BY Zenon, <4>1, <4>2, <4>3
    <3>3. ASSUME NEW n \in DOMAIN inHand, inHand[n] = a
          PROVE  /\ \A m \in DOMAIN fill : fill[m] # a
                 /\ \A m \in DOMAIN rx : rx[m].addr # a
      BY Zenon, <1>2, <3>3 DEF OneFrame
    <3> QED
      BY Zenon, <3>1, <3>2, <3>3
  <2>4. /\ \A m, n \in DOMAIN fill' : fill'[m] = fill'[n] => m = n
        /\ \A m \in DOMAIN fill', n \in DOMAIN rx' : fill'[m] # rx'[n].addr
    BY <1>2, <1>5, <2>1 DEF OneFrame
  <2>5. OneFrame'
    BY <1>6, <2>3, <2>4, Zenon DEF OneFrame
  <2> QED
    BY Zenon, <2>2, <2>5
<1>8. CASE /\ fill' = fill \o [n \in 1 .. rcvd |-> batchAddrs[n - 1]]
           /\ lost' = lost \cup {batchAddrs[n] : n \in rcvd .. rcvd - 1}
  <2> DEFINE back == [n \in 1 .. rcvd |-> batchAddrs[n - 1]]
  <2>0. \A n \in 1 .. rcvd : batchAddrs[n - 1] \in Frames
    BY <1>0, <1>3
  <2>1. /\ back \in Seq(Frames) /\ Len(back) = rcvd
        /\ \A n \in 1 .. rcvd : back[n] = inHand[n]
    BY <1>0, <2>0
  <2> HIDE DEF back
  <2>2. /\ fill' \in Seq(Frames) /\ DOMAIN fill' = 1 .. Len(fill) + rcvd
        /\ \A n \in 1 .. Len(fill) + rcvd :
             fill'[n] = IF n <= Len(fill) THEN fill[n] ELSE back[n - Len(fill)]
    <3>1. fill' = fill \o back
      BY Zenon, <1>8 DEF back
    <3> QED
      BY <1>0, <2>1, <3>1
  <2>3. /\ \A n \in DOMAIN fill' : \/ n \in DOMAIN fill /\ fill'[n] = fill[n]
                                   \/ /\ n - Len(fill) \in DOMAIN inHand /\ n \in Int
                                      /\ fill'[n] = inHand[n - Len(fill)]
        /\ \A n \in DOMAIN fill : n \in DOMAIN fill' /\ fill'[n] = fill[n]
        /\ \A n \in DOMAIN inHand : /\ n + Len(fill) \in DOMAIN fill'
                                    /\ fill'[n + Len(fill)] = inHand[n]
    BY <1>0, <2>1, <2>2
  <2>4. lost' = lost
    BY <1>0, <1>8
  <2>5. Batched'
    BY Zenon, <1>1, <1>2, <2>2 DEF Batched
  <2>6. \A m, n \in DOMAIN fill' : fill'[m] = fill'[n] => m = n
    <3> SUFFICES ASSUME NEW m \in DOMAIN fill', NEW n \in DOMAIN fill', fill'[m] = fill'[n]
                 PROVE  m = n
      BY Zenon
    <3>1. \/ m = n
          \/ m - Len(fill) = n - Len(fill) /\ m \in Int /\ n \in Int
      BY <1>2, <2>3 DEF OneFrame
    <3> QED
      BY <1>0, <3>1
  <2>7. \A m \in DOMAIN fill', n \in DOMAIN rx' : fill'[m] # rx'[n].addr
    <3>1. \A m \in DOMAIN fill', n \in DOMAIN rx : fill'[m] # rx[n].addr
      BY <1>2, <2>3 DEF OneFrame
    <3> QED
      BY Zenon, <1>5, <3>1
  <2>8. \A a \in Frames : a \in lost' <=> /\ \A n \in DOMAIN fill' : fill'[n] # a
                                          /\ \A n \in DOMAIN rx' : rx'[n].addr # a
                                          /\ \A n \in DOMAIN inHand' : inHand'[n] # a
    <3> SUFFICES ASSUME NEW a \in Frames
                 PROVE  a \in lost <=> /\ \A n \in DOMAIN fill' : fill'[n] # a
                                       /\ \A n \in DOMAIN rx : rx[n].addr # a
      BY Zenon, <1>4, <1>5, <2>4
    <3>1. a \in lost <=> /\ \A n \in DOMAIN fill : fill[n] # a
                         /\ \A n \in DOMAIN rx : rx[n].addr # a
                         /\ \A n \in DOMAIN inHand : inHand[n] # a
      BY Zenon, <1>2 DEF OneFrame
    <3>2. (\A n \in DOMAIN fill' : fill'[n] # a)
            <=> (\A n \in DOMAIN fill : fill[n] # a) /\ (\A n \in DOMAIN inHand : inHand[n] # a)
      BY <2>3
    <3> QED
      BY <3>1, <3>2, Zenon
  <2>9. OneFrame'
    BY <1>6, <2>6, <2>7, <2>8, Zenon DEF OneFrame
  <2> QED
    BY Zenon, <2>5, <2>9
<1> QED
  BY Zenon, <1>7, <1>8 DEF refill

(* The handler saves the address of the frame it turns to.                 *)
LEMMA FrameSave ==
  ASSUME FrameInv, OrderInv', frame, UNCHANGED useXdp
  PROVE  FrameInv'
<1>1. /\ netPc = "frame" /\ netPc' \in {"release", "frame", "copy", "pushEnd"}
      /\ batchAddrs' = [batchAddrs EXCEPT ![frameNo] = rx[frameNo + 1].addr]
      /\ UNCHANGED <<fill, rx, lost, rcvd, done>>
  BY Zenon DEF frame, nextFrame, kernelVars
<1>2. \/ frameNo' = frameNo + 1 /\ netPc' = IF frameNo + 1 = rcvd THEN "release" ELSE "frame"
      \/ frameNo' = frameNo /\ netPc' \in {"copy", "pushEnd"}
  BY Zenon DEF frame, nextFrame
<1>3. inHand' = inHand
  BY Zenon, <1>1 DEF inHand
<1>4. ASSUME Lending PROVE Batched'
  <2>1. Batched /\ frameNo \in Nat /\ frameNo < rcvd /\ rcvd <= Len(rx) /\ rcvd \in Nat
    BY Zenon, <1>1, <1>4 DEF FrameInv, OrderInv, FeedTyped, Lending
  <2>2. frameNo \in 0 .. kBatchSize - 1 /\ frameNo + 1 \in DOMAIN rx
    BY <1>4, <2>1, FrameTypes, XdpAssumption DEF Batched
  <2>3. rx[frameNo + 1].addr \in Frames
    BY Zenon, <1>4, <2>2, FrameTypes
  <2>4. batchAddrs \in [0 .. kBatchSize - 1 -> Frames \cup {Indeterminate}]
    BY Zenon, <2>1 DEF Batched
  <2>5. /\ batchAddrs' \in [0 .. kBatchSize - 1 -> Frames \cup {Indeterminate}]
        /\ batchAddrs'[frameNo] = rx[frameNo + 1].addr
        /\ \A k \in 0 .. frameNo - 1 : batchAddrs'[k] = batchAddrs[k]
    BY <1>1, <2>1, <2>2, <2>3, <2>4, XdpAssumption
  <2>6. \A k \in 0 .. frameNo - 1 : batchAddrs'[k] = rx[k + 1].addr
    BY Zenon, <1>1, <2>1, <2>5 DEF Batched
  <2>7. \A k \in 0 .. frameNo : batchAddrs'[k] = rx[k + 1].addr
    BY <2>1, <2>5, <2>6
  <2>8. fill' = fill /\ rx' = rx /\ rcvd' = rcvd /\ fill \in Seq(Frames) /\ rcvd <= kBatchSize
    BY Zenon, <1>1, <2>1 DEF Batched
  <2>9. CASE frameNo' = frameNo + 1 /\ netPc' = IF frameNo + 1 = rcvd THEN "release" ELSE "frame"
    BY <2>1, <2>5, <2>7, <2>8, <2>9 DEF Batched
  <2>10. CASE frameNo' = frameNo /\ netPc' \in {"copy", "pushEnd"}
    BY Zenon, <2>1, <2>5, <2>6, <2>8, <2>10 DEF Batched
  <2> QED
    BY Zenon, <1>2, <2>9, <2>10
<1> QED
  BY Zenon, <1>1, <1>3, <1>4, FrameStays DEF Lending

(* The rest of the work on a frame, and the step to the next.              *)
LEMMA FrameWork ==
  ASSUME FrameInv, OrderInv', copy \/ xdpPush, UNCHANGED useXdp
  PROVE  FrameInv'
<1>1. /\ netPc \in {"copy", "push"} /\ netPc' \in {"release", "frame", "push"}
      /\ UNCHANGED <<fill, rx, lost, rcvd, done, batchAddrs>>
  BY Zenon DEF copy, xdpPush, nextFrame, kernelVars
<1>2. \/ frameNo' = frameNo + 1 /\ netPc' = IF frameNo + 1 = rcvd THEN "release" ELSE "frame"
      \/ frameNo' = frameNo /\ netPc' = "push"
  BY Zenon DEF copy, xdpPush, nextFrame
<1>3. inHand' = inHand
  BY Zenon, <1>1 DEF inHand
<1>4. ASSUME Lending PROVE Batched'
  <2>1. Batched /\ frameNo \in Nat /\ frameNo < rcvd /\ rcvd <= Len(rx) /\ rcvd \in Nat
    BY Zenon, <1>1, <1>4 DEF FrameInv, OrderInv, FeedTyped, Lending
  <2>2. \A k \in 0 .. frameNo : batchAddrs[k] = rx[k + 1].addr
    BY <1>1, <2>1 DEF Batched
  <2>3. /\ fill' = fill /\ rx' = rx /\ rcvd' = rcvd /\ batchAddrs' = batchAddrs
        /\ fill \in Seq(Frames) /\ rcvd <= kBatchSize
        /\ batchAddrs \in [0 .. kBatchSize - 1 -> Frames \cup {Indeterminate}]
    BY Zenon, <1>1, <2>1 DEF Batched
  <2>4. CASE frameNo' = frameNo + 1 /\ netPc' = IF frameNo + 1 = rcvd THEN "release" ELSE "frame"
    <3>1. \A k \in 0 .. frameNo' - 1 : batchAddrs'[k] = rx'[k + 1].addr
      BY <2>1, <2>2, <2>3, <2>4
    <3>2. CASE netPc' = "release"
      BY Zenon, <2>1, <2>3, <2>4, <3>1, <3>2 DEF Batched
    <3>3. CASE netPc' = "frame"
      BY Zenon, <2>3, <3>1, <3>3 DEF Batched
    <3> QED
      BY Zenon, <2>4, <3>2, <3>3
  <2>5. CASE frameNo' = frameNo /\ netPc' = "push"
    <3>1. \A k \in 0 .. frameNo - 1 : batchAddrs'[k] = rx'[k + 1].addr
      BY <2>1, <2>2, <2>3
    <3>2. batchAddrs'[frameNo'] = rx'[frameNo' + 1].addr
      BY <2>1, <2>2, <2>3, <2>5
    <3> QED
      BY Zenon, <2>3, <2>5, <3>1, <3>2 DEF Batched
  <2> QED
    BY Zenon, <1>2, <2>4, <2>5
<1> QED
  BY Zenon, <1>1, <1>3, <1>4, FrameStays DEF Lending

(* The same for the AF_XDP receiver's steps.                               *)
LEMMA FrameXdp ==
  ASSUME FrameInv, OrderInv', useXdp, UNCHANGED useXdp,
         xdpStep \/ xdpSetup \/ (netPc # "done" /\ \E p \in sent \cup {OtherFrame} : arrive(p))
  PROVE  FrameInv'
<1>1. CASE peek
  <2>1. /\ netPc = "peek" /\ netPc' \in {"done", "frame"}
        /\ UNCHANGED <<fill, rx, lost, batchAddrs, done>>
    BY Zenon, <1>1 DEF peek, kernelVars
  <2>2. inHand' = inHand
    BY Zenon, <2>1 DEF inHand
  <2>3. ASSUME Lending, netPc' # "done" PROVE Batched'
    <3>1. netPc' = "frame" /\ frameNo' = 0 /\ rcvd' \in Nat /\ rcvd' <= kBatchSize
      BY <1>1, <2>3 DEF peek
    <3>2. Batched
      BY Zenon, <2>3 DEF FrameInv
    <3> QED
      BY <2>1, <3>1, <3>2 DEF Batched
  <2> QED
    BY Zenon, <2>1, <2>2, <2>3, FrameStays DEF Lending
<1>2. CASE xdpPushEnd
  <2>1. ~Lending' /\ netPc' # "setup"
    BY Zenon, <1>2 DEF xdpPushEnd, Lending
  <2> QED
    BY Zenon, <2>1 DEF FrameInv
<1> QED
  BY Zenon, <1>1, <1>2, FrameSave, FrameWork, FrameRelease, FrameRefill, FrameSetup, FrameArrive DEF xdpStep

(* Every step of the program preserves it.                                 *)
LEMMA FrameNext == FrameInv /\ [Next]_vars => FrameInv'
<1> SUFFICES ASSUME FrameInv, [Next]_vars PROVE FrameInv'
  BY Zenon
<1>0. OrderInv'
  BY Zenon, OrderNext DEF FrameInv
<1>1. CASE UNCHANGED vars
  <2>1. inHand' = inHand /\ UNCHANGED <<netPc, useXdp, done, fill, rx, lost, rcvd, frameNo, batchAddrs>>
    BY Zenon, <1>1 DEF vars, loopVars, netVars, xdpVars, kernelVars, batchVars, inHand
  <2> QED
    BY <1>0, <2>1 DEF FrameInv, Lending, Batched, OneFrame
<1>2. CASE useXdp /\ UNCHANGED useXdp
           /\ (xdpStep \/ xdpSetup \/ (netPc # "done" /\ \E p \in sent \cup {OtherFrame} : arrive(p)))
  BY Zenon, <1>0, <1>2, FrameXdp
<1>3. CASE ~useXdp /\ (udpStep \/ udpReceive) /\ UNCHANGED <<xdpVars, useXdp>>
  <2>1. ~Lending' /\ netPc' # "setup"
    BY Zenon, <1>3 DEF Lending, udpStep, udpReceive, setup, acquire, recvNothing, recvScratch, recvScratchNothing, recv, push, pushEnd
  <2> QED
    BY Zenon, <1>0, <2>1 DEF FrameInv
<1>4. CASE (engineStep \/ spin) /\ UNCHANGED <<xdpVars, useXdp>>
  <2>1. inHand' = inHand /\ UNCHANGED <<netPc, useXdp, done, fill, rx, lost, rcvd, frameNo, batchAddrs>>
    <3>1. UNCHANGED netPc
      BY Zenon, <1>4 DEF engineStep, pop, popEnd, process, release, setStop, join, spin, netVars
    <3> QED
      BY Zenon, <1>4, <3>1 DEF xdpVars, kernelVars, batchVars, inHand
  <2> QED
    BY <1>0, <2>1 DEF FrameInv, Lending, Batched, OneFrame
<1>5. CASE Terminated
  BY Zenon, <1>1, <1>5 DEF Terminated
<1> QED
  BY Zenon, <1>1, <1>2, <1>3, <1>4, <1>5 DEF Next, network, netStep

-----------------------------------------------------------------------------
(***************************************************************************)
(* The properties count the places of a buffer and of a frame.             *)
(***************************************************************************)
INSTANCE FiniteSetTheorems

(* The places of the buffers in one sequence.                              *)
LEMMA OneOccurrence == PlaceInv => BuffersInOnePlace
<1> SUFFICES ASSUME PlaceInv, NEW i \in SlotIdx
             PROVE  Cardinality(Occurrences(i, pool \o ring \o <<netSlot, engineSlot>>)) = 1
  BY Zenon DEF BuffersInOnePlace
<1> DEFINE T == SlotIdx \cup {kPoolInvalid}
           hands == <<netSlot, engineSlot>>
           lent == pool \o ring
           all == lent \o hands
           a == Len(pool)
           b == Len(pool) + Len(ring)
<1>t. /\ pool \in Seq(T) /\ ring \in Seq(T) /\ netSlot \in T /\ engineSlot \in T
      /\ i # kPoolInvalid
  <2>1. pool \in Seq(SlotIdx)
    BY Zenon, PlaceTypes
  <2>2. pool \in Seq(T)
    BY <2>1
  <2> QED
    BY Zenon, <2>2, PlaceTypes
<1>h. hands \in Seq(T) /\ Len(hands) = 2 /\ hands[1] = netSlot /\ hands[2] = engineSlot
  <2> HIDE DEF T
  <2> QED
    BY <1>t
<1> HIDE DEF T, hands
<1>1. /\ a \in Nat /\ b \in Nat /\ Len(ring) \in Nat /\ b = a + Len(ring)
      /\ DOMAIN pool = 1 .. a /\ DOMAIN ring = 1 .. Len(ring)
  BY <1>t, Elements
<1>c. /\ lent \in Seq(T) /\ Len(lent) = b
      /\ \A n \in 1 .. a : lent[n] = pool[n]
      /\ \A n \in a + 1 .. b : lent[n] = ring[n - a]
  BY Zenon, <1>t, Concatenated
<1> HIDE DEF lent, a, b
<1>d. /\ all \in Seq(T) /\ Len(all) = b + 2
      /\ \A n \in 1 .. b : all[n] = lent[n]
      /\ \A n \in b + 1 .. b + 2 : all[n] = hands[n - b]
  <2>1. lent \in Seq(T) /\ hands \in Seq(T) /\ Len(lent) = b /\ Len(hands) = 2
    BY Zenon, <1>c, <1>h
  <2>2. /\ lent \o hands \in Seq(T) /\ Len(lent \o hands) = Len(lent) + Len(hands)
        /\ \A n \in 1 .. Len(lent) : (lent \o hands)[n] = lent[n]
        /\ \A n \in Len(lent) + 1 .. Len(lent) + Len(hands) : (lent \o hands)[n] = hands[n - Len(lent)]
    BY <2>1, Concatenated, ZenonT(40)
  <2> QED
    BY Zenon, <2>1, <2>2
<1> HIDE DEF all
<1>2. /\ DOMAIN all = 1 .. b + 2
      /\ \A n \in 1 .. a : all[n] = pool[n]
      /\ \A n \in a + 1 .. b : all[n] = ring[n - a]
      /\ all[b + 1] = netSlot /\ all[b + 2] = engineSlot
  <2>1. DOMAIN all = 1 .. b + 2
    BY Zenon, <1>d, Elements
  <2>2. /\ \A n \in 1 .. a : n \in 1 .. b
        /\ \A n \in a + 1 .. b : n \in 1 .. b
    BY <1>1
  <2>3. /\ b + 1 \in b + 1 .. b + 2 /\ (b + 1) - b = 1
        /\ b + 2 \in b + 1 .. b + 2 /\ (b + 2) - b = 2
    BY <1>1
  <2>4. all[b + 1] = hands[(b + 1) - b] /\ all[b + 2] = hands[(b + 2) - b]
    BY Zenon, <1>d, <2>3
  <2>5. all[b + 1] = netSlot /\ all[b + 2] = engineSlot
    BY Zenon, <1>h, <2>3, <2>4
  <2> QED
    BY Zenon, <1>c, <1>d, <2>1, <2>2, <2>5
<1>3. \E k \in DOMAIN all : all[k] = i
  <2>1. ASSUME NEW m \in DOMAIN pool, pool[m] = i PROVE m \in DOMAIN all /\ all[m] = i
    BY <1>1, <1>2, <2>1, SMTT(30)
  <2>2. ASSUME NEW n \in DOMAIN ring, ring[n] = i PROVE n + a \in DOMAIN all /\ all[n + a] = i
    <3>1. n + a \in a + 1 .. b /\ (n + a) - a = n /\ n + a \in 1 .. b + 2
      BY <1>1
    <3> QED
      BY Zenon, <1>2, <2>2, <3>1
  <2>3. b + 1 \in DOMAIN all /\ b + 2 \in DOMAIN all
    BY <1>1, <1>2, SMTT(30)
  <2> QED
    BY ZenonT(40), <1>2, <2>1, <2>2, <2>3 DEF PlaceInv, OnePlace
<1>4. ASSUME NEW k \in DOMAIN all
      PROVE  \/ k \in DOMAIN pool /\ all[k] = pool[k]
             \/ k - a \in DOMAIN ring /\ all[k] = ring[k - a] /\ k > a /\ k <= b
             \/ k = b + 1 /\ all[k] = netSlot
             \/ k = b + 2 /\ all[k] = engineSlot
  <2>1. CASE k \in 1 .. a
    BY Zenon, <1>1, <1>2, <2>1
  <2>2. CASE k \in a + 1 .. b
    <3>1. k - a \in 1 .. Len(ring) /\ k > a /\ k <= b
      BY <1>1, <2>2
    <3> QED
      BY Zenon, <1>1, <1>2, <2>2, <3>1
  <2>3. k \in 1 .. a \/ k \in a + 1 .. b \/ k = b + 1 \/ k = b + 2
    <3>1. k \in 1 .. b + 2
      BY Zenon, <1>2
    <3> QED
      BY <1>1, <3>1
  <2> QED
    BY Zenon, <1>2, <2>1, <2>2, <2>3
<1>5. ASSUME NEW k \in DOMAIN all, NEW l \in DOMAIN all, all[k] = i, all[l] = i PROVE k = l
  <2>1. k \in Nat /\ l \in Nat
    BY <1>1, <1>2, SMTT(30)
  <2>2. /\ \A m, n \in DOMAIN pool : pool[m] = pool[n] => m = n
        /\ \A m, n \in DOMAIN ring : ring[m] = ring[n] => m = n
        /\ \A m \in DOMAIN pool, n \in DOMAIN ring : pool[m] # ring[n]
        /\ \A m \in DOMAIN pool : pool[m] # netSlot /\ pool[m] # engineSlot
        /\ \A n \in DOMAIN ring : ring[n] # kPoolInvalid => ring[n] # netSlot /\ ring[n] # engineSlot
        /\ netSlot = engineSlot => netSlot = kPoolInvalid
    BY Zenon DEF PlaceInv, OnePlace
  <2>3. CASE k \in DOMAIN pool /\ pool[k] = i
    BY Zenon, <1>4, <1>5, <2>2, <2>3
  <2>4. CASE k - a \in DOMAIN ring /\ ring[k - a] = i
    <3>1. CASE l - a \in DOMAIN ring /\ ring[l - a] = i
      <4>1. k - a = l - a
        BY Zenon, <2>2, <2>4, <3>1
      <4> QED
        BY <1>1, <2>1, <4>1
    <3> QED
      BY ZenonT(40), <1>t, <1>4, <1>5, <2>2, <2>4, <3>1
  <2>5. CASE k = b + 1 /\ netSlot = i
    BY Zenon, <1>t, <1>4, <1>5, <2>2, <2>5
  <2>6. CASE k = b + 2 /\ engineSlot = i
    BY Zenon, <1>t, <1>4, <1>5, <2>2, <2>6
  <2> QED
    BY ZenonT(40), <1>4, <1>5, <2>3, <2>4, <2>5, <2>6
<1>6. PICK k \in DOMAIN all : all[k] = i
  BY Zenon, <1>3
<1>7. Occurrences(i, all) = {k}
  BY Zenon, <1>5, <1>6 DEF Occurrences
<1>8. all = pool \o ring \o <<netSlot, engineSlot>>
  BY Zenon DEF all, lent, hands
<1> QED
  BY Zenon, <1>7, <1>8, FS_Singleton

(* No buffer is lost or in two hands at once, for every ring, pool and     *)
(* feed and either handler: not on a drop, an error, a heartbeat or an end *)
(* of session.                                                             *)
THEOREM BufferDiscipline == Spec => []BuffersInOnePlace
BY PlaceInit, PlaceNext, OneOccurrence, PTL DEF Spec

(* A frame that is in one place occurs once in all of them together.       *)
LEMMA FrameOccursOnce == FrameInv => FramesInOnePlace
<1> SUFFICES ASSUME FrameInv, Lending, NEW f \in Frames
             PROVE  Cardinality(Occurrences(f, fill \o [n \in DOMAIN rx |-> rx[n].addr] \o inHand))
                      = IF f \in lost THEN 0 ELSE 1
  BY Zenon DEF FramesInOnePlace, Lending
<1> DEFINE onRx == [n \in DOMAIN rx |-> rx[n].addr]
           all == fill \o onRx \o inHand
           a == Len(fill)
           b == Len(fill) + Len(rx)
<1>1. /\ fill \in Seq(Frames) /\ Len(rx) \in Nat /\ DOMAIN rx = 1 .. Len(rx) /\ rcvd \in Nat
      /\ DOMAIN fill = 1 .. Len(fill) /\ a \in Nat
      /\ \A n \in DOMAIN rx : rx[n].addr \in Frames
  BY Zenon, FrameTypes
<1>2. onRx \in Seq(Frames) /\ Len(onRx) = Len(rx) /\ \A n \in DOMAIN rx : onRx[n] = rx[n].addr
  BY Zenon, <1>1, IntervalIsSeq
<1> HIDE DEF onRx
<1>3. PICK c \in Nat : inHand \in Seq(Frames) /\ Len(inHand) = c /\ DOMAIN inHand = 1 .. c
  <2>1. CASE netPc # "refill"
    BY <2>1 DEF inHand
  <2>2. CASE netPc = "refill"
    <3>1. \A k \in 0 .. rcvd - 1 : batchAddrs[k] \in Frames
      BY Zenon, <2>2 DEF FrameInv, Batched
    <3>2. \A n \in 1 .. rcvd : batchAddrs[n - 1] \in Frames
      BY <1>1, <3>1
    <3>3. inHand \in [1 .. rcvd -> Frames]
      BY Zenon, <2>2, <3>2 DEF inHand
    <3> QED
      BY Zenon, <1>1, <3>3, IntervalIsSeq
  <2> QED
    BY Zenon, <2>1, <2>2
<1> HIDE DEF inHand
<1>4. /\ DOMAIN all = 1 .. b + c
      /\ \A n \in 1 .. a : all[n] = fill[n]
      /\ \A n \in a + 1 .. b : all[n] = onRx[n - a]
      /\ \A n \in b + 1 .. b + c : all[n] = inHand[n - b]
  <2> DEFINE lent == fill \o onRx
  <2>1. /\ lent \in Seq(Frames) /\ Len(lent) = b
        /\ \A n \in 1 .. a : lent[n] = fill[n]
        /\ \A n \in a + 1 .. b : lent[n] = onRx[n - a]
    BY <1>1, <1>2, Concatenated
  <2> HIDE DEF lent
  <2>2. /\ lent \o inHand \in Seq(Frames) /\ Len(lent \o inHand) = b + c
        /\ \A n \in 1 .. b : (lent \o inHand)[n] = lent[n]
        /\ \A n \in b + 1 .. b + c : (lent \o inHand)[n] = inHand[n - b]
    <3>1. lent \in Seq(Frames) /\ inHand \in Seq(Frames) /\ Len(lent) = b /\ Len(inHand) = c
      BY Zenon, <1>3, <2>1
    <3>2. /\ lent \o inHand \in Seq(Frames) /\ Len(lent \o inHand) = Len(lent) + Len(inHand)
          /\ \A n \in 1 .. Len(lent) : (lent \o inHand)[n] = lent[n]
          /\ \A n \in Len(lent) + 1 .. Len(lent) + Len(inHand) :
               (lent \o inHand)[n] = inHand[n - Len(lent)]
      <4>1. lent \in Seq(Frames)
        BY Zenon, <3>1
      <4>2. inHand \in Seq(Frames)
        BY Zenon, <3>1
      <4> QED
        BY Zenon, <4>1, <4>2, Concatenated
    <3> HIDE DEF b
    <3> QED
      BY <3>1, <3>2, Zenon
  <2>3. all = lent \o inHand
    BY Zenon DEF lent
  <2> HIDE DEF all
  <2>4. DOMAIN all = 1 .. b + c
    BY Zenon, <2>2, <2>3, Elements
  <2>5. \A n \in 1 .. a : n \in 1 .. b
    BY <1>1
  <2>6. \A n \in a + 1 .. b : n \in 1 .. b
    BY <1>1
  <2> QED
    BY ZenonT(40), <2>1, <2>2, <2>3, <2>4, <2>5, <2>6
<1> HIDE DEF all
<1>n. a \in Nat /\ b \in Nat /\ b = a + Len(rx) /\ DOMAIN fill = 1 .. a
  BY SMTT(40), <1>1
<1> HIDE DEF a, b
<1>5. ASSUME NEW k \in DOMAIN all
      PROVE  \/ k \in DOMAIN fill /\ all[k] = fill[k]
             \/ k - a \in DOMAIN rx /\ all[k] = rx[k - a].addr
             \/ k - b \in DOMAIN inHand /\ all[k] = inHand[k - b]
  <2>1. CASE k \in 1 .. a
    BY Zenon, <1>4, <1>n, <2>1
  <2>2. CASE k \in a + 1 .. b
    <3>1. k - a \in DOMAIN rx
      BY SMTT(40), <1>1, <1>n, <2>2
    <3> QED
      BY Zenon, <1>2, <1>4, <2>2, <3>1
  <2>3. CASE k \in b + 1 .. b + c
    BY <1>3, <1>4, <1>n, <2>3
  <2> QED
    BY SMTT(40), <1>3, <1>4, <1>n, <2>1, <2>2, <2>3
<1>6. /\ \A m \in DOMAIN fill : m \in DOMAIN all /\ all[m] = fill[m]
      /\ \A m \in DOMAIN rx : m + a \in DOMAIN all /\ all[m + a] = rx[m].addr
      /\ \A m \in DOMAIN inHand : m + b \in DOMAIN all /\ all[m + b] = inHand[m]
  <2>1. \A m \in DOMAIN fill : m \in DOMAIN all /\ all[m] = fill[m]
    BY <1>1, <1>3, <1>4, <1>n
  <2>2. ASSUME NEW m \in DOMAIN rx PROVE m + a \in DOMAIN all /\ all[m + a] = rx[m].addr
    <3>1. m + a \in a + 1 .. b /\ (m + a) - a = m /\ m + a \in 1 .. b + c
      BY <1>1, <1>3, <1>n
    <3> QED
      BY ZenonT(40), <1>2, <1>4, <3>1
  <2>3. ASSUME NEW m \in DOMAIN inHand PROVE m + b \in DOMAIN all /\ all[m + b] = inHand[m]
    <3>1. m + b \in b + 1 .. b + c /\ (m + b) - b = m /\ m + b \in 1 .. b + c
      BY <1>3, <1>n
    <3> QED
      BY Zenon, <1>4, <3>1
  <2> QED
    BY ZenonT(40), <2>1, <2>2, <2>3
<1>7. ASSUME NEW k \in DOMAIN all, NEW l \in DOMAIN all, all[k] = f, all[l] = f PROVE k = l
  <2>1. k \in Nat /\ l \in Nat
    BY <1>3, <1>4, <1>n
  <2>2. k = l \/ k - a = l - a \/ k - b = l - b
    BY <1>5, <1>7 DEF FrameInv, OneFrame
  <2> QED
    BY <1>n, <2>1, <2>2
<1>8. f \in lost <=> /\ \A n \in DOMAIN fill : fill[n] # f
                     /\ \A n \in DOMAIN rx : rx[n].addr # f
                     /\ \A n \in DOMAIN inHand : inHand[n] # f
  BY Zenon DEF FrameInv, OneFrame
<1>9. CASE f \in lost
  <2>1. Occurrences(f, all) = {}
    BY Zenon, <1>5, <1>8, <1>9 DEF Occurrences
  <2> QED
    BY Zenon, <1>9, <2>1, FS_EmptySet DEF all, onRx
<1>10. CASE f \notin lost
  <2>1. PICK k \in DOMAIN all : all[k] = f
    BY Zenon, <1>6, <1>8, <1>10
  <2>2. Occurrences(f, all) = {k}
    BY Zenon, <1>7, <2>1 DEF Occurrences
  <2> QED
    BY Zenon, <1>10, <2>2, FS_Singleton DEF all, onRx
<1> QED
  BY Zenon, <1>9, <1>10

(* Until an end of session stops the AF_XDP handler, the kernel is never   *)
(* lent a frame that the handler still reads or that is lent already, and  *)
(* no frame is lost unless the fill ring refused it: for every number of   *)
(* frames and every size of batch.                                         *)
THEOREM FrameDiscipline == Spec => []FramesInOnePlace
BY FrameInit, FrameNext, FrameOccursOnce, PTL DEF Spec
=============================================================================
