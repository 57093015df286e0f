------------------------------- MODULE XdpFeed -------------------------------
(***************************************************************************)
(* The network thread with an AF_XDP socket: runFeedHandlerXdp             *)
(* (src/feed_handler_xdp.cpp).                                             *)
(*                                                                         *)
(* Kernel and thread share an area of frames.  The thread lends frames to  *)
(* the kernel on the fill ring; the kernel writes a packet into one and    *)
(* returns it on the RX ring; the thread works through a batch of them and *)
(* puts their addresses back on the fill ring.  The kernel and libxdp are  *)
(* external: a frame may hold any packet of the feed or something else.    *)
(***************************************************************************)
EXTENDS EngineLoop

CONSTANTS kNumFrames, kBatchSize

ASSUME XdpAssumption == kNumFrames \in Nat \ {0} /\ kBatchSize \in Nat \ {0}

VARIABLES
  fill,        \* the addresses on the fill ring
  rx,          \* the descriptors on the RX ring, each with what its frame holds
  batchAddrs,
  rcvd, frameNo,   \* the batch: its size, and i
  done,
  arrived,     \* how many frames the kernel has filled (bounded by MaxReceives)
  lost         \* the frames whose place on the fill ring was refused

kernelVars == <<fill, rx, arrived>>
batchVars == <<batchAddrs, rcvd, frameNo, done, lost>>
xdpVars == <<kernelVars, batchVars>>

Frames == 0 .. kNumFrames - 1
Indeterminate == -1     \* an entry of batchAddrs that was never written
OtherFrame == NoPacket  \* a frame that one of the header checks turns away

XdpInit ==
  /\ fill = <<>> /\ rx = <<>> /\ arrived = 0
  /\ batchAddrs = [k \in 0 .. kBatchSize - 1 |-> Indeterminate]
  /\ rcvd = 0 /\ frameNo = 0
  /\ done = FALSE
  /\ lost = {}

(* The area, the rings and the socket are set up and every frame is lent   *)
(* to the kernel, or the thread returns.                                   *)
xdpSetup ==
  /\ netPc = "setup"
  /\ \/ netPc' = "peek" /\ fill' = [n \in 1 .. kNumFrames |-> n - 1]
     \/ netPc' = "done" /\ UNCHANGED fill
  /\ UNCHANGED <<setupVars, pool, slots, ring, netSlot, sessionVars, statVars,
                 engineVars, rx, arrived, batchVars>>

(* The kernel takes a frame off the fill ring for what has arrived.        *)
arrive(p) ==
  /\ fill # <<>> /\ Head(fill) \in Frames
  /\ arrived < MaxReceives
  /\ fill' = Tail(fill)
  /\ rx' = Append(rx, [addr |-> Head(fill), packet |-> p])
  /\ arrived' = arrived + 1
  /\ UNCHANGED <<loopVars, batchVars>>

(* The loop condition, and the batch that xsk_ring_cons__peek() grants.    *)
peek ==
  /\ netPc = "peek"
  /\ IF done \/ stop
     THEN netPc' = "done" /\ UNCHANGED <<rcvd, frameNo>>
     ELSE /\ rcvd' \in {n \in 1 .. Len(rx) : n <= kBatchSize}
          /\ frameNo' = 0
          /\ netPc' = "frame"
  /\ UNCHANGED <<setupVars, pool, slots, ring, netSlot, sessionVars, statVars,
                 engineVars, kernelVars, batchAddrs, done, lost>>

(* continue: on to the next frame of the batch, or out of the loop.        *)
nextFrame ==
  /\ frameNo' = frameNo + 1
  /\ netPc' = IF frameNo + 1 = rcvd THEN "release" ELSE "frame"

(* The frame's address is saved, its headers are checked and the packet's  *)
(* header is looked at.                                                    *)
frame ==
  LET desc == rx[frameNo + 1]
      p    == desc.packet
  IN  /\ netPc = "frame"
      /\ batchAddrs' = [batchAddrs EXCEPT ![frameNo] = desc.addr]
      /\ IF p = OtherFrame
         THEN nextFrame /\ UNCHANGED <<sessionVars, packetsReceived, gapsDetected, endOfSession>>
         ELSE /\ trackSession(p)
              /\ IF isEnd(p) \/ isData(p)
                 THEN netPc' = (IF isEnd(p) THEN "pushEnd" ELSE "copy") /\ UNCHANGED frameNo
                 ELSE nextFrame
      /\ UNCHANGED <<setupVars, pool, slots, ring, netSlot, packetsDropped, engineVars,
                     kernelVars, rcvd, done, lost>>

(* pool.acquire() and the copy out of the frame, of as much as the buffer  *)
(* holds; with no buffer free the packet is dropped.                       *)
copy ==
  /\ netPc = "copy"
  /\ IF pool = <<>>
     THEN nextFrame /\ packetsDropped' = packetsDropped + 1 /\ UNCHANGED <<pool, slots, netSlot>>
     ELSE /\ netSlot' = Head(pool) /\ pool' = Tail(pool)
          /\ slots' = [slots EXCEPT ![Head(pool)] = rx[frameNo + 1].packet]
          /\ netPc' = "push"
          /\ UNCHANGED <<frameNo, packetsDropped>>
  /\ UNCHANGED <<setupVars, ring, sessionVars, packetsReceived, gapsDetected, endOfSession,
                 engineVars, kernelVars, batchAddrs, rcvd, done, lost>>

xdpPush ==
  /\ netPc = "push"
  /\ pushOrDrop
  /\ nextFrame
  /\ UNCHANGED <<setupVars, slots, sessionVars, packetsReceived, gapsDetected, endOfSession,
                 engineVars, kernelVars, batchAddrs, rcvd, done, lost>>

(* The sentinel; then break, which leaves the rest of the batch alone.     *)
xdpPushEnd ==
  /\ netPc = "pushEnd"
  /\ pushSentinel
  /\ done' = TRUE
  /\ netPc' = "release"
  /\ UNCHANGED <<setupVars, pool, slots, netSlot, sessionVars, statVars, engineVars,
                 kernelVars, batchAddrs, rcvd, frameNo, lost>>

(* Mutant: one descriptor is released, whatever the size of the batch.     *)
releaseRxOne ==
  /\ netPc = "release"
  /\ rx' = Tail(rx)
  /\ netPc' = "refill"
  /\ UNCHANGED <<setupVars, pool, slots, ring, netSlot, sessionVars, statVars,
                 engineVars, fill, arrived, batchVars>>

releaseRx ==
  /\ netPc = "release"
  /\ rx' = SubSeq(rx, rcvd + 1, Len(rx))
  /\ netPc' = "refill"
  /\ UNCHANGED <<setupVars, pool, slots, ring, netSlot, sessionVars, statVars,
                 engineVars, fill, arrived, batchVars>>

(* xsk_ring_prod__reserve() grants room for all of the batch, or for none  *)
(* while it does not see yet that the kernel has taken frames.  There is   *)
(* no second attempt.                                                      *)
refill ==
  /\ netPc = "refill"
  /\ \E got \in {0, rcvd} :
       /\ Len(fill) + got <= kNumFrames
       /\ fill' = fill \o [n \in 1 .. got |-> batchAddrs[n - 1]]
       /\ lost' = lost \cup {batchAddrs[n] : n \in got .. rcvd - 1}
  /\ netPc' = "peek"
  /\ UNCHANGED <<setupVars, pool, slots, ring, netSlot, sessionVars, statVars,
                 engineVars, rx, arrived, batchAddrs, rcvd, frameNo, done>>

xdpStep == peek \/ frame \/ copy \/ xdpPush \/ xdpPushEnd \/ releaseRx \/ refill
=============================================================================
