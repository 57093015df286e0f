------------------------------- MODULE UdpFeed -------------------------------
(***************************************************************************)
(* The network thread with a UDP socket: runFeedHandler                    *)
(* (src/feed_handler.cpp).                                                 *)
(*                                                                         *)
(* UDP loses, duplicates and reorders: a receive returns any packet of the *)
(* feed, whether or not it was returned before.                            *)
(***************************************************************************)
EXTENDS EngineLoop

(* socket(), bind() or the multicast join: the thread listens or returns.  *)
setup ==
  /\ netPc = "setup"
  /\ netPc' \in {"acquire", "done"}
  /\ UNCHANGED <<setupVars, pool, slots, ring, netSlot, sessionVars, statVars, engineVars>>

(* The test of stop and pool.acquire().                                    *)
acquire ==
  /\ netPc = "acquire"
  /\ IF stop
     THEN netPc' = "done" /\ UNCHANGED <<pool, netSlot>>
     ELSE IF pool = <<>>
     THEN netPc' = "scratch" /\ UNCHANGED <<pool, netSlot>>
     ELSE netPc' = "recv" /\ netSlot' = Head(pool) /\ pool' = Tail(pool)
  /\ UNCHANGED <<setupVars, slots, ring, sessionVars, statVars, engineVars>>

(* recv() is interrupted, returns less than a header, or fails for good.   *)
recvNothing ==
  /\ netPc = "recv"
  /\ releaseNetSlot
  /\ netPc' \in {"acquire", "done"}
  /\ UNCHANGED <<setupVars, slots, ring, sessionVars, statVars, engineVars>>

(* With no buffer free, a packet goes to a throwaway one and is not looked *)
(* at.                                                                     *)
recvScratch ==
  /\ netPc = "scratch"
  /\ packetsReceived < MaxReceives
  /\ packetsReceived' = packetsReceived + 1
  /\ packetsDropped' = packetsDropped + 1
  /\ netPc' = "acquire"
  /\ UNCHANGED <<setupVars, pool, slots, ring, netSlot, sessionVars,
                 gapsDetected, endOfSession, engineVars>>

recvScratchNothing ==
  /\ netPc = "scratch"
  /\ netPc' = "acquire"
  /\ UNCHANGED <<setupVars, pool, slots, ring, netSlot, sessionVars, statVars, engineVars>>

(* A packet is received and its header looked at.  recv() keeps as much of *)
(* it as the buffer holds, p.fits of its messages, and nothing tells that  *)
(* there was more.                                                         *)
recv(p) ==
  /\ netPc = "recv"
  /\ packetsReceived < MaxReceives
  /\ slots' = [slots EXCEPT ![netSlot] = p]
  /\ trackSession(p)
  /\ IF isData(p)
     THEN netPc' = "push" /\ UNCHANGED <<pool, netSlot>>
     ELSE netPc' = (IF isEnd(p) THEN "pushEnd" ELSE "acquire") /\ releaseNetSlot
  /\ UNCHANGED <<setupVars, ring, packetsDropped, engineVars>>

push ==
  /\ netPc = "push"
  /\ pushOrDrop
  /\ netPc' = "acquire"
  /\ UNCHANGED <<setupVars, slots, sessionVars, packetsReceived, gapsDetected,
                 endOfSession, engineVars>>

pushEnd ==
  /\ netPc = "pushEnd"
  /\ pushSentinel
  /\ netPc' = "done"
  /\ UNCHANGED <<setupVars, pool, slots, netSlot, sessionVars, statVars, engineVars>>

(* The steps the thread takes without the network's help.                  *)
udpStep == acquire \/ push \/ pushEnd

udpReceive ==
  setup \/ recvNothing \/ recvScratch \/ recvScratchNothing \/ \E p \in sent : recv(p)
=============================================================================
