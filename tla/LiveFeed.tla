------------------------------ MODULE LiveFeed ------------------------------
(***************************************************************************)
(* runUdp as a whole: the matching thread with one of the two network      *)
(* threads, as useXdp says.                                                *)
(***************************************************************************)
EXTENDS UdpFeed, XdpFeed, FiniteSets

VARIABLE useXdp

vars == <<loopVars, xdpVars, useXdp>>

Init == LoopInit /\ XdpInit /\ useXdp \in BOOLEAN

Terminated == enginePc = "done" /\ UNCHANGED vars

netStep == IF useXdp THEN xdpStep /\ UNCHANGED useXdp
                     ELSE udpStep /\ UNCHANGED <<xdpVars, useXdp>>

(* The thread's start, and what the network delivers.                      *)
network ==
  \/ ~useXdp /\ udpReceive /\ UNCHANGED xdpVars
  \/ useXdp /\ xdpSetup
  \/ useXdp /\ netPc # "done" /\ \E p \in sent \cup {OtherFrame} : arrive(p)

Next ==
  \/ network /\ UNCHANGED useXdp
  \/ netStep
  \/ (engineStep \/ spin) /\ UNCHANGED <<xdpVars, useXdp>>
  \/ Terminated

Spec == Init /\ [][Next]_vars

(* Both threads run on cores of their own.  Nothing is assumed of the      *)
(* senders, the kernel or recv().                                          *)
FairSpec ==
  Spec /\ WF_vars(netStep) /\ WF_vars(engineStep /\ UNCHANGED <<xdpVars, useXdp>>)

-----------------------------------------------------------------------------
TypeOK ==
  /\ sent \subseteq Packets
  /\ poolSlots \in PoolSizes
  /\ pool \in Seq(SlotIdx)
  /\ slots \in [SlotIdx -> Packets \cup {NoPacket}]
  /\ ring \in Seq(SlotIdx \cup {kPoolInvalid})
  /\ stop \in BOOLEAN
  /\ netPc \in IF useXdp
               THEN {"setup", "peek", "frame", "copy", "push", "pushEnd", "release",
                     "refill", "done"}
               ELSE {"setup", "acquire", "recv", "scratch", "push", "pushEnd", "done"}
  /\ netSlot \in SlotIdx \cup {kPoolInvalid}
  /\ activeSession \in Sessions \cup {NoSession}
  /\ nextExpected \in 1 .. MaxMessages + 1
  /\ packetsReceived \in Nat /\ packetsDropped \in Nat
  /\ gapsDetected \in Nat /\ endOfSession \in Nat
  /\ enginePc \in {"pop", "process", "release", "stop", "join", "done"}
  /\ engineSlot \in SlotIdx \cup {kPoolInvalid}
  /\ processed \in Seq(Sessions \X Nat)
  /\ fill \in Seq(Frames \cup {Indeterminate})
  /\ rx \in Seq([addr : Frames, packet : Packets \cup {OtherFrame}])
  /\ batchAddrs \in [0 .. kBatchSize - 1 -> Frames \cup {Indeterminate}]
  /\ rcvd \in 0 .. kBatchSize /\ frameNo \in 0 .. kBatchSize
  /\ done \in BOOLEAN
  /\ arrived \in 0 .. MaxReceives
  /\ lost \subseteq Frames \cup {Indeterminate}

(* The network thread is about to call pool.acquire().                     *)
Acquiring == netPc \in {"acquire", "copy"}

(* With a pool larger than the ring, neither handler ever finds the pool   *)
(* empty.                                                                  *)
NeverStarves == Acquiring /\ poolSlots > RingSlots => pool # <<>>

Occurrences(x, s) == {n \in DOMAIN s : s[n] = x}

(* Every buffer is in exactly one of the pool, the ring and the hands of   *)
(* the two threads: none is lost on a drop, an error or a heartbeat, and   *)
(* the packet being processed is not the one being received into.          *)
BuffersInOnePlace ==
  \A i \in SlotIdx :
    Cardinality(Occurrences(i, pool \o ring \o <<netSlot, engineSlot>>)) = 1

(* Whatever the network does, processMessage sees the messages in order of *)
(* their numbers and no number twice.                                      *)
InOrderOnce ==
  \A m, n \in 1 .. Len(processed) : m < n => processed[m][2] < processed[n][2]

DataPackets == {p \in sent : ~isEnd(p)}

(* The messages sent in a datagram longer than a buffer, in the part that  *)
(* a buffer does not keep.                                                 *)
CutOff == UNION {p.seq + p.fits .. p.seq + p.count - 1 : p \in DataPackets}

(* Between two messages processed, none is missing but those cut off.      *)
Contiguous ==
  \A n \in 1 .. Len(processed) - 1 :
    processed[n][2] + 1 .. processed[n + 1][2] - 1 \subseteq CutOff

(* A hole in the messages processed shows in the report: as a gap, or as   *)
(* packets dropped.  The one kind of hole that does not is the end of a    *)
(* datagram longer than a buffer: nextExpected moves on by the count in    *)
(* the header, over messages that were never stored.  A feed whose         *)
(* datagrams have at most kMaxPacketBytes has none of these.               *)
HolesAreReported == gapsDetected = 0 /\ packetsDropped = 0 => Contiguous

(* Once the end of the session is received, the run ends.                  *)
EndOfSessionEndsRun == netPc = "pushEnd" ~> enginePc = "done"

(* At the end of a run every message the network thread accepted and did   *)
(* not count as dropped has been processed: the sentinel overtakes nothing *)
(* on the ring, and no packet is accepted behind it.                       *)
NothingLeftBehind ==
  enginePc \in {"stop", "join", "done"} =>
    /\ ring = <<>>
    /\ netPc = "done" \/ done

(* The batch, once it is off the RX ring.                                  *)
inHand == IF netPc = "refill" THEN [n \in 1 .. rcvd |-> batchAddrs[n - 1]] ELSE <<>>

(* Until an end of session stops the handler, every frame is in exactly    *)
(* one of the fill ring, the RX ring, the batch, and the frames given up   *)
(* when the fill ring refused them: the kernel is never lent a frame that  *)
(* the handler still reads, or one that is lent already.  An end of        *)
(* session inside a batch does put addresses on the fill ring that are not *)
(* the batch's; it has to be the last thing the handler does.              *)
FramesInOnePlace ==
  useXdp /\ netPc \notin {"setup", "done"} /\ ~done =>
    \A a \in Frames :
      LET places == Occurrences(a, fill \o [n \in DOMAIN rx |-> rx[n].addr] \o inHand)
      IN  Cardinality(places) = IF a \in lost THEN 0 ELSE 1

-----------------------------------------------------------------------------
(* "the gap detection on the next received packet will surface that we     *)
(* missed messages" (src/feed_handler.cpp:152): a hole in the messages     *)
(* processed implies a gap counted.                                        *)
DropsSurfaceAsGaps == gapsDetected = 0 => Contiguous

(* "Periodically check the stop flag so we can shut down cleanly if the    *)
(* producer dies" (src/engine_udp.cpp:82).                                 *)
DeadProducerEndsRun == netPc = "done" ~> enginePc = "done"

(* "we assume a single session for simplicity and sanity-check that the    *)
(* session bytes don't change" (src/feed_handler.cpp:71): every message    *)
(* processed is of the session the handler first saw.                      *)
SessionIsChecked == \A n \in 1 .. Len(processed) : processed[n][1] = activeSession
=============================================================================
