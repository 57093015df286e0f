----------------------------- MODULE EngineLoop -----------------------------
(***************************************************************************)
(* The matching thread of runUdp (src/engine_udp.cpp), the ring and the    *)
(* pool it shares with the network thread, and what the two receive        *)
(* handlers of that thread (modules UdpFeed and XdpFeed) have in common.   *)
(*                                                                         *)
(* The ring is the queue that SpscRing implements (BoundedFifo), the pool  *)
(* the stack of free buffers that PacketPool implements (FreeStack).  A    *)
(* step of a thread goes from one access to shared state to the next.      *)
(*                                                                         *)
(* A packet is its header, with the number of its messages that lie within *)
(* the first kMaxPacketBytes bytes: all of them, or fewer if the datagram  *)
(* is longer than a buffer, which keeps no more than that.  The messages   *)
(* are numbered from the sequence number on (module MoldFraming has the    *)
(* bytes).                                                                 *)
(***************************************************************************)
EXTENDS Integers, Sequences

CONSTANTS RingSlots,
          PoolSizes,            \* the sizes of the pool to look at
          Sessions, NoSession,
          MaxMessages, MaxBatch,
          Rooms,                \* how many messages of a packet a buffer may have room for
          MaxReceives,          \* bound on the packets that arrive
          kMoldEndOfSession,    \* a message count no packet of data has
          kPoolInvalid

ASSUME FeedAssumption ==
  /\ RingSlots \in Nat \ {0} /\ PoolSizes \subseteq Nat \ {0}
  /\ MaxBatch \in Nat /\ MaxMessages \in Nat /\ MaxReceives \in Nat
  /\ Rooms \subseteq Nat
  /\ kMoldEndOfSession \in Nat /\ kMoldEndOfSession > MaxBatch
  /\ kPoolInvalid \notin Nat
  /\ NoSession \notin Sessions

VARIABLES
  sent,            \* the packets of the feed
  poolSlots,       \* kPoolSlots
  pool,            \* the stack of free buffers, top first
  slots,           \* what each buffer holds
  ring,            \* the buffer indices on the ring; kPoolInvalid ends the session
  stop,
  netPc, netSlot,  \* the network thread and its slotIdx
  activeSession, nextExpected,   \* NoSession: sessionInit is false
  packetsReceived, packetsDropped, gapsDetected, endOfSession,
  enginePc, engineSlot,   \* the matching thread and its ref.poolIdx
  processed        \* the messages it has passed to processMessage

setupVars == <<sent, poolSlots>>
sessionVars == <<activeSession, nextExpected>>
statVars == <<packetsReceived, packetsDropped, gapsDetected, endOfSession>>
netVars == <<netPc, netSlot, sessionVars, statVars>>
engineVars == <<enginePc, engineSlot, processed, stop>>
loopVars == <<setupVars, pool, slots, ring, netVars, engineVars>>

SlotIdx == 0 .. poolSlots - 1
kMoldHeartbeat == 0
NoPacket == [session |-> NoSession, seq |-> 0, count |-> 0, fits |-> 0]
Packets ==
  {p \in [session : Sessions, seq : 1 .. MaxMessages + 1,
          count : 0 .. MaxBatch \cup {kMoldEndOfSession}, fits : 0 .. MaxBatch] :
     p.fits <= p.count}

(* A session of MaxMessages messages, cut into packets at `starts', with   *)
(* heartbeats in between and the end-of-session marker behind.  Of the     *)
(* packet that starts at b, a buffer has room for room[b] messages.        *)
Feed(session, starts, room) ==
  LET bounds    == starts \cup {MaxMessages + 1}
      next(b)   == CHOOSE e \in bounds : e > b /\ \A c \in bounds : c > b => e <= c
      size(b)   == next(b) - b
      packet(b, n, k) == [session |-> session, seq |-> b, count |-> n, fits |-> k]
  IN  {packet(b, size(b), IF room[b] < size(b) THEN room[b] ELSE size(b)) : b \in starts}
      \cup {packet(b, kMoldHeartbeat, 0) : b \in bounds}
      \cup {packet(MaxMessages + 1, kMoldEndOfSession, 0)}

(* What the senders may put on the wire.                                   *)
Feeds ==
  LET cuts == {starts \in SUBSET (1 .. MaxMessages) : 1 \in starts}
      shapes == cuts \X [1 .. MaxMessages -> Rooms]
  IN  {f \in {UNION {Feed(s, shape[s][1], shape[s][2]) : s \in Sessions} :
               shape \in [Sessions -> shapes]} :
         f \subseteq Packets}

LoopInit ==
  /\ sent \in Feeds
  /\ poolSlots \in PoolSizes
  /\ pool = [n \in 1 .. poolSlots |-> n - 1]
  /\ slots = [i \in SlotIdx |-> NoPacket]
  /\ ring = <<>>
  /\ stop = FALSE
  /\ netPc = "setup" /\ netSlot = kPoolInvalid
  /\ activeSession = NoSession /\ nextExpected = 1
  /\ packetsReceived = 0 /\ packetsDropped = 0
  /\ gapsDetected = 0 /\ endOfSession = 0
  /\ enginePc = "pop" /\ engineSlot = kPoolInvalid
  /\ processed = <<>>

-----------------------------------------------------------------------------
(* What both handlers do with a header.                                    *)

(* What nextExpected is when the packet p is compared with it.             *)
expected(p) == IF activeSession = NoSession THEN p.seq ELSE nextExpected

(* Mutant: the message before the expected one counts as new.              *)
isDuplicateOffByOne(p) == p.seq + 1 < expected(p)

isDuplicate(p) == p.seq < expected(p)

(* Mutant: a jump in the sequence numbers is not noticed.                  *)
isGapNever(p) == FALSE

isGap(p) == p.seq > expected(p)

(* Mutant: the end-of-session marker passes for a packet of data.          *)
isEndNever(p) == FALSE

isEnd(p) == p.count = kMoldEndOfSession

isData(p) == ~isEnd(p) /\ p.count # kMoldHeartbeat /\ ~isDuplicate(p)

(* The session and the statistics after the packet p.                      *)
trackSession(p) ==
  /\ packetsReceived' = packetsReceived + 1
  /\ activeSession' = IF activeSession = NoSession THEN p.session ELSE activeSession
  /\ nextExpected' = IF isData(p) THEN p.seq + p.count ELSE expected(p)
  /\ gapsDetected' = IF isData(p) /\ isGap(p) THEN gapsDetected + 1 ELSE gapsDetected
  /\ endOfSession' = IF isEnd(p) THEN endOfSession + 1 ELSE endOfSession

(* pool.release() by the network thread.                                   *)
releaseNetSlot ==
  /\ pool' = <<netSlot>> \o pool
  /\ netSlot' = kPoolInvalid

(* Mutant: push() fills the ring to the last slot.                         *)
ringFullNoOpenSlot == Len(ring) >= RingSlots

ringFull == Len(ring) >= RingSlots - 1

(* Mutant: the buffer of a dropped packet is not given back.               *)
pushOrDropLeaks ==
  /\ netSlot' = kPoolInvalid
  /\ IF ringFull
     THEN packetsDropped' = packetsDropped + 1 /\ UNCHANGED <<pool, ring>>
     ELSE ring' = Append(ring, netSlot) /\ UNCHANGED <<pool, packetsDropped>>

(* ring.push(); a packet that finds the ring full is dropped.              *)
pushOrDrop ==
  IF ringFull
  THEN releaseNetSlot /\ packetsDropped' = packetsDropped + 1 /\ UNCHANGED ring
  ELSE /\ ring' = Append(ring, netSlot)
       /\ netSlot' = kPoolInvalid
       /\ UNCHANGED <<pool, packetsDropped>>

(* Mutant: the sentinel is tried once, like a packet.                      *)
pushSentinelOnce ==
  ring' = IF ringFull THEN ring ELSE Append(ring, kPoolInvalid)

(* The sentinel is pushed until the ring has room or stop is set.          *)
pushSentinel ==
  /\ ~ringFull \/ stop
  /\ ring' = IF ringFull THEN ring ELSE Append(ring, kPoolInvalid)

-----------------------------------------------------------------------------
(* The matching thread: ring.pop() returns a buffer.                       *)
pop ==
  /\ enginePc = "pop"
  /\ ring # <<>>
  /\ Head(ring) # kPoolInvalid
  /\ engineSlot' = Head(ring)
  /\ ring' = Tail(ring)
  /\ enginePc' = "process"
  /\ UNCHANGED <<setupVars, pool, slots, netVars, processed, stop>>

(* ring.pop() fails, and the thread spins; now and then it looks at stop.  *)
spin ==
  /\ enginePc = "pop"
  /\ ring = <<>>
  /\ enginePc' = IF stop THEN "stop" ELSE "pop"
  /\ UNCHANGED <<setupVars, pool, slots, ring, netVars, engineSlot, processed, stop>>

(* Mutant: the statistics, not the sentinel, tell that the session ended.  *)
popEndByFlag ==
  /\ enginePc = "pop"
  /\ endOfSession > 0
  /\ enginePc' = "stop"
  /\ UNCHANGED <<setupVars, pool, slots, ring, netVars, engineSlot, processed, stop>>

(* ring.pop() returns the sentinel.                                        *)
popEnd ==
  /\ enginePc = "pop"
  /\ ring # <<>>
  /\ Head(ring) = kPoolInvalid
  /\ ring' = Tail(ring)
  /\ enginePc' = "stop"
  /\ UNCHANGED <<setupVars, pool, slots, netVars, engineSlot, processed, stop>>

(* The messages that the iterator finds in the bytes of a buffer, by       *)
(* session and number: it stops at one that is cut off, whatever the       *)
(* header says.                                                            *)
messages(p) == [n \in 1 .. p.fits |-> <<p.session, p.seq + n - 1>>]

process ==
  /\ enginePc = "process"
  /\ processed' = processed \o messages(slots[engineSlot])
  /\ enginePc' = "release"
  /\ UNCHANGED <<setupVars, pool, slots, ring, netVars, engineSlot, stop>>

release ==
  /\ enginePc = "release"
  /\ pool' = <<engineSlot>> \o pool
  /\ engineSlot' = kPoolInvalid
  /\ enginePc' = "pop"
  /\ UNCHANGED <<setupVars, slots, ring, netVars, processed, stop>>

setStop ==
  /\ enginePc = "stop"
  /\ stop' = TRUE
  /\ enginePc' = "join"
  /\ UNCHANGED <<setupVars, pool, slots, ring, netVars, engineSlot, processed>>

(* netThread.join() and the report.                                        *)
join ==
  /\ enginePc = "join"
  /\ netPc = "done"
  /\ enginePc' = "done"
  /\ UNCHANGED <<setupVars, pool, slots, ring, netVars, engineSlot, processed, stop>>

engineStep == pop \/ popEnd \/ process \/ release \/ setStop \/ join
=============================================================================
