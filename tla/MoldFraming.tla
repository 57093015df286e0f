----------------------------- MODULE MoldFraming -----------------------------
(***************************************************************************)
(* From a file of ITCH messages to processMessage, along both ways that    *)
(* src/main.cpp offers: run() walks over the file; or the replay sender    *)
(* packs its messages into MoldUDP64 packets and the matching thread walks *)
(* over the packets.                                                       *)
(*                                                                         *)
(* A file, or the body of a packet, has a length prefix at certain         *)
(* offsets.  A message is known by the address in the file of its first    *)
(* byte, wherever it has been copied to.  The network here delivers every  *)
(* packet in order; LiveFeed is about one that does not.                   *)
(*                                                                         *)
(* The packet that the sender builds and the buffer of the receiver have   *)
(* their sizes from two places in the code.  Both are 2048 bytes, and      *)
(* nothing but that keeps a packet from being longer than a buffer.        *)
(***************************************************************************)
EXTENDS ItchWire, FiniteSets, TLC

CONSTANTS Types,             \* the types of the messages in the files
          MaxFile,           \* bound on the messages of a file
          MaxPerPackets,     \* the values of --max-per-packet
          PacketBytes,       \* the size of the sender's packet
          BufferSizes,       \* the values of the receiver's kMaxPacketBytes to look at
          BatchEntries       \* the size of batchPtrs and batchLens

kMoldHeaderBytes == 20
kMoldEndOfSession == 65535

ASSUME FramingAssumption ==
  /\ PacketBytes \in Nat /\ BatchEntries \in Nat /\ MaxFile \in Nat
  /\ MaxPerPackets \subseteq Nat
  /\ BufferSizes \subseteq Nat /\ \A n \in BufferSizes : n >= kMoldHeaderBytes

VARIABLES
  udpMode, file, maxPerPacket, kMaxPacketBytes,
  senderPc, data, seq,          \* the replay sender and its position in the file
  batchPtrs, batchLens, packetUsed,
  sendFailed,                   \* a sendto() has failed
  net,                          \* the packets under way
  enginePc, slot, cursor,       \* the packet at hand, and the position in it or in the file
  nextExpected, found,          \* found: the messages found in the packet so far
  applied,                      \* the messages given to processMessage
  prefetched                    \* the key that run() has prefetched

inputs == <<udpMode, file, maxPerPacket, kMaxPacketBytes>>
batchVars == <<batchPtrs, batchLens, packetUsed>>
senderVars == <<senderPc, data, seq, batchVars, sendFailed>>
engineVars == <<enginePc, slot, cursor, nextExpected, found, applied, prefetched>>
vars == <<inputs, senderVars, net, engineVars>>

(* Bytes with a length prefix at each offset in DOMAIN at, and behind it a *)
(* copy of the message at the address `from' of the file.                  *)
append(bytes, len, from) ==
  [at   |-> bytes.at @@ (bytes.size :> [lenBe |-> swap16(len), from |-> from]),
   size |-> bytes.size + 2 + len]

NoBytes(size) == [at |-> <<>>, size |-> size]

(* Mutant: the length is taken in network byte order.                      *)
lengthAtUnswapped(bytes, offset) == bytes.at[offset].lenBe

(* The length of the message whose prefix is at the offset.                *)
lengthAt(bytes, offset) == swap16(bytes.at[offset].lenBe)

FileOf(types) ==
  FoldLeft(LAMBDA f, t : append(f, MessageLength(t), f.size + 2), NoBytes(0), types)

Init ==
  /\ udpMode \in BOOLEAN
  /\ file \in {FileOf(types) @@ [types |-> types] : types \in BoundedSeq(Types, MaxFile)}
  /\ maxPerPacket \in IF udpMode THEN MaxPerPackets ELSE {0}
  /\ kMaxPacketBytes \in IF udpMode THEN BufferSizes ELSE {PacketBytes}
  /\ senderPc = (IF udpMode THEN "loop" ELSE "done") /\ data = 0 /\ seq = 1
  /\ batchPtrs = <<>> /\ batchLens = <<>> /\ packetUsed = kMoldHeaderBytes
  /\ sendFailed = FALSE
  /\ net = <<>>
  /\ enginePc = (IF udpMode THEN "recv" ELSE "run")
  /\ slot = [seqBe |-> <<>>, countBe |-> 0, body |-> NoBytes(0)] /\ cursor = 0
  /\ nextExpected = 1 /\ found = 0
  /\ applied = <<>> /\ prefetched = <<>>

-----------------------------------------------------------------------------
(* The replay sender: a new batch, as long as there are messages.          *)
nextBatch ==
  /\ senderPc = "loop"
  /\ senderPc' = IF data < file.size THEN "batch" ELSE "end"
  /\ batchPtrs' = <<>> /\ batchLens' = <<>>
  /\ packetUsed' = kMoldHeaderBytes
  /\ UNCHANGED <<inputs, data, seq, sendFailed, net, engineVars>>

(* Mutant: the length prefix is not counted.                               *)
fitsWithoutPrefix(mlen) == packetUsed + mlen <= PacketBytes

fits(mlen) == packetUsed + 2 + mlen <= PacketBytes

canTake ==
  data < file.size /\ Len(batchPtrs) < maxPerPacket /\ fits(lengthAt(file, data))

(* Mutant: the pointer kept is that of the length prefix.                  *)
takeMessageAtPrefix ==
  LET mlen == lengthAt(file, data)
  IN  /\ senderPc = "batch" /\ canTake
      /\ batchPtrs' = Append(batchPtrs, data)
      /\ batchLens' = Append(batchLens, mlen)
      /\ packetUsed' = packetUsed + 2 + mlen
      /\ data' = data + 2 + mlen
      /\ UNCHANGED <<inputs, senderPc, seq, sendFailed, net, engineVars>>

takeMessage ==
  LET mlen == lengthAt(file, data)
  IN  /\ senderPc = "batch" /\ canTake
      /\ batchPtrs' = Append(batchPtrs, data + 2)
      /\ batchLens' = Append(batchLens, mlen)
      /\ packetUsed' = packetUsed + 2 + mlen
      /\ data' = data + 2 + mlen
      /\ UNCHANGED <<inputs, senderPc, seq, sendFailed, net, engineVars>>

(* Mutant: a message that does not fit any more ends the loop.             *)
closeBatchGivesUp ==
  /\ senderPc = "batch" /\ ~canTake
  /\ senderPc' = IF data < file.size /\ ~fits(lengthAt(file, data)) THEN "end" ELSE "send"
  /\ UNCHANGED <<inputs, data, seq, batchVars, sendFailed, net, engineVars>>

(* Mutant: an empty batch is tried again.                                  *)
closeBatchRetries ==
  /\ senderPc = "batch" /\ ~canTake
  /\ senderPc' = IF batchPtrs = <<>> THEN "loop" ELSE "send"
  /\ UNCHANGED <<inputs, data, seq, batchVars, sendFailed, net, engineVars>>

(* The batch is full or the file at its end; an empty batch ends the loop. *)
closeBatch ==
  /\ senderPc = "batch" /\ ~canTake
  /\ senderPc' = IF batchPtrs = <<>> THEN "end" ELSE "send"
  /\ UNCHANGED <<inputs, data, seq, batchVars, sendFailed, net, engineVars>>

(* The packet with the given messages; its body has size 0 if out of space.*)
buildMoldPacket(n, ptrs, lens) ==
  LET body == FoldLeftDomain(LAMBDA b, i : append(b, lens[i], ptrs[i]),
                             NoBytes(kMoldHeaderBytes), ptrs)
  IN  [seqBe   |-> encodeSeq(n),
       countBe |-> swap16(Len(ptrs)),
       body    |-> IF body.size > PacketBytes THEN NoBytes(0) ELSE body]

(* The packet is built and sent; a failure of either ends the loop.        *)
sendBatch ==
  LET packet == buildMoldPacket(seq, batchPtrs, batchLens)
  IN  /\ senderPc = "send"
      /\ \/ /\ packet.body.size > 0
            /\ senderPc' = "loop"
            /\ net' = Append(net, packet)
            /\ seq' = seq + Len(batchPtrs)
            /\ UNCHANGED sendFailed
         \/ /\ senderPc' = "end"
            /\ sendFailed' = (packet.body.size > 0)
            /\ UNCHANGED <<net, seq>>
      /\ UNCHANGED <<inputs, data, batchVars, engineVars>>

(* The end-of-session marker: a packet of no messages, its count patched.  *)
sendEnd ==
  LET packet == [buildMoldPacket(seq, <<>>, <<>>) EXCEPT !.countBe = swap16(kMoldEndOfSession)]
  IN  /\ senderPc = "end"
      /\ senderPc' = "done"
      /\ \/ net' = Append(net, packet) /\ UNCHANGED sendFailed
         \/ sendFailed' = TRUE /\ UNCHANGED net
      /\ UNCHANGED <<inputs, data, seq, batchVars, engineVars>>

-----------------------------------------------------------------------------
(* The engine in UDP mode: a packet is received, as much of it as a buffer *)
(* holds, and its header parsed.  It is never a duplicate or behind a gap  *)
(* here (NumbersFollow); EngineLoop has what the handlers do with those.   *)
messageCount(packet) == swap16(packet.countBe)

(* Mutant: the buffer is taken to hold the datagram.                       *)
slotEndOfDatagram == slot.body.size

slotEnd == IF slot.body.size < kMaxPacketBytes THEN slot.body.size ELSE kMaxPacketBytes

recv ==
  LET packet == Head(net)
      hdrSeq == decodeSeq(packet.seqBe)
      count  == messageCount(packet)
  IN  /\ enginePc = "recv" /\ net # <<>>
      /\ net' = Tail(net)
      /\ slot' = packet
      /\ cursor' = kMoldHeaderBytes /\ found' = 0
      /\ IF count = kMoldEndOfSession
         THEN enginePc' = "done" /\ UNCHANGED nextExpected
         ELSE enginePc' = "next" /\ nextExpected' = hdrSeq + count
      /\ UNCHANGED <<inputs, senderVars, applied, prefetched>>

(* MoldMessageIterator::next() finds no other whole message.               *)
exhausted ==
  cursor + 2 <= slotEnd => cursor + 2 + lengthAt(slot.body, cursor) > slotEnd

(* next() returns a message, which goes to processMessage.                 *)
nextMessage ==
  /\ enginePc = "next" /\ ~exhausted
  /\ applied' = Append(applied, slot.body.at[cursor].from)
  /\ cursor' = cursor + 2 + lengthAt(slot.body, cursor)
  /\ found' = found + 1
  /\ UNCHANGED <<inputs, senderVars, net, enginePc, slot, nextExpected, prefetched>>

endOfPacket ==
  /\ enginePc = "next" /\ exhausted
  /\ enginePc' = "recv"
  /\ UNCHANGED <<inputs, senderVars, net, slot, cursor, nextExpected, found, applied, prefetched>>

-----------------------------------------------------------------------------
typeAt(offset) == file.types[Cardinality({o \in DOMAIN file.at : o <= offset})]

(* The engine in file mode: a message of the file; before it is processed, *)
(* the key of the next one is prefetched.                                  *)
runMessage ==
  LET messageLength == lengthAt(file, cursor)
      nextPkt       == cursor + 2 + messageLength
  IN  /\ enginePc = "run" /\ cursor < file.size
      /\ prefetched' = IF nextPkt + 21 <= file.size /\ typeAt(nextPkt) \in KeyedTypes
                       THEN ntohl(loadU32(nextPkt + 13)) \o ntohl(loadU32(nextPkt + 17))
                       ELSE <<>>
      /\ applied' = Append(applied, file.at[cursor].from)
      /\ cursor' = nextPkt
      /\ UNCHANGED <<inputs, senderVars, net, enginePc, slot, nextExpected, found>>

endOfFile ==
  /\ enginePc = "run" /\ cursor >= file.size
  /\ enginePc' = "done"
  /\ UNCHANGED <<inputs, senderVars, net, slot, cursor, nextExpected, found, applied, prefetched>>

Finished == senderPc = "done" /\ net = <<>> /\ enginePc \in {"recv", "done"} /\ UNCHANGED vars

senderStep == nextBatch \/ takeMessage \/ closeBatch \/ sendBatch \/ sendEnd
engineStep == recv \/ nextMessage \/ endOfPacket \/ runMessage \/ endOfFile

Next == senderStep \/ engineStep \/ Finished

Spec == Init /\ [][Next]_vars

(* Both programs run on; the network delivers what is sent.                *)
FairSpec == Spec /\ WF_vars(senderStep) /\ WF_vars(engineStep)

-----------------------------------------------------------------------------
TypeOK ==
  /\ senderPc \in {"loop", "batch", "send", "end", "done"}
  /\ data \in 0 .. file.size
  /\ seq \in 1 .. MaxFile + 1
  /\ batchPtrs \in Seq(0 .. file.size)
  /\ batchLens \in Seq(0 .. PacketBytes)
  /\ packetUsed \in Nat
  /\ sendFailed \in BOOLEAN
  /\ enginePc \in {"recv", "next", "run", "done"}
  /\ cursor \in 0 .. IF udpMode THEN kMaxPacketBytes ELSE file.size
  /\ nextExpected \in Nat
  /\ found \in Nat
  /\ applied \in Seq(0 .. file.size)
  /\ prefetched \in Seq(0 .. file.size - 1)

(* The batch never has more messages than batchPtrs and batchLens have     *)
(* entries, and the packet built from it has the size the sender counted:  *)
(* buildMoldPacket never runs out of space, whatever --max-per-packet is.  *)
BatchFits ==
  /\ Len(batchPtrs) <= BatchEntries
  /\ senderPc = "send" =>
       buildMoldPacket(seq, batchPtrs, batchLens).body.size = packetUsed

(* The number on a packet, as the receiver decodes it, is the number of    *)
(* the message behind those of the packet before, and the end-of-session   *)
(* marker has the number of the message that would come next: without loss *)
(* the receiver sees neither a gap nor a duplicate.                        *)
NumbersFollow ==
  \A n \in 1 .. Len(net) :
    decodeSeq(net[n].seqBe) =
      IF n = 1 THEN nextExpected ELSE decodeSeq(net[n - 1].seqBe) + messageCount(net[n - 1])

(* The messages of the packet that lie within the buffer.                  *)
Whole ==
  {offset \in DOMAIN slot.body.at : offset + 2 + lengthAt(slot.body, offset) <= kMaxPacketBytes}

(* The matching thread applies the messages that the bytes of a buffer     *)
(* hold, the network thread moves on by the count in the header: the two   *)
(* are the same unless the datagram is longer than the buffer, and then    *)
(* those applied are the ones that lie whole within it, none in part.      *)
CountsAgree ==
  enginePc = "next" /\ exhausted =>
    /\ found = Cardinality(Whole)
    /\ slot.body.size <= kMaxPacketBytes => found = messageCount(slot)

(* processMessage is given messages of the file in their order, at their   *)
(* first byte; and, if no packet is longer than a buffer, it is given each *)
(* of them, at the end of the run the whole file in file mode and all that *)
(* was sent in UDP mode.                                                   *)
AppliesTheFile ==
  /\ \A n \in 1 .. Len(applied) :
       /\ applied[n] - 2 \in DOMAIN file.at
       /\ n > 1 => applied[n - 1] < applied[n]
  /\ PacketBytes <= kMaxPacketBytes =>
       /\ \A n \in 1 .. Len(applied) :
            applied[n] = 2 + IF n = 1 THEN 0 ELSE applied[n - 1] + MessageLength(file.types[n - 1])
       /\ enginePc = "done" => Len(applied) = IF udpMode THEN seq - 1 ELSE Len(file.types)

(* The sender leaves a message out only after a failed sendto(), or when   *)
(* it has come to one that fits no packet, or may put none into a packet.  *)
SendsTheFile ==
  senderPc = "done" /\ udpMode /\ seq - 1 < Len(file.types) =>
    \/ sendFailed
    \/ maxPerPacket = 0
    \/ kMoldHeaderBytes + 2 + lengthAt(file, data) > PacketBytes

(* The slot that run() prefetches is the one that processMessage looks up  *)
(* for the next message.                                                   *)
PrefetchIsNextKey ==
  prefetched # <<>> => prefetched = parse(typeAt(cursor), cursor + 3).ref

(* processMessage ignores the length it is given, and yet reads nothing    *)
(* beyond the message.                                                     *)
ReadsItsOwnBytes ==
  \A n \in 1 .. Len(applied) :
    LET type == typeAt(applied[n])
    IN  type \in KeyedTypes =>
          bytesRead(parse(type, applied[n] + 1))
            \subseteq applied[n] .. applied[n] + MessageLength(type) - 1

(* Unless a packet is refused, the run comes to its end, in either mode.   *)
RunEnds == <>(enginePc = "done" \/ sendFailed)
=============================================================================
