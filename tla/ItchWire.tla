------------------------------ MODULE ItchWire ------------------------------
(***************************************************************************)
(* Numbers on the wire and the ITCH messages (src/itch.cpp, and the byte   *)
(* order code of src/moldudp64.hpp).  The host is little-endian, as the    *)
(* code assumes.                                                           *)
(*                                                                         *)
(* The parser does not depend on the values of the bytes, so a number it   *)
(* reads is the sequence of the addresses its bytes come from, the most    *)
(* significant first.                                                      *)
(***************************************************************************)
EXTENDS Integers, Sequences, SequencesExt

(* ntohs and htons.                                                        *)
swap16(v) == (v % 256) * 256 + v \div 256

-----------------------------------------------------------------------------
(* The types the engine handles; the others share one name.  The lengths   *)
(* are those of the ITCH 5.0 specification ("other": a system event).      *)
KeyedTypes == {"A", "F", "D", "E", "C", "X", "U"}

MessageLength(type) ==
  CASE type = "A" -> 36 [] type = "F" -> 40 [] type = "D" -> 19 [] type = "E" -> 31
    [] type = "C" -> 36 [] type = "X" -> 23 [] type = "U" -> 35 [] type = "other" -> 12

(* memcpy into a uint32_t, and ntohl.                                      *)
loadU32(a) == <<a + 3, a + 2, a + 1, a>>
ntohl(v) == Reverse(v)

readU32(a) == ntohl(loadU32(a))

(* Mutant: the two halves of a reference change places.                    *)
readRefSwapped(a) == readU32(a + 4) \o readU32(a)

(* hi << 32 | lo, for any two readings.                                    *)
readRef(a) == readU32(a) \o readU32(a + 4)

(* Mutant: the header is taken to have a two-byte field more.              *)
skipHeaderLong(a) == a + 12

skipHeader(a) == a + 10

(* readAddOrder, readDeleteOrder, readOrderExecuted and readOrderReplace,  *)
(* with `a' just behind the type byte.                                     *)
parse(type, a) ==
  LET b == skipHeader(a)
  IN  CASE type \in {"A", "F"} ->
             [ref |-> readRef(b), side |-> <<b + 8>>, shares |-> readU32(b + 9),
              price |-> readU32(b + 21)]
        [] type = "D" -> [ref |-> readRef(b)]
        [] type \in {"E", "C", "X"} -> [ref |-> readRef(b), shares |-> readU32(b + 8)]
        [] type = "U" ->
             [ref |-> readRef(b), newRef |-> readRef(b + 8), shares |-> readU32(b + 16),
              price |-> readU32(b + 20)]

bytesRead(msg) == UNION {ToSet(msg[f]) : f \in DOMAIN msg}

-----------------------------------------------------------------------------
(* The sequence number of a packet, WordBytes digits to each of its two    *)
(* halves.  A byte has ByteValues values.                                  *)
CONSTANTS WordBytes, ByteValues

ASSUME WireAssumption == WordBytes \in Nat \ {0} /\ ByteValues \in Nat \ {0, 1}

Digits(n) ==
  [i \in 1 .. 2 * WordBytes |-> (n \div ByteValues ^ (2 * WordBytes - i)) % ByteValues]
Number(s) == FoldLeft(LAMBDA n, d : n * ByteValues + d, 0, s)

highHalf(v) == SubSeq(v, 1, WordBytes)
lowHalf(v) == SubSeq(v, WordBytes + 1, 2 * WordBytes)

(* Mutant: the words are swapped but not their bytes.                      *)
encodeSeqWordsOnly(n) ==
  LET v == Digits(n)
  IN  Reverse(lowHalf(v) \o highHalf(v))

(* The bytes that buildMoldPacket stores: htonl of each half, the halves   *)
(* exchanged, and a little-endian store of the whole.                      *)
encodeSeq(n) ==
  LET v  == Digits(n)
      hi == ntohl(highHalf(v))
      lo == ntohl(lowHalf(v))
  IN  Reverse(lo \o hi)

(* parseMoldHeader's reading of them.                                      *)
decodeSeq(bytes) ==
  LET seqBe == Reverse(bytes)
      hi    == ntohl(lowHalf(seqBe))
      lo    == ntohl(highHalf(seqBe))
  IN  Number(hi \o lo)
=============================================================================
