--------------------------- MODULE SpscRingProofs ----------------------------
(***************************************************************************)
(* The ring, for every capacity and every set of values: no slot is read   *)
(* while it is written, and the ring is a bounded FIFO queue.              *)
(***************************************************************************)
EXTENDS SpscRing, SequenceTheorems, TLAPS

(* How far j is ahead of i on the ring.                                    *)
Ahead(i, j) == (j - i) % Capacity

(* Arithmetic on the positions of the ring, without the remainder.         *)
LEMMA AheadIs ==
  ASSUME NEW i \in Index, NEW j \in Index
  PROVE  Ahead(i, j) = IF j >= i THEN j - i ELSE j - i + Capacity
<1> DEFINE x == j - i
           r == x % Capacity
           q == x \div Capacity
<1>1. x \in Int /\ r \in Int /\ q \in Int /\ x = Capacity * q + r /\ 0 <= r /\ r < Capacity
  BY CapacityAssumption DEF Index
<1>2. - Capacity < x /\ x < Capacity
  BY CapacityAssumption DEF Index
<1> HIDE DEF x, r, q
<1>3. CASE q >= 1
  <2>1. Capacity * q >= Capacity
    BY <1>1, <1>3, CapacityAssumption
  <2> QED
    BY <2>1, <1>1, <1>2, CapacityAssumption
<1>4. CASE q <= -2
  <2>1. Capacity * q <= -(2 * Capacity)
    BY <1>1, <1>4, CapacityAssumption
  <2> QED
    BY <2>1, <1>1, <1>2, CapacityAssumption
<1>5. CASE q = 0
  BY <1>1, <1>5, CapacityAssumption DEF Ahead, Index, x, r
<1>6. CASE q = -1
  <2>1. r = x + Capacity
    BY <1>1, <1>6, CapacityAssumption
  <2> QED
    BY <2>1, <1>1, CapacityAssumption DEF Ahead, Index, x, r
<1> QED
  BY <1>1, <1>3, <1>4, <1>5, <1>6

(* The next position.                                                      *)
LEMMA SuccIs ==
  ASSUME NEW i \in Index
  PROVE  Succ(i) \in Index /\ Succ(i) = IF i = Capacity - 1 THEN 0 ELSE i + 1
BY CapacityAssumption DEF Succ, Index

(* A position up to j is no further ahead than j.                          *)
LEMMA UpToIs ==
  ASSUME NEW i \in Index, NEW j \in Index, NEW x \in UpTo(i, j)
  PROVE  x \in Index /\ Ahead(i, x) <= Ahead(i, j)
<1>1. PICK d \in 0 .. (j - i) % Capacity : x = (i + d) % Capacity
  BY DEF UpTo
<1>2. (j - i) % Capacity = IF j >= i THEN j - i ELSE j - i + Capacity
  BY AheadIs DEF Ahead
<1>3. x = IF i + d < Capacity THEN i + d ELSE i + d - Capacity
  BY <1>1, <1>2, CapacityAssumption DEF Index
<1>4. x \in Index
  BY <1>1, <1>2, <1>3, CapacityAssumption DEF Index
<1>5. Ahead(i, x) = IF x >= i THEN x - i ELSE x - i + Capacity
  BY <1>4, AheadIs
<1>6. Ahead(i, j) = IF j >= i THEN j - i ELSE j - i + Capacity
  BY AheadIs
<1> QED
  BY <1>1, <1>2, <1>3, <1>4, <1>5, <1>6, CapacityAssumption DEF Index

(* A later sight of j, taken on the way from i to j, is still behind j on  *)
(* the way to k.                                                           *)
LEMMA SeesHead ==
  ASSUME NEW i \in Index, NEW j \in Index, NEW k \in Index, NEW x \in Index,
         Ahead(j, k) <= Ahead(i, k), Ahead(i, x) <= Ahead(i, j)
  PROVE  Ahead(j, k) <= Ahead(x, k)
<1>1. /\ Ahead(j, k) = IF k >= j THEN k - j ELSE k - j + Capacity
      /\ Ahead(i, k) = IF k >= i THEN k - i ELSE k - i + Capacity
      /\ Ahead(i, x) = IF x >= i THEN x - i ELSE x - i + Capacity
      /\ Ahead(i, j) = IF j >= i THEN j - i ELSE j - i + Capacity
      /\ Ahead(x, k) = IF k >= x THEN k - x ELSE k - x + Capacity
  BY AheadIs
<1> QED
  BY <1>1, CapacityAssumption DEF Index

(* A later sight of k, taken on the way from t to k, is not beyond k.      *)
LEMMA SeesTail ==
  ASSUME NEW i \in Index, NEW t \in Index, NEW k \in Index, NEW x \in Index,
         Ahead(i, t) <= Ahead(i, k), Ahead(t, x) <= Ahead(t, k)
  PROVE  Ahead(i, x) <= Ahead(i, k)
<1>1. /\ Ahead(i, t) = IF t >= i THEN t - i ELSE t - i + Capacity
      /\ Ahead(i, k) = IF k >= i THEN k - i ELSE k - i + Capacity
      /\ Ahead(t, x) = IF x >= t THEN x - t ELSE x - t + Capacity
      /\ Ahead(t, k) = IF k >= t THEN k - t ELSE k - t + Capacity
      /\ Ahead(i, x) = IF x >= i THEN x - i ELSE x - i + Capacity
  BY AheadIs
<1> QED
  BY <1>1, CapacityAssumption DEF Index

(* Moving the tail k away from i by one, when there is an open slot.       *)
LEMMA TailMoves ==
  ASSUME NEW i \in Index, NEW k \in Index, Succ(k) # i
  PROVE  Ahead(i, Succ(k)) = Ahead(i, k) + 1
<1> DEFINE m == Succ(k)
<1>0. m \in Index /\ m = IF k = Capacity - 1 THEN 0 ELSE k + 1
  BY SuccIs
<1> HIDE DEF m
<1>1. /\ Ahead(i, k) = IF k >= i THEN k - i ELSE k - i + Capacity
      /\ Ahead(i, m) = IF m >= i THEN m - i ELSE m - i + Capacity
  BY <1>0, AheadIs
<1>2. m # i
  BY DEF m
<1>3. Ahead(i, m) = Ahead(i, k) + 1
  BY <1>0, <1>1, <1>2, CapacityAssumption DEF Index
<1> QED
  BY <1>3 DEF m

(* Moving the head i towards k by one, when the ring is not empty.         *)
LEMMA HeadMoves ==
  ASSUME NEW i \in Index, NEW k \in Index, i # k
  PROVE  Ahead(Succ(i), k) = Ahead(i, k) - 1
<1> DEFINE m == Succ(i)
<1>0. m \in Index /\ m = IF i = Capacity - 1 THEN 0 ELSE i + 1
  BY SuccIs
<1> HIDE DEF m
<1>1. /\ Ahead(i, k) = IF k >= i THEN k - i ELSE k - i + Capacity
      /\ Ahead(m, k) = IF k >= m THEN k - m ELSE k - m + Capacity
  BY <1>0, AheadIs
<1>3. Ahead(m, k) = Ahead(i, k) - 1
  BY <1>0, <1>1, CapacityAssumption DEF Index
<1> QED
  BY <1>3 DEF m

(* A slot that is open to a thread with an old sight s of the head i is    *)
(* open.                                                                   *)
LEMMA OpenSlot ==
  ASSUME NEW i \in Index, NEW s \in Index, NEW k \in Index,
         Ahead(i, k) <= Ahead(s, k), Succ(k) # s
  PROVE  Succ(k) # i
<1>0. Succ(k) = IF k = Capacity - 1 THEN 0 ELSE k + 1
  BY SuccIs
<1>1. /\ Ahead(i, k) = IF k >= i THEN k - i ELSE k - i + Capacity
      /\ Ahead(s, k) = IF k >= s THEN k - s ELSE k - s + Capacity
  BY AheadIs
<1> QED
  BY <1>0, <1>1, CapacityAssumption DEF Index

(* No two positions are further apart than the ring is long.               *)
LEMMA AheadType ==
  ASSUME NEW i \in Index, NEW j \in Index
  PROVE  Ahead(i, j) \in Index /\ (Ahead(i, j) = 0 <=> i = j)
<1>1. Ahead(i, j) = IF j >= i THEN j - i ELSE j - i + Capacity
  BY AheadIs
<1> QED
  BY <1>1, CapacityAssumption DEF Index

-----------------------------------------------------------------------------
(* The inductive invariant.  Going round the ring, the positions come in   *)
(* the order headSeen, head, tailSeen, tail: what each thread has seen of  *)
(* the other is old, and old is safe.  A push() past its test has an open  *)
(* slot in front of it, and a pop() past its test has a value.             *)
RingInv ==
  /\ TypeOK
  /\ Ahead(head, tail) <= Ahead(headSeen, tail)
  /\ Ahead(head, tailSeen) <= Ahead(head, tail)
  /\ pushPc # "idle" => Succ(tail) # headSeen /\ value \in Values
  /\ pushPc = "publish" => buffer[tail] = value
  /\ popPc # "idle" => head # tailSeen
  /\ popPc = "advance" => out = buffer[head]

(* The invariant keeps the two threads on different slots.                 *)
LEMMA Apart ==
  ASSUME RingInv, popPc # "idle"
  PROVE  head # tail
<1>1. Ahead(head, tailSeen) \in Index /\ Ahead(head, tailSeen) # 0
  BY AheadType DEF RingInv, TypeOK
<1>2. Ahead(head, tail) \in Index /\ (Ahead(head, tail) = 0 <=> head = tail)
  BY AheadType DEF RingInv, TypeOK
<1>3. Ahead(head, tailSeen) <= Ahead(head, tail)
  BY DEF RingInv
<1> QED
  BY <1>1, <1>2, <1>3, CapacityAssumption DEF Index

(* The invariant holds in the initial state.                               *)
LEMMA RingInit == Init => RingInv
<1> SUFFICES ASSUME Init PROVE RingInv
  OBVIOUS
<1>1. 0 \in Index
  BY CapacityAssumption DEF Index
<1>2. Ahead(0, 0) <= Ahead(0, 0)
  BY <1>1, AheadType, CapacityAssumption DEF Index
<1> QED
  BY <1>1, <1>2 DEF Init, RingInv, TypeOK

(* Every step preserves the invariant.                                     *)
LEMMA RingStep == RingInv /\ [Next]_vars => RingInv'
<1> SUFFICES ASSUME RingInv, [Next]_vars PROVE RingInv'
  OBVIOUS
<1> USE CapacityAssumption
<1>0. head \in Index /\ tail \in Index /\ headSeen \in Index /\ tailSeen \in Index
  BY DEF RingInv, TypeOK
<1>d. /\ Ahead(head, tail) \in Index /\ Ahead(headSeen, tail) \in Index
      /\ Ahead(head, tailSeen) \in Index
  BY <1>0, AheadType
<1>u. \A i, j \in Index : \A x \in UpTo(i, j) : x \in Index /\ Ahead(i, x) <= Ahead(i, j)
  BY UpToIs
<1>1. ASSUME NEW v \in Values, pushCheck(v) PROVE RingInv'
  <2>1. headSeen' \in Index /\ Ahead(headSeen, headSeen') <= Ahead(headSeen, head)
    BY <1>0, <1>u, <1>1 DEF pushCheck
  <2>2. Ahead(head, tail) <= Ahead(headSeen', tail)
    BY <2>1, <1>0, SeesHead DEF RingInv
  <2> QED
    BY <2>1, <2>2, <1>1 DEF pushCheck, RingInv, TypeOK, Ahead, Succ, consumerVars
<1>2. CASE pushWrite
  <2>1. popPc = "advance" => head # tail
    BY Apart
  <2> QED
    BY <2>1, <1>2 DEF pushWrite, RingInv, TypeOK, Ahead, Succ, consumerVars
<1>3. CASE pushPublish
  <2>1. tail' \in Index /\ tail' = Succ(tail)
    BY <1>0, SuccIs, <1>3 DEF pushPublish
  <2>2. Succ(tail) # headSeen
    BY <1>3 DEF pushPublish, RingInv
  <2>3. Succ(tail) # head
    BY <2>2, <1>0, OpenSlot DEF RingInv
  <2>4. /\ Ahead(head, tail') = Ahead(head, tail) + 1
        /\ Ahead(headSeen, tail') = Ahead(headSeen, tail) + 1
    BY <2>1, <2>2, <2>3, <1>0, TailMoves
  <2>5. Ahead(head, tail') <= Ahead(headSeen, tail') /\ Ahead(head, tailSeen) <= Ahead(head, tail')
    BY <2>4, <1>d DEF RingInv, Index
  <2> QED
    BY <2>1, <2>5, <1>3 DEF pushPublish, RingInv, TypeOK, Ahead, consumerVars
<1>4. CASE popCheck
  <2>1. tailSeen' \in Index /\ Ahead(tailSeen, tailSeen') <= Ahead(tailSeen, tail)
    BY <1>0, <1>u, <1>4 DEF popCheck
  <2>2. Ahead(head, tailSeen') <= Ahead(head, tail)
    BY <2>1, <1>0, SeesTail DEF RingInv
  <2> QED
    BY <2>1, <2>2, <1>4 DEF popCheck, RingInv, TypeOK, Ahead, Succ, producerVars
<1>5. CASE popRead
  BY <1>5 DEF popRead, RingInv, TypeOK, Ahead, Succ, producerVars
<1>6. CASE popAdvance
  <2>1. head' \in Index /\ head' = Succ(head)
    BY <1>0, SuccIs, <1>6 DEF popAdvance
  <2>2. head # tailSeen
    BY <1>6 DEF popAdvance, RingInv
  <2>3. head # tail
    BY <1>6, Apart DEF popAdvance
  <2>4. /\ Ahead(head', tail) = Ahead(head, tail) - 1
        /\ Ahead(head', tailSeen) = Ahead(head, tailSeen) - 1
    BY <2>1, <2>2, <2>3, <1>0, HeadMoves
  <2>5. Ahead(head', tail) <= Ahead(headSeen, tail) /\ Ahead(head', tailSeen) <= Ahead(head', tail)
    BY <2>4, <1>d DEF RingInv, Index
  <2> QED
    BY <2>1, <2>5, <1>6 DEF popAdvance, RingInv, TypeOK, Ahead, Succ, producerVars
<1>7. CASE UNCHANGED vars
  BY <1>7 DEF vars, producerVars, consumerVars, RingInv, TypeOK, Ahead, Succ
<1> QED
  BY <1>1, <1>2, <1>3, <1>4, <1>5, <1>6, <1>7 DEF Next

(* A ring of any capacity never has its two threads on the same slot, the  *)
(* one writing it (spsc_ring.hpp:64) and the other reading it (line 77).   *)
THEOREM RingNeverRaces == Spec => []NoRace
<1>1. RingInv => NoRace
  BY Apart DEF NoRace
<1> QED
  BY <1>1, RingInit, RingStep, PTL DEF Spec

-----------------------------------------------------------------------------
Slots == Values \cup {NoValue}

(* The values in a ring with head h, tail t and slots b, oldest first.     *)
Contents(h, t, b) == [n \in 1 .. Ahead(h, t) |-> b[(h + n - 1) % Capacity]]

(* The n-th slot from the head, without the remainder.                     *)
LEMMA SlotIs ==
  ASSUME NEW h \in Index, NEW n \in 1 .. Capacity
  PROVE  /\ (h + n - 1) % Capacity \in Index
         /\ (h + n - 1) % Capacity =
              IF h + n - 1 < Capacity THEN h + n - 1 ELSE h + n - 1 - Capacity
BY CapacityAssumption DEF Index

(* The contents are a sequence as long as the tail is ahead of the head.   *)
LEMMA ContentsType ==
  ASSUME NEW h \in Index, NEW t \in Index, NEW b \in [Index -> Slots]
  PROVE  /\ Ahead(h, t) \in Index
         /\ Contents(h, t, b) \in Seq(Slots)
         /\ Len(Contents(h, t, b)) = Ahead(h, t)
         /\ \A n \in 1 .. Ahead(h, t) : Contents(h, t, b)[n] = b[(h + n - 1) % Capacity]
<1>1. Ahead(h, t) \in Index
  BY AheadType
<1>2. \A n \in 1 .. Ahead(h, t) : b[(h + n - 1) % Capacity] \in Slots
  <2> TAKE n \in 1 .. Ahead(h, t)
  <2>1. n \in 1 .. Capacity
    BY <1>1, CapacityAssumption DEF Index
  <2>2. (h + n - 1) % Capacity \in Index
    BY <2>1, SlotIs
  <2> QED
    BY <2>2
<1>3. Ahead(h, t) \in Nat
  BY <1>1, CapacityAssumption DEF Index
<1> QED
  BY <1>1, <1>2, <1>3 DEF Contents

(* The slot at the tail is not part of the contents.                       *)
LEMMA TailSlotIsOutside ==
  ASSUME NEW h \in Index, NEW t \in Index, NEW n \in 1 .. Ahead(h, t)
  PROVE  n \in 1 .. Capacity /\ (h + n - 1) % Capacity # t
<1>1. Ahead(h, t) = IF t >= h THEN t - h ELSE t - h + Capacity
  BY AheadIs
<1>2. n \in 1 .. Capacity
  BY <1>1, CapacityAssumption DEF Index
<1>3. (h + n - 1) % Capacity =
        IF h + n - 1 < Capacity THEN h + n - 1 ELSE h + n - 1 - Capacity
  BY <1>2, SlotIs
<1> QED
  BY <1>1, <1>2, <1>3, CapacityAssumption DEF Index

(* So writing it (spsc_ring.hpp:64) changes nothing for the consumer.      *)
LEMMA WriteKeepsContents ==
  ASSUME NEW h \in Index, NEW t \in Index, NEW b \in [Index -> Slots], NEW v \in Slots
  PROVE  Contents(h, t, [b EXCEPT ![t] = v]) = Contents(h, t, b)
<1>1. ASSUME NEW n \in 1 .. Ahead(h, t)
      PROVE  [b EXCEPT ![t] = v][(h + n - 1) % Capacity] = b[(h + n - 1) % Capacity]
  <2>1. (h + n - 1) % Capacity # t /\ (h + n - 1) % Capacity \in Index
    BY TailSlotIsOutside, SlotIs
  <2> QED
    BY <2>1
<1> QED
  BY <1>1 DEF Contents

(* Publishing the tail (line 67) appends the value written there.          *)
LEMMA PublishAppends ==
  ASSUME NEW h \in Index, NEW t \in Index, NEW b \in [Index -> Slots], Succ(t) # h
  PROVE  Contents(h, Succ(t), b) = Append(Contents(h, t, b), b[t])
<1> DEFINE c == Contents(h, t, b)
           d == Contents(h, Succ(t), b)
           k == Ahead(h, t)
<1>1. Succ(t) \in Index /\ Ahead(h, Succ(t)) = k + 1
  BY SuccIs, TailMoves
<1>2. c \in Seq(Slots) /\ Len(c) = k /\ k \in Index
      /\ \A n \in 1 .. k : c[n] = b[(h + n - 1) % Capacity]
  BY ContentsType
<1>3. d \in Seq(Slots) /\ Len(d) = k + 1 /\ k + 1 \in Index
      /\ \A n \in 1 .. k + 1 : d[n] = b[(h + n - 1) % Capacity]
  BY <1>1, ContentsType
<1>4. (h + (k + 1) - 1) % Capacity = t
  <2>1. k = IF t >= h THEN t - h ELSE t - h + Capacity
    BY AheadIs
  <2>2. k + 1 \in 1 .. Capacity
    BY <1>2, CapacityAssumption DEF Index
  <2>3. (h + (k + 1) - 1) % Capacity =
          IF h + (k + 1) - 1 < Capacity THEN h + (k + 1) - 1 ELSE h + (k + 1) - 1 - Capacity
    BY <2>2, SlotIs
  <2> QED
    BY <2>1, <2>3, CapacityAssumption DEF Index
<1>5. b[t] \in Slots /\ k \in Nat
  BY <1>2, CapacityAssumption DEF Index
<1> HIDE DEF c, d, k
<1>6. Append(c, b[t]) \in Seq(Slots) /\ Len(Append(c, b[t])) = k + 1
      /\ \A n \in 1 .. k + 1 : Append(c, b[t])[n] = IF n = k + 1 THEN b[t] ELSE c[n]
  BY <1>2, <1>5
<1>7. ASSUME NEW n \in 1 .. k + 1 PROVE d[n] = Append(c, b[t])[n]
  <2>1. CASE n = k + 1
    BY <2>1, <1>3, <1>4, <1>6
  <2>2. CASE n # k + 1
    <3>1. n \in 1 .. k
      BY <2>2, <1>5
    <3> QED
      BY <3>1, <2>2, <1>2, <1>3, <1>6
  <2> QED
    BY Zenon, <2>1, <2>2
<1>8. d = Append(c, b[t])
  BY <1>3, <1>6, <1>7, SeqEqual
<1> QED
  BY <1>8 DEF c, d

(* Advancing the head (line 78) removes the oldest value.                  *)
LEMMA AdvanceTakesHead ==
  ASSUME NEW h \in Index, NEW t \in Index, NEW b \in [Index -> Slots], h # t
  PROVE  /\ Contents(h, t, b) # <<>>
         /\ Head(Contents(h, t, b)) = b[h]
         /\ Contents(Succ(h), t, b) = Tail(Contents(h, t, b))
<1> DEFINE c == Contents(h, t, b)
           d == Contents(Succ(h), t, b)
           k == Ahead(h, t)
<1>1. Succ(h) \in Index /\ Ahead(Succ(h), t) = k - 1
  BY SuccIs, HeadMoves
<1>2. c \in Seq(Slots) /\ Len(c) = k /\ k \in Index /\ k # 0
      /\ \A n \in 1 .. k : c[n] = b[(h + n - 1) % Capacity]
  BY ContentsType, AheadType
<1>3. d \in Seq(Slots) /\ Len(d) = k - 1
      /\ \A n \in 1 .. k - 1 : d[n] = b[(Succ(h) + n - 1) % Capacity]
  BY <1>1, ContentsType
<1>4. k \in Nat \ {0} /\ k < Capacity
  BY <1>2, CapacityAssumption DEF Index
<1>5. (h + 1 - 1) % Capacity = h
  BY CapacityAssumption DEF Index
<1>6. \A n \in 1 .. k - 1 : (Succ(h) + n - 1) % Capacity = (h + (n + 1) - 1) % Capacity
  <2> TAKE n \in 1 .. k - 1
  <2>1. n \in 1 .. Capacity /\ n + 1 \in 1 .. Capacity
    BY <1>4, CapacityAssumption
  <2>2. (h + (n + 1) - 1) % Capacity =
          IF h + (n + 1) - 1 < Capacity THEN h + (n + 1) - 1 ELSE h + (n + 1) - 1 - Capacity
    BY <2>1, SlotIs
  <2>3. (Succ(h) + n - 1) % Capacity =
          IF Succ(h) + n - 1 < Capacity THEN Succ(h) + n - 1 ELSE Succ(h) + n - 1 - Capacity
    BY <2>1, <1>1, SlotIs
  <2>4. Succ(h) = IF h = Capacity - 1 THEN 0 ELSE h + 1
    BY SuccIs
  <2> QED
    BY <2>1, <2>2, <2>3, <2>4, <1>4, CapacityAssumption DEF Index
<1> HIDE DEF c, d, k
<1>7. c # <<>> /\ Head(c) = c[1] /\ c[1] = b[h]
  BY <1>2, <1>4, <1>5
<1>8. Tail(c) \in Seq(Slots) /\ Len(Tail(c)) = k - 1
      /\ \A n \in 1 .. k - 1 : Tail(c)[n] = c[n + 1]
  BY <1>2, <1>4, <1>7, HeadTailProperties
<1>9. ASSUME NEW n \in 1 .. k - 1 PROVE d[n] = Tail(c)[n]
  <2>1. n + 1 \in 1 .. k
    BY <1>4
  <2> QED
    BY <2>1, <1>2, <1>3, <1>6, <1>8
<1>10. d = Tail(c)
  BY <1>3, <1>8, <1>9, SeqEqual
<1> QED
  BY <1>7, <1>10 DEF c, d

(* The queue of the refinement is what is in the ring.                     *)
LEMMA QueueIsContents ==
  [n \in 1 .. Size |-> buffer[(head + n - 1) % Capacity]] = Contents(head, tail, buffer)
BY DEF Contents, Size, Ahead

(* The ring starts empty.                                                  *)
LEMMA FifoStarts == Init => Fifo!FifoInit
<1> SUFFICES ASSUME Init PROVE Fifo!FifoInit
  OBVIOUS
<1>1. RingInv
  BY RingInit
<1>2. Contents(head, tail, buffer) \in Seq(Slots) /\ Len(Contents(head, tail, buffer)) = 0
  BY <1>1, ContentsType, AheadType DEF RingInv, TypeOK, Init, Slots
<1>3. Contents(head, tail, buffer) = <<>>
  BY <1>2, EmptySeq
<1> QED
  BY Zenon, <1>3, QueueIsContents DEF Fifo!FifoInit, Init

(* The store of the tail is the push, the store of the head the pop, and   *)
(* every other step leaves the queue as it is.                             *)
LEMMA FifoSteps == RingInv /\ [Next]_vars => [Fifo!FifoNext]_(Fifo!fifoVars)
<1> SUFFICES ASSUME RingInv, [Next]_vars PROVE [Fifo!FifoNext]_(Fifo!fifoVars)
  OBVIOUS
<1> DEFINE c == Contents(head, tail, buffer)
<1>q. [n \in 1 .. Size |-> buffer[(head + n - 1) % Capacity]] = c
  BY QueueIsContents
<1>r. [n \in 1 .. Size' |-> buffer'[(head' + n - 1) % Capacity]] = Contents(head', tail', buffer')
  BY DEF Contents, Size, Ahead
<1>t. /\ head \in Index /\ tail \in Index /\ headSeen \in Index
      /\ buffer \in [Index -> Slots] /\ value \in Slots
  BY DEF RingInv, TypeOK, Slots
<1>u. ASSUME Contents(head', tail', buffer') = c, returned' = returned
      PROVE  UNCHANGED Fifo!fifoVars
  BY Zenon, <1>u, <1>q, <1>r DEF Fifo!fifoVars
<1>1. ASSUME NEW v \in Values, pushCheck(v) PROVE UNCHANGED Fifo!fifoVars
  BY <1>1, <1>u DEF pushCheck, consumerVars
<1>2. CASE pushWrite
  BY Zenon, <1>2, <1>t, <1>u, WriteKeepsContents DEF pushWrite, consumerVars
<1>3. CASE pushPublish
  <2>1. Succ(tail) # headSeen /\ value \in Values /\ buffer[tail] = value
    BY <1>3 DEF pushPublish, RingInv
  <2>2. Succ(tail) # head
    BY <2>1, <1>t, OpenSlot DEF RingInv
  <2>3. Contents(head', tail', buffer') = Append(c, value)
    BY <2>1, <2>2, <1>3, <1>t, PublishAppends DEF pushPublish, consumerVars
  <2>4. Len(c) < Capacity - 1
    <3>1. Len(c) = Ahead(head, tail) /\ Ahead(head, tail) \in Index
      BY <1>t, ContentsType
    <3>2. Succ(tail) \in Index /\ Ahead(head, Succ(tail)) = Ahead(head, tail) + 1
      BY <2>2, <1>t, TailMoves, SuccIs
    <3>3. Ahead(head, Succ(tail)) \in Index
      BY <3>2, <1>t, AheadType
    <3> QED
      BY <3>1, <3>2, <3>3, CapacityAssumption DEF Index
  <2>5. returned' = returned
    BY <1>3 DEF pushPublish, consumerVars
  <2>6. PICK v \in Values : v = value
    BY <2>1
  <2>7. Fifo!Push(v)
    BY Zenon, <2>3, <2>4, <2>5, <2>6, <1>q, <1>r DEF Fifo!Push
  <2> QED
    BY <2>7 DEF Fifo!FifoNext
<1>4. CASE popCheck
  BY <1>4, <1>u DEF popCheck, producerVars
<1>5. CASE popRead
  BY <1>5, <1>u DEF popRead, producerVars
<1>6. CASE popAdvance
  <2>1. head # tail /\ out = buffer[head]
    BY <1>6, Apart DEF popAdvance, RingInv
  <2>2. c # <<>> /\ Head(c) = buffer[head] /\ Contents(Succ(head), tail, buffer) = Tail(c)
    BY <2>1, <1>t, AdvanceTakesHead
  <2>3. Contents(head', tail', buffer') = Tail(c) /\ returned' = Head(c)
    BY <2>1, <2>2, <1>6 DEF popAdvance, producerVars
  <2>4. Fifo!Pop
    BY Zenon, <2>2, <2>3, <1>q, <1>r DEF Fifo!Pop
  <2> QED
    BY <2>4 DEF Fifo!FifoNext
<1>7. CASE UNCHANGED vars
  BY <1>7, <1>u DEF vars, producerVars, consumerVars
<1> QED
  BY <1>1, <1>2, <1>3, <1>4, <1>5, <1>6, <1>7 DEF Next

(* A ring of any capacity is a queue of at most Capacity - 1 values: what  *)
(* the network thread pushes, the matching thread pops once and in order,  *)
(* however late each sees the index the other stores.                      *)
THEOREM RingIsFifo == Spec => ImplementsFifo
BY FifoStarts, RingInit, RingStep, FifoSteps, PTL DEF Spec, ImplementsFifo, Fifo!FifoSpec

=============================================================================
