------------------------- MODULE PriceTimeBookProofs -------------------------
(***************************************************************************)
(* The abstract book never holds a bid that meets an ask, holds an order   *)
(* once, and lets none overtake another.                                   *)
(***************************************************************************)
EXTENDS PriceTimeBook, TLAPS

Entries == [ref : Refs, shares : Nat]

Arrivals == [book : Books, side : BidAsk, ref : Refs, shares : Nat, price : Prices]

(* The types, which the steps below need to know what a step leaves alone. *)
BookTyped ==
  /\ queues \in [Books -> [BidAsk -> [Prices -> Seq(Entries)]]]
  /\ arriving \in Arrivals \cup {NoOrder}

BookInv == BookTyped /\ NeverCrossed

(* NeverCrossed is not affected by a step that fills no empty queue.       *)
LEMMA NoNewQueue ==
  ASSUME NeverCrossed,
         \A b \in Books, s \in BidAsk, p \in Prices :
           queues[b][s][p] = <<>> => queues'[b][s][p] = <<>>
  PROVE  NeverCrossed'
BY DEF NeverCrossed, BidAsk

(* Writing one queue leaves the others.                                    *)
LEMMA SetQueue ==
  ASSUME NEW Q \in [Books -> [BidAsk -> [Prices -> Seq(Entries)]]],
         NEW b \in Books, NEW s \in BidAsk, NEW p \in Prices,
         NEW q \in Seq(Entries)
  PROVE  LET R == [Q EXCEPT ![b][s][p] = q]
         IN  /\ R \in [Books -> [BidAsk -> [Prices -> Seq(Entries)]]]
             /\ R[b][s][p] = q
             /\ \A c \in Books, t \in BidAsk, r \in Prices :
                  <<c, t, r>> # <<b, s, p>> => R[c][t][r] = Q[c][t][r]
OBVIOUS

(* The queue without its n-th order is a queue.                            *)
LEMMA WithoutType ==
  ASSUME NEW q \in Seq(Entries), NEW n \in DOMAIN q
  PROVE  Without(q, n) \in Seq(Entries)
<1>1. n \in 1 .. Len(q)
  OBVIOUS
<1>2. SubSeq(q, 1, n - 1) \in Seq(Entries) /\ SubSeq(q, n + 1, Len(q)) \in Seq(Entries)
  BY <1>1
<1> QED
  BY <1>2 DEF Without

(* An order of a queue may be reduced.                                     *)
LEMMA ReduceEntry ==
  ASSUME NEW q \in Seq(Entries), NEW n \in DOMAIN q, NEW d \in Nat, d <= q[n].shares
  PROVE  /\ [q EXCEPT ![n].shares = q[n].shares - d] \in Seq(Entries)
         /\ DOMAIN [q EXCEPT ![n].shares = q[n].shares - d] = DOMAIN q
         /\ \A m \in DOMAIN q : [q EXCEPT ![n].shares = q[n].shares - d][m].ref = q[m].ref
<1> DEFINE less == [q[n] EXCEPT !.shares = q[n].shares - d]
<1>1. q[n] \in Entries /\ n \in 1 .. Len(q)
  OBVIOUS
<1>2. less \in Entries /\ less.ref = q[n].ref
  BY <1>1 DEF Entries
<1> HIDE DEF less
<1>3. [q EXCEPT ![n] = less] \in Seq(Entries)
  BY <1>1, <1>2
<1>4. /\ DOMAIN [q EXCEPT ![n] = less] = DOMAIN q
      /\ \A m \in DOMAIN q : [q EXCEPT ![n] = less][m].ref = q[m].ref
  BY <1>2
<1> QED
  BY <1>3, <1>4 DEF less

(* A step that writes one non-empty queue keeps the invariant.             *)
LEMMA WriteQueue ==
  ASSUME BookInv,
         NEW b \in Books, NEW s \in BidAsk, NEW p \in Prices,
         NEW q \in Seq(Entries),
         queues[b][s][p] # <<>>,
         queues' = [queues EXCEPT ![b][s][p] = q],
         arriving' \in Arrivals \cup {NoOrder}
  PROVE  BookInv'
<1>1. BookTyped'
  BY SetQueue DEF BookInv, BookTyped
<1>2. \A c \in Books, t \in BidAsk, r \in Prices :
        queues[c][t][r] = <<>> => queues'[c][t][r] = <<>>
  <2> SUFFICES ASSUME NEW c \in Books, NEW t \in BidAsk, NEW r \in Prices,
                      queues[c][t][r] = <<>>
               PROVE  queues'[c][t][r] = <<>>
    OBVIOUS
  <2>1. <<c, t, r>> # <<b, s, p>>
    OBVIOUS
  <2> QED
    BY <2>1, SetQueue DEF BookInv, BookTyped
<1> QED
  BY <1>1, <1>2, NoNewQueue DEF BookInv

(* A trade takes from a queue that is not empty.                           *)
LEMMA TradeKeeps ==
  ASSUME BookInv, NEW p \in Prices, Trade(p)
  PROVE  BookInv'
<1> DEFINE b == arriving.book
           o == OtherSide(arriving.side)
           Q == queues[b][o][p]
           first == Head(Q)
           traded == IF first.shares < arriving.shares
                     THEN first.shares ELSE arriving.shares
           new == IF traded = first.shares THEN Tail(Q)
                  ELSE [Q EXCEPT ![1].shares = first.shares - traded]
<1>1. arriving \in Arrivals /\ b \in Books /\ o \in BidAsk
  BY Zenon DEF Trade, BookInv, BookTyped, Arrivals, OtherSide, BidAsk
<1>2. Q \in Seq(Entries) /\ Q # <<>>
  <2>1. Q # <<>>
    BY Zenon DEF Trade, Marketable
  <2>2. queues \in [Books -> [BidAsk -> [Prices -> Seq(Entries)]]]
    BY DEF BookInv, BookTyped
  <2> QED
    BY <2>1, <2>2, <1>1
<1>3. first \in Entries /\ first = Q[1]
  BY <1>2
<1>4. traded \in Nat /\ traded <= first.shares /\ traded <= arriving.shares
  <2>1. first.shares \in Nat /\ arriving.shares \in Nat
    BY <1>1, <1>3, Zenon DEF Entries, Arrivals
  <2> HIDE DEF first
  <2> QED
    BY <2>1
<1>5. new \in Seq(Entries)
  <2>1. CASE traded = first.shares
    BY <2>1, <1>2
  <2>2. CASE traded # first.shares
    <3>1. 1 \in DOMAIN Q
      BY <1>2
    <3>2. traded <= Q[1].shares
      BY <1>3, <1>4
    <3> HIDE DEF traded, Q, first
    <3>3. new = [Q EXCEPT ![1].shares = Q[1].shares - traded]
      BY <1>3, <2>2
    <3> QED
      BY <3>1, <3>2, <3>3, <1>2, <1>4, ReduceEntry
  <2> QED
    BY Zenon, <2>1, <2>2
<1>6. queues' = [queues EXCEPT ![b][o][p] = new]
  BY Zenon DEF Trade
<1>7. arriving' \in Arrivals
  <2>1. arriving' = [arriving EXCEPT !.shares = arriving.shares - traded]
    BY Zenon DEF Trade
  <2> HIDE DEF traded
  <2> QED
    BY <2>1, <1>1, <1>4 DEF Arrivals
<1> HIDE DEF new, o, b, Q
<1> QED
  BY Zenon, <1>1, <1>2, <1>5, <1>6, <1>7, WriteQueue DEF Q

(* What is left of an order joins its queue only when no opposite order is *)
(* within its limit.                                                       *)
LEMMA SettleKeeps ==
  ASSUME Unsigned, BookInv, Settle
  PROVE  BookInv'
<1>1. CASE arriving.shares = 0
  BY <1>1 DEF Settle, BookInv, BookTyped, NeverCrossed
<1>2. CASE arriving.shares # 0
  <2> DEFINE b == arriving.book
             s == arriving.side
             p == arriving.price
             new == Append(queues[b][s][p], [ref |-> arriving.ref, shares |-> arriving.shares])
  <2>1. /\ b \in Books /\ s \in BidAsk /\ p \in Prices
        /\ [ref |-> arriving.ref, shares |-> arriving.shares] \in Entries
    BY DEF Settle, BookInv, BookTyped, Arrivals, Entries
  <2>2. new \in Seq(Entries)
    BY <2>1 DEF BookInv, BookTyped
  <2>3. queues' = [queues EXCEPT ![b][s][p] = new] /\ arriving' = NoOrder
    BY <1>2 DEF Settle
  <2>4. Marketable = {}
    BY <1>2 DEF Settle
  <2> HIDE DEF new
  <2>5. BookTyped'
    BY <2>1, <2>2, <2>3, SetQueue DEF BookInv, BookTyped
  <2>6. NeverCrossed'
    <3> SUFFICES ASSUME NEW c \in Books, NEW x \in Prices, NEW y \in Prices,
                        queues'[c]["B"][x] # <<>>, queues'[c]["S"][y] # <<>>
                 PROVE  x < y
      BY DEF NeverCrossed
    <3>1. x \in Nat /\ y \in Nat /\ p \in Nat
      BY Zenon, <2>1 DEF Unsigned
    <3>2. /\ <<c, "B", x>> # <<b, s, p>> => queues[c]["B"][x] # <<>>
          /\ <<c, "S", y>> # <<b, s, p>> => queues[c]["S"][y] # <<>>
      BY <2>1, <2>2, <2>3, SetQueue, SMTT(60) DEF BookInv, BookTyped, BidAsk
    <3>3. CASE <<c, "B", x>> = <<b, s, p>>
      <4>1. queues[c]["S"][y] # <<>>
        BY <3>2, <3>3
      <4> QED
        BY <4>1, <3>1, <3>3, <2>4 DEF Marketable, OtherSide, Acceptable
    <3>4. CASE <<c, "S", y>> = <<b, s, p>>
      <4>1. queues[c]["B"][x] # <<>>
        BY <3>2, <3>4
      <4> QED
        BY <4>1, <3>1, <3>4, <2>4 DEF Marketable, OtherSide, Acceptable
    <3>5. CASE <<c, "B", x>> # <<b, s, p>> /\ <<c, "S", y>> # <<b, s, p>>
      BY <3>2, <3>5 DEF BookInv, NeverCrossed
    <3> QED
      BY <3>3, <3>4, <3>5
  <2> QED
    BY <2>5, <2>6 DEF BookInv
<1> QED
  BY <1>1, <1>2

(* An order that leaves a queue leaves one that is not empty.              *)
LEMMA TakeOutKeeps ==
  ASSUME BookInv, NEW place \in Places, NEW n \in DOMAIN QueueAt(place),
         TakeOut(place, n), arriving' \in Arrivals \cup {NoOrder}
  PROVE  BookInv'
<1>1. place[1] \in Books /\ place[2] \in BidAsk /\ place[3] \in Prices
  BY DEF Places
<1>2. QueueAt(place) \in Seq(Entries) /\ QueueAt(place) # <<>>
  BY <1>1 DEF BookInv, BookTyped, QueueAt
<1>3. Without(QueueAt(place), n) \in Seq(Entries)
  BY <1>2, WithoutType
<1>4. queues' = [queues EXCEPT ![place[1]][place[2]][place[3]] = Without(QueueAt(place), n)]
  BY DEF TakeOut, QueueAt
<1> QED
  BY Zenon, <1>1, <1>2, <1>3, <1>4, WriteQueue DEF QueueAt

(* A reduction changes an order of a queue that is not empty.              *)
LEMMA ReduceKeeps ==
  ASSUME BookInv, NEW place \in Places, NEW n \in DOMAIN QueueAt(place),
         NEW shares \in Nat, Reduce(place, n, shares)
  PROVE  BookInv'
<1> DEFINE q == QueueAt(place)
           less == [q EXCEPT ![n].shares = q[n].shares - shares]
<1>1. place[1] \in Books /\ place[2] \in BidAsk /\ place[3] \in Prices
  BY DEF Places
<1>2. q \in Seq(Entries) /\ q # <<>> /\ q[n] \in Entries
  BY <1>1 DEF BookInv, BookTyped, QueueAt
<1>3. shares <= q[n].shares
  <2>1. shares < q[n].shares
    BY Zenon DEF Reduce
  <2>2. q[n].shares \in Nat
    BY <1>2 DEF Entries
  <2> HIDE DEF q
  <2> QED
    BY <2>1, <2>2
<1>4. less \in Seq(Entries)
  BY <1>2, <1>3, ReduceEntry
<1>5. queues' = [queues EXCEPT ![place[1]][place[2]][place[3]] = less]
  BY Zenon DEF Reduce, QueueAt
<1>6. arriving' \in Arrivals \cup {NoOrder}
  BY Zenon DEF Reduce, BookInv, BookTyped
<1> QED
  BY Zenon, <1>1, <1>2, <1>4, <1>5, <1>6, WriteQueue DEF QueueAt

(* An order enters with a record of its own.                               *)
LEMMA EnterType ==
  ASSUME Unsigned, NEW b \in Books, NEW s \in BidAsk, NEW ref \in Refs,
         NEW shares \in Quantities, NEW price \in Prices,
         Enter(b, s, ref, shares, price)
  PROVE  arriving' \in Arrivals
BY DEF Unsigned, Enter, Arrivals

(* Every step keeps the invariant.                                         *)
LEMMA BookStep ==
  ASSUME Unsigned
  PROVE  BookInv /\ [PTBNext]_ptbVars => BookInv'
<1> SUFFICES ASSUME BookInv, [PTBNext]_ptbVars
             PROVE  BookInv'
  OBVIOUS
<1>1. ASSUME NEW b \in Books, NEW s \in BidAsk, NEW ref \in Refs,
             NEW shares \in Quantities, NEW price \in Prices,
             Arrive(b, s, ref, shares, price)
      PROVE  BookInv'
  BY <1>1, EnterType DEF Arrive, BookInv, BookTyped, NeverCrossed
<1>2. ASSUME NEW p \in Prices, Trade(p) PROVE BookInv'
  BY <1>2, TradeKeeps
<1>3. CASE Settle
  BY <1>3, SettleKeeps
<1>4. ASSUME NEW place \in Places, NEW n \in DOMAIN QueueAt(place), Withdraw(place, n)
      PROVE  BookInv'
  BY <1>4, TakeOutKeeps DEF Withdraw, BookInv, BookTyped
<1>5. ASSUME NEW place \in Places, NEW n \in DOMAIN QueueAt(place),
             NEW shares \in Quantities, Reduce(place, n, shares)
      PROVE  BookInv'
  BY <1>5, ReduceKeeps DEF Unsigned
<1>6. ASSUME NEW place \in Places, NEW n \in DOMAIN QueueAt(place), NEW ref \in Refs,
             NEW shares \in Quantities, NEW price \in Prices,
             Replace(place, n, ref, shares, price)
      PROVE  BookInv'
  <2>1. place[1] \in Books /\ place[2] \in BidAsk
    BY DEF Places
  <2>2. arriving' \in Arrivals
    BY <1>6, <2>1, EnterType DEF Replace
  <2> QED
    BY <1>6, <2>2, TakeOutKeeps DEF Replace
<1>7. CASE Halt
  BY <1>7 DEF Halt, BookInv, BookTyped, NeverCrossed
<1>8. CASE UNCHANGED ptbVars
  BY <1>8 DEF ptbVars, BookInv, BookTyped, NeverCrossed
<1> QED
  BY <1>1, <1>2, <1>3, <1>4, <1>5, <1>6, <1>7, <1>8 DEF PTBNext, Halted

LEMMA BookInit == PTBInit => BookInv
<1> SUFFICES ASSUME PTBInit PROVE BookInv
  OBVIOUS
<1>1. \A b \in Books, s \in BidAsk, p \in Prices : queues[b][s][p] = <<>>
  BY DEF PTBInit
<1>2. <<>> \in Seq(Entries)
  OBVIOUS
<1>3. [p \in Prices |-> <<>>] \in [Prices -> Seq(Entries)]
  BY <1>2
<1>4. BookTyped
  BY <1>3 DEF PTBInit, BookTyped
<1>5. NeverCrossed
  BY <1>1 DEF NeverCrossed, BidAsk
<1> QED
  BY <1>4, <1>5 DEF BookInv

(* No resting bid meets a resting ask, for every set of stocks, references *)
(* and prices.  The matching engine implements this book, so this is what  *)
(* the matching loops of OrderBook are for.                                *)
THEOREM BookNeverCrossed ==
  ASSUME Unsigned
  PROVE  PTBSpec => []NeverCrossed
<1>1. BookInv => NeverCrossed
  BY DEF BookInv
<1> QED
  BY <1>1, BookInit, BookStep, PTL DEF PTBSpec

-----------------------------------------------------------------------------
(* Time priority.  The orders of r are orders of q, in the order they have *)
(* there; f says which.                                                    *)
KeptBy(q, r, f) ==
  /\ f \in [DOMAIN r -> DOMAIN q]
  /\ \A m, n \in DOMAIN r : m < n => f[m] < f[n]
  /\ \A n \in DOMAIN r : q[f[n]].ref = r[n].ref

Kept(q, r) == \E f \in [DOMAIN r -> DOMAIN q] : KeptBy(q, r, f)

(* No two orders of a queue change places in a step.                       *)
NoSwap ==
  \A place \in Places, ref1, ref2 \in Refs :
    Before(place, ref1, ref2) => ~Before(place, ref2, ref1)'

LEMMA KeptSame ==
  ASSUME NEW q \in Seq(Entries), NEW r \in Seq(Entries), DOMAIN r = DOMAIN q,
         \A n \in DOMAIN q : r[n].ref = q[n].ref
  PROVE  Kept(q, r)
<1> DEFINE f == [n \in DOMAIN r |-> n]
<1>1. f \in [DOMAIN r -> DOMAIN q] /\ KeptBy(q, r, f)
  BY DEF KeptBy
<1> QED
  BY <1>1 DEF Kept

LEMMA KeptTail ==
  ASSUME NEW q \in Seq(Entries), q # <<>>
  PROVE  Kept(q, Tail(q))
<1> DEFINE r == Tail(q)
           f == [n \in DOMAIN r |-> n + 1]
<1>1. /\ DOMAIN r = 1 .. Len(q) - 1 /\ DOMAIN q = 1 .. Len(q) /\ Len(q) \in Nat
      /\ \A n \in DOMAIN r : r[n] = q[n + 1]
  OBVIOUS
<1> HIDE DEF r
<1>2. f \in [DOMAIN r -> DOMAIN q] /\ KeptBy(q, r, f)
  BY <1>1 DEF KeptBy
<1> QED
  BY <1>2 DEF Kept, r

(* The queue without its n-th order.                                       *)
LEMMA WithoutElements ==
  ASSUME NEW q \in Seq(Entries), NEW n \in DOMAIN q
  PROVE  /\ DOMAIN Without(q, n) = 1 .. Len(q) - 1
         /\ \A m \in 1 .. Len(q) - 1 :
              Without(q, n)[m] = IF m < n THEN q[m] ELSE q[m + 1]
<1> DEFINE u == SubSeq(q, 1, n - 1)
           v == SubSeq(q, n + 1, Len(q))
<1>1. n \in 1 .. Len(q) /\ Len(q) \in Nat
  OBVIOUS
<1>2. /\ u \in Seq(Entries) /\ v \in Seq(Entries) /\ Len(u) = n - 1 /\ Len(v) = Len(q) - n
      /\ \A m \in 1 .. n - 1 : u[m] = q[m]
      /\ \A m \in 1 .. Len(q) - n : v[m] = q[m + n]
  BY <1>1
<1> HIDE DEF u, v
<1>3. /\ DOMAIN (u \o v) = 1 .. Len(q) - 1
      /\ \A m \in 1 .. Len(q) - 1 : (u \o v)[m] = IF m <= n - 1 THEN u[m] ELSE v[m - (n - 1)]
  BY <1>1, <1>2, SMTT(60)
<1>4. Without(q, n) = u \o v
  BY DEF Without, u, v
<1>5. ASSUME NEW m \in 1 .. Len(q) - 1
      PROVE  (u \o v)[m] = IF m < n THEN q[m] ELSE q[m + 1]
  <2>1. CASE m < n
    <3>1. m \in 1 .. n - 1 /\ m <= n - 1
      BY <1>1, <2>1
    <3> QED
      BY <1>2, <1>3, <2>1, <3>1
  <2>2. CASE ~(m < n)
    <3>1. m - (n - 1) \in 1 .. Len(q) - n /\ (m - (n - 1)) + n = m + 1 /\ ~(m <= n - 1)
      BY <1>1, <2>2
    <3> QED
      BY Zenon, <1>2, <1>3, <2>2, <3>1
  <2> QED
    BY Zenon, <2>1, <2>2
<1> QED
  BY <1>3, <1>4, <1>5

LEMMA KeptWithout ==
  ASSUME NEW q \in Seq(Entries), NEW k \in DOMAIN q
  PROVE  \E f \in [DOMAIN Without(q, k) -> DOMAIN q] :
           KeptBy(q, Without(q, k), f) /\ \A n \in DOMAIN Without(q, k) : f[n] # k
<1> DEFINE r == Without(q, k)
           f == [n \in DOMAIN r |-> IF n < k THEN n ELSE n + 1]
<1>1. /\ DOMAIN r = 1 .. Len(q) - 1 /\ DOMAIN q = 1 .. Len(q) /\ Len(q) \in Nat
      /\ \A n \in 1 .. Len(q) - 1 : r[n] = IF n < k THEN q[n] ELSE q[n + 1]
  BY WithoutElements
<1> HIDE DEF r
<1>2. /\ f \in [DOMAIN r -> DOMAIN q] /\ KeptBy(q, r, f)
      /\ \A n \in DOMAIN r : f[n] # k
  BY <1>1 DEF KeptBy
<1> QED
  BY <1>2 DEF r

LEMMA QueueTypes ==
  ASSUME BookInv, NEW x \in Places
  PROVE  /\ x[1] \in Books /\ x[2] \in BidAsk /\ x[3] \in Prices /\ x = <<x[1], x[2], x[3]>>
         /\ QueueAt(x) \in Seq(Entries) /\ DOMAIN QueueAt(x) \subseteq Nat
<1>1. x[1] \in Books /\ x[2] \in BidAsk /\ x[3] \in Prices /\ x = <<x[1], x[2], x[3]>>
  BY DEF Places
<1>2. QueueAt(x) \in Seq(Entries)
  BY <1>1 DEF BookInv, BookTyped, QueueAt
<1> QED
  BY <1>1, <1>2

LEMMA NextQueueTypes ==
  ASSUME BookInv', NEW x \in Places
  PROVE  QueueAt(x)' \in Seq(Entries) /\ DOMAIN QueueAt(x)' \subseteq Nat
<1>1. x[1] \in Books /\ x[2] \in BidAsk /\ x[3] \in Prices
  BY DEF Places
<1>2. queues' \in [Books -> [BidAsk -> [Prices -> Seq(Entries)]]]
  BY DEF BookInv, BookTyped
<1>3. QueueAt(x)' = queues'[x[1]][x[2]][x[3]]
  BY DEF QueueAt
<1>4. QueueAt(x)' \in Seq(Entries)
  BY <1>1, <1>2, <1>3
<1> QED
  BY <1>4

(* Only the queue that is written changes.                                 *)
LEMMA OneQueue ==
  ASSUME BookInv, NEW x \in Places, NEW q \in Seq(Entries),
         queues' = [queues EXCEPT ![x[1]][x[2]][x[3]] = q]
  PROVE  /\ QueueAt(x)' = q
         /\ \A y \in Places : y # x => QueueAt(y)' = QueueAt(y)
<1>1. queues \in [Books -> [BidAsk -> [Prices -> Seq(Entries)]]]
  BY DEF BookInv, BookTyped
<1>2. QueueAt(x)' = q
  BY <1>1, QueueTypes, SetQueue, SMTT(60) DEF QueueAt
<1>3. ASSUME NEW y \in Places, y # x PROVE QueueAt(y)' = QueueAt(y)
  <2>1. <<y[1], y[2], y[3]>> # <<x[1], x[2], x[3]>>
    BY Zenon, <1>3, QueueTypes
  <2>2. /\ y[1] \in Books /\ y[2] \in BidAsk /\ y[3] \in Prices
        /\ x[1] \in Books /\ x[2] \in BidAsk /\ x[3] \in Prices
    BY QueueTypes
  <2> QED
    BY <1>1, <2>1, <2>2, SetQueue, SMTT(60) DEF QueueAt
<1> QED
  BY <1>2, <1>3

(* A step that only takes orders out of queues.                            *)
LEMMA Shrinks ==
  ASSUME BookInv, BookInv', RestsOnce,
         \A x \in Places : Kept(QueueAt(x), QueueAt(x)'),
         arriving' # NoOrder => ~Resting(arriving.ref)'
  PROVE  RestsOnce' /\ NoSwap
<1>1. ASSUME NEW x \in Places, NEW y \in Places,
             NEW m \in DOMAIN QueueAt(x)', NEW n \in DOMAIN QueueAt(y)',
             QueueAt(x)'[m].ref = QueueAt(y)'[n].ref
      PROVE  x = y /\ m = n
  <2>1. PICK f \in [DOMAIN QueueAt(x)' -> DOMAIN QueueAt(x)] : KeptBy(QueueAt(x), QueueAt(x)', f)
    BY DEF Kept
  <2>2. PICK g \in [DOMAIN QueueAt(y)' -> DOMAIN QueueAt(y)] : KeptBy(QueueAt(y), QueueAt(y)', g)
    BY DEF Kept
  <2>3. x = y /\ f[m] = g[n]
    BY <1>1, <2>1, <2>2 DEF RestsOnce, KeptBy
  <2>4. QueueAt(y)[f[n]].ref = QueueAt(y)'[n].ref /\ f[n] \in DOMAIN QueueAt(y)
    BY <2>1, <2>3 DEF KeptBy
  <2>5. f[m] = f[n]
    BY <2>2, <2>3, <2>4 DEF RestsOnce, KeptBy
  <2>6. m \in Nat /\ n \in Nat /\ f[m] \in Nat
    <3>1. DOMAIN QueueAt(x)' \subseteq Nat /\ DOMAIN QueueAt(x) \subseteq Nat
      BY QueueTypes, NextQueueTypes
    <3> QED
      BY <2>1, <2>3, <3>1
  <2> QED
    BY <2>1, <2>3, <2>5, <2>6 DEF KeptBy
<1>2. RestsOnce'
  BY <1>1 DEF RestsOnce
<1>3. ASSUME NEW x \in Places, NEW ref1 \in Refs, NEW ref2 \in Refs,
             Before(x, ref1, ref2), Before(x, ref2, ref1)'
      PROVE  FALSE
  <2>1. PICK f \in [DOMAIN QueueAt(x)' -> DOMAIN QueueAt(x)] : KeptBy(QueueAt(x), QueueAt(x)', f)
    BY DEF Kept
  <2>2. PICK m \in DOMAIN QueueAt(x), n \in DOMAIN QueueAt(x) :
          m < n /\ QueueAt(x)[m].ref = ref1 /\ QueueAt(x)[n].ref = ref2
    BY <1>3 DEF Before, RestsAt
  <2>3. PICK k \in DOMAIN QueueAt(x)', l \in DOMAIN QueueAt(x)' :
          k < l /\ QueueAt(x)'[k].ref = ref2 /\ QueueAt(x)'[l].ref = ref1
    BY <1>3 DEF Before, RestsAt
  <2>4. f[k] < f[l] /\ f[k] = n /\ f[l] = m
    BY <2>1, <2>2, <2>3 DEF KeptBy, RestsOnce
  <2>5. m \in Nat /\ n \in Nat
    BY QueueTypes
  <2> QED
    BY <2>2, <2>4, <2>5
<1> QED
  BY <1>2, <1>3 DEF NoSwap

(* A step that changes one queue, to one with some of its orders.          *)
LEMMA OneQueueShrinks ==
  ASSUME BookInv, BookInv', RestsOnce, NEW x \in Places, NEW q \in Seq(Entries),
         queues' = [queues EXCEPT ![x[1]][x[2]][x[3]] = q], Kept(QueueAt(x), q),
         arriving' # NoOrder => ~Resting(arriving.ref)'
  PROVE  RestsOnce' /\ NoSwap
<1>1. ASSUME NEW y \in Places PROVE Kept(QueueAt(y), QueueAt(y)')
  <2>1. CASE y = x
    BY Zenon, <2>1, OneQueue
  <2>2. CASE y # x
    <3>1. QueueAt(y)' = QueueAt(y) /\ QueueAt(y) \in Seq(Entries)
      BY Zenon, <2>2, OneQueue, QueueTypes
    <3> QED
      BY <3>1, KeptSame
  <2> QED
    BY <2>1, <2>2
<1> QED
  BY <1>1, Shrinks

(* No queue changes.                                                       *)
LEMMA QueuesStay ==
  ASSUME BookInv, BookInv', RestsOnce, UNCHANGED queues,
         arriving' # NoOrder => ~Resting(arriving'.ref)
  PROVE  RestsOnce' /\ NoSwap
<1>1. ASSUME NEW y \in Places PROVE Kept(QueueAt(y), QueueAt(y)')
  <2>1. QueueAt(y)' = QueueAt(y) /\ QueueAt(y) \in Seq(Entries)
    BY QueueTypes DEF QueueAt
  <2> QED
    BY <2>1, KeptSame
<1>2. arriving' # NoOrder => ~Resting(arriving.ref)'
  BY Zenon DEF Resting, RestsAt, QueueAt
<1> QED
  BY <1>1, <1>2, Shrinks

(* An order that rests nowhere rests nowhere after some order is taken out *)
(* of a queue or reduced.                                                  *)
LEMMA StillAbsent ==
  ASSUME NEW x \in Places, NEW ref, ~Resting(ref), Kept(QueueAt(x), QueueAt(x)'),
         \A y \in Places : y # x => QueueAt(y)' = QueueAt(y)
  PROVE  \A y \in Places : \A n \in DOMAIN QueueAt(y)' : QueueAt(y)'[n].ref # ref
<1> SUFFICES ASSUME NEW y \in Places, NEW n \in DOMAIN QueueAt(y)', QueueAt(y)'[n].ref = ref
             PROVE  FALSE
  OBVIOUS
<1>1. \A z \in Places : \A m \in DOMAIN QueueAt(z) : QueueAt(z)[m].ref # ref
  BY DEF Resting, RestsAt
<1>2. CASE y = x
  <2>1. PICK f \in [DOMAIN QueueAt(x)' -> DOMAIN QueueAt(x)] : KeptBy(QueueAt(x), QueueAt(x)', f)
    BY DEF Kept
  <2> QED
    BY <1>1, <1>2, <2>1 DEF KeptBy
<1>3. CASE y # x
  BY <1>1, <1>3
<1> QED
  BY <1>2, <1>3

(* A trade takes the first order of a queue, or reduces it.                *)
LEMMA TradeInTurn ==
  ASSUME BookInv, BookInv', RestsOnce, NEW p \in Prices, Trade(p)
  PROVE  RestsOnce' /\ NoSwap
<1> DEFINE Q == queues[arriving.book][OtherSide(arriving.side)][p]
           first == Head(Q)
           traded == IF first.shares < arriving.shares
                     THEN first.shares ELSE arriving.shares
           new == IF traded = first.shares THEN Tail(Q)
                  ELSE [Q EXCEPT ![1].shares = first.shares - traded]
<1>1. arriving \in Arrivals /\ arriving # NoOrder
  BY Zenon DEF Trade, BookInv, BookTyped
<1>x. PICK x \in Places : x = <<arriving.book, OtherSide(arriving.side), p>>
  <2>1. arriving.book \in Books /\ OtherSide(arriving.side) \in BidAsk
    BY <1>1 DEF Arrivals, OtherSide, BidAsk
  <2>2. <<arriving.book, OtherSide(arriving.side), p>> \in Places
    BY <2>1 DEF Places
  <2> QED
    BY <2>2
<1>2. QueueAt(x) = Q /\ Q \in Seq(Entries) /\ Q # <<>> /\ first = Q[1]
  <2>1. QueueAt(x) = Q
    BY <1>x DEF QueueAt
  <2>2. Q # <<>>
    BY Zenon DEF Trade, Marketable
  <2>3. Q \in Seq(Entries)
    BY <2>1, QueueTypes
  <2> QED
    BY <2>1, <2>2, <2>3
<1>3. queues' = [queues EXCEPT ![arriving.book][OtherSide(arriving.side)][p] = new]
  BY Zenon DEF Trade
<1>4. traded \in Nat /\ first.shares \in Nat /\ traded <= first.shares
  <2>1. Q[1] \in Entries
    BY <1>2
  <2> HIDE DEF Q
  <2> QED
    BY <1>1, <1>2, <2>1 DEF Entries, Arrivals
<1>5. new \in Seq(Entries) /\ Kept(Q, new)
  <2> HIDE DEF Q, traded, first
  <2>1. CASE traded = first.shares
    BY <1>2, <2>1, KeptTail
  <2>2. CASE traded # first.shares
    <3> DEFINE less == [Q EXCEPT ![1].shares = Q[1].shares - traded]
    <3>1. 1 \in DOMAIN Q /\ traded <= Q[1].shares
      BY <1>2, <1>4
    <3>2. new = less /\ less \in Seq(Entries)
      BY <1>2, <1>4, <2>2, <3>1, ReduceEntry
    <3>3. DOMAIN less = DOMAIN Q /\ \A n \in DOMAIN Q : less[n].ref = Q[n].ref
      BY <1>2, <1>4, <3>1, ReduceEntry
    <3> QED
      BY <1>2, <3>2, <3>3, KeptSame, ZenonT(60)
  <2> QED
    BY <2>1, <2>2
<1>6. arriving'.ref = arriving.ref
  BY Zenon, <1>1 DEF Trade, Arrivals
<1> HIDE DEF new, Q
<1>7. queues' = [queues EXCEPT ![x[1]][x[2]][x[3]] = new]
  BY <1>3, <1>x
<1>8. QueueAt(x)' = new /\ \A y \in Places : y # x => QueueAt(y)' = QueueAt(y)
  BY Zenon, <1>1, <1>5, <1>7, OneQueue
<1>9. ~Resting(arriving.ref)
  BY <1>1 DEF RestsOnce
<1>10. ~Resting(arriving.ref)'
  <2>1. \A y \in Places : \A n \in DOMAIN QueueAt(y)' : QueueAt(y)'[n].ref # arriving.ref
    BY <1>1, <1>2, <1>5, <1>8, <1>9, StillAbsent
  <2> QED
    BY <1>6, <2>1 DEF Resting, RestsAt
<1> QED
  BY Zenon, <1>1, <1>2, <1>5, <1>7, <1>10, OneQueueShrinks

(* An order taken out of a queue; another may come in its place.           *)
LEMMA TakeOutInTurn ==
  ASSUME BookInv, BookInv', RestsOnce, NEW x \in Places, NEW k \in DOMAIN QueueAt(x),
         TakeOut(x, k),
         arriving' # NoOrder => (Resting(arriving'.ref) => RestsAt(arriving'.ref, x, k))
  PROVE  RestsOnce' /\ NoSwap
<1> DEFINE q == QueueAt(x)
<1>1. q \in Seq(Entries) /\ Without(q, k) \in Seq(Entries)
  BY QueueTypes, WithoutType
<1>2. queues' = [queues EXCEPT ![x[1]][x[2]][x[3]] = Without(q, k)]
  BY DEF TakeOut, QueueAt
<1>3. QueueAt(x)' = Without(q, k) /\ \A y \in Places : y # x => QueueAt(y)' = QueueAt(y)
  BY Zenon, <1>1, <1>2, OneQueue
<1>4. PICK f \in [DOMAIN Without(q, k) -> DOMAIN q] :
        KeptBy(q, Without(q, k), f) /\ \A n \in DOMAIN Without(q, k) : f[n] # k
  BY <1>1, KeptWithout
<1>5. Kept(q, Without(q, k))
  BY <1>4 DEF Kept
<1>6. ASSUME arriving' # NoOrder PROVE ~Resting(arriving.ref)'
  <2> SUFFICES ASSUME NEW y \in Places, NEW n \in DOMAIN QueueAt(y)',
                      QueueAt(y)'[n].ref = arriving'.ref
               PROVE  FALSE
    BY DEF Resting, RestsAt
  <2>1. PICK m \in DOMAIN QueueAt(y) : QueueAt(y)[m].ref = arriving'.ref /\ (y = x => m # k)
    <3>1. CASE y = x
      <4>1. f[n] \in DOMAIN QueueAt(y) /\ QueueAt(y)[f[n]].ref = arriving'.ref /\ f[n] # k
        BY <1>3, <1>4, <3>1 DEF KeptBy
      <4> QED
        BY <4>1
    <3>2. CASE y # x
      BY <1>3, <3>2
    <3> QED
      BY <3>1, <3>2
  <2>2. Resting(arriving'.ref)
    BY <2>1 DEF Resting, RestsAt
  <2>3. QueueAt(x)[k].ref = arriving'.ref
    BY <1>6, <2>2 DEF RestsAt
  <2> QED
    BY <2>1, <2>3 DEF RestsOnce
<1> QED
  BY Zenon, <1>1, <1>2, <1>5, <1>6, OneQueueShrinks

LEMMA ReduceInTurn ==
  ASSUME BookInv, BookInv', RestsOnce, NEW x \in Places, NEW k \in DOMAIN QueueAt(x),
         NEW shares \in Nat, Reduce(x, k, shares)
  PROVE  RestsOnce' /\ NoSwap
<1> DEFINE q == QueueAt(x)
           less == [q EXCEPT ![k].shares = q[k].shares - shares]
<1>1. q \in Seq(Entries) /\ \A n \in DOMAIN q : q[n] \in Entries
  BY QueueTypes
<1>2. shares < q[k].shares /\ queues' = [queues EXCEPT ![x[1]][x[2]][x[3]] = less]
      /\ arriving' = arriving /\ arriving = NoOrder
  BY Zenon DEF Reduce, QueueAt, Ready
<1> HIDE DEF q
<1>3. k \in DOMAIN q
  BY DEF q
<1>4. shares <= q[k].shares
  BY <1>1, <1>2, <1>3 DEF Entries
<1>5. less \in Seq(Entries)
  BY <1>1, <1>3, <1>4, ReduceEntry
<1>6. DOMAIN less = DOMAIN q /\ \A n \in DOMAIN q : less[n].ref = q[n].ref
  BY <1>1, <1>3 DEF Entries
<1>7. Kept(q, less)
  BY Zenon, <1>1, <1>5, <1>6, KeptSame
<1> HIDE DEF less
<1> QED
  BY Zenon, <1>2, <1>5, <1>7, OneQueueShrinks DEF q

(* What is left of an order joins the end of its queue; it rests nowhere.  *)
LEMMA SettleInTurn ==
  ASSUME BookInv, BookInv', RestsOnce, Settle
  PROVE  RestsOnce' /\ NoSwap
<1>1. arriving \in Arrivals /\ arriving' = NoOrder /\ ~Resting(arriving.ref)
  BY DEF Settle, BookInv, BookTyped, RestsOnce
<1>2. CASE arriving.shares = 0
  <2>1. UNCHANGED queues
    BY <1>2 DEF Settle
  <2> QED
    BY <1>1, <2>1, QueuesStay
<1>3. CASE arriving.shares # 0
  <2> DEFINE e == [ref |-> arriving.ref, shares |-> arriving.shares]
  <2>1. PICK x \in Places : x = <<arriving.book, arriving.side, arriving.price>>
    BY Zenon, <1>1 DEF Arrivals, Places
  <2>2. PICK q \in Seq(Entries) : q = QueueAt(x)
    BY QueueTypes
  <2>3. e \in Entries /\ e.ref = arriving.ref
    BY <1>1 DEF Entries, Arrivals
  <2> HIDE DEF e
  <2>4. PICK r \in Seq(Entries) : r = Append(q, e)
    <3>1. Append(q, e) \in Seq(Entries)
      BY <2>2, <2>3
    <3> QED
      BY Zenon, <3>1
  <2>5. queues' = [queues EXCEPT ![x[1]][x[2]][x[3]] = r]
    BY Zenon, <1>3, <2>1, <2>2, <2>4 DEF Settle, QueueAt, e
  <2>6. QueueAt(x)' = r /\ \A y \in Places : y # x => QueueAt(y)' = QueueAt(y)
    BY Zenon, <2>5, OneQueue
  <2>7. PICK a \in Refs : a = arriving.ref
    BY <1>1 DEF Arrivals
  <2>8. \A y \in Places : \A n \in DOMAIN QueueAt(y) : QueueAt(y)[n].ref # a
    BY <1>1, <2>7 DEF Resting, RestsAt
  <2>9. ASSUME NEW y \in Places, NEW n \in DOMAIN QueueAt(y)'
        PROVE  \/ n \in DOMAIN QueueAt(y) /\ QueueAt(y)'[n].ref = QueueAt(y)[n].ref
               \/ y = x /\ n = Len(q) + 1 /\ QueueAt(y)'[n].ref = a
    <3>1. CASE y # x
      BY <2>6, <3>1
    <3>2. CASE y = x
      <4>1. /\ DOMAIN r = 1 .. Len(q) + 1 /\ DOMAIN q = 1 .. Len(q) /\ Len(q) \in Nat
            /\ \A m \in DOMAIN q : r[m] = q[m]
            /\ r[Len(q) + 1] = e
        BY <2>3, <2>4
      <4> QED
        BY <2>2, <2>3, <2>6, <2>7, <3>2, <4>1
    <3> QED
      BY <3>1, <3>2
  <2>10. ASSUME NEW y \in Places, NEW z \in Places,
                NEW m \in DOMAIN QueueAt(y)', NEW n \in DOMAIN QueueAt(z)',
                QueueAt(y)'[m].ref = QueueAt(z)'[n].ref
         PROVE  y = z /\ m = n
    BY <2>8, <2>9, <2>10 DEF RestsOnce
  <2>11. RestsOnce'
    BY <1>1, <2>10 DEF RestsOnce
  <2>12. ASSUME NEW y \in Places, NEW ref1 \in Refs, NEW ref2 \in Refs,
                Before(y, ref1, ref2), Before(y, ref2, ref1)'
         PROVE  FALSE
    <3>1. PICK m \in DOMAIN QueueAt(y), n \in DOMAIN QueueAt(y) :
            m < n /\ QueueAt(y)[m].ref = ref1 /\ QueueAt(y)[n].ref = ref2
      BY <2>12 DEF Before, RestsAt
    <3>2. PICK k \in DOMAIN QueueAt(y)', l \in DOMAIN QueueAt(y)' :
            k < l /\ QueueAt(y)'[k].ref = ref2 /\ QueueAt(y)'[l].ref = ref1
      BY <2>12 DEF Before, RestsAt
    <3>3. k = n /\ l = m
      BY <2>8, <2>9, <3>1, <3>2 DEF RestsOnce
    <3>4. m \in Nat /\ n \in Nat
      BY QueueTypes
    <3> QED
      BY <3>1, <3>2, <3>3, <3>4
  <2> QED
    BY <2>11, <2>12 DEF NoSwap
<1> QED
  BY <1>2, <1>3

LEMMA InTurn ==
  ASSUME Unsigned, BookInv, RestsOnce, [PTBNext]_ptbVars
  PROVE  RestsOnce' /\ NoSwap
<1>0. BookInv'
  BY BookStep
<1>1. ASSUME NEW b \in Books, NEW s \in BidAsk, NEW ref \in Refs,
             NEW shares \in Quantities, NEW price \in Prices,
             Arrive(b, s, ref, shares, price)
      PROVE  RestsOnce' /\ NoSwap
  <2>1. arriving'.ref = ref /\ ~Resting(ref) /\ UNCHANGED queues
    BY <1>1 DEF Arrive, Enter
  <2> QED
    BY <1>0, <2>1, QueuesStay
<1>2. ASSUME NEW p \in Prices, Trade(p) PROVE RestsOnce' /\ NoSwap
  BY <1>0, <1>2, TradeInTurn
<1>3. CASE Settle
  BY <1>0, <1>3, SettleInTurn
<1>4. ASSUME NEW x \in Places, NEW n \in DOMAIN QueueAt(x), Withdraw(x, n)
      PROVE  RestsOnce' /\ NoSwap
  BY <1>0, <1>4, TakeOutInTurn DEF Withdraw, Ready
<1>5. ASSUME NEW x \in Places, NEW n \in DOMAIN QueueAt(x),
             NEW shares \in Quantities, Reduce(x, n, shares)
      PROVE  RestsOnce' /\ NoSwap
  BY <1>0, <1>5, ReduceInTurn DEF Unsigned
<1>6. ASSUME NEW x \in Places, NEW n \in DOMAIN QueueAt(x), NEW ref \in Refs,
             NEW shares \in Quantities, NEW price \in Prices,
             Replace(x, n, ref, shares, price)
      PROVE  RestsOnce' /\ NoSwap
  <2>1. arriving'.ref = ref /\ TakeOut(x, n) /\ (Resting(ref) => RestsAt(ref, x, n))
    BY <1>6 DEF Replace, Enter
  <2> QED
    BY <1>0, <2>1, TakeOutInTurn
<1>7. CASE Halt \/ UNCHANGED ptbVars
  <2>1. UNCHANGED <<queues, arriving>>
    BY <1>7 DEF Halt, ptbVars
  <2>2. arriving' # NoOrder => ~Resting(arriving'.ref)
    BY <2>1 DEF RestsOnce
  <2> QED
    BY <1>0, <2>1, <2>2, QueuesStay
<1> QED
  BY <1>1, <1>2, <1>3, <1>4, <1>5, <1>6, <1>7 DEF PTBNext, Halted

(* A reference rests in one place of one queue, and an order that is       *)
(* arriving rests nowhere.                                                 *)
THEOREM BookRestsOnce ==
  ASSUME Unsigned
  PROVE  PTBSpec => []RestsOnce
<1>1. PTBInit => RestsOnce
  <2> SUFFICES ASSUME PTBInit PROVE RestsOnce
    OBVIOUS
  <2>1. ASSUME NEW x \in Places PROVE QueueAt(x) = <<>> /\ DOMAIN QueueAt(x) = {}
    <3>1. x[1] \in Books /\ x[2] \in BidAsk /\ x[3] \in Prices
      BY DEF Places
    <3> QED
      BY <3>1 DEF PTBInit, QueueAt
  <2> QED
    BY <2>1 DEF PTBInit, RestsOnce
<1>2. BookInv /\ RestsOnce /\ [PTBNext]_ptbVars => RestsOnce'
  BY InTurn
<1> QED
  BY <1>1, <1>2, BookInit, BookStep, PTL DEF PTBSpec

(* Time priority: two orders that stay in a queue keep their order in it,  *)
(* over every trade, withdrawal, reduction, replacement and arrival.       *)
THEOREM BookIsFair ==
  ASSUME Unsigned
  PROVE  PTBSpec => NoOvertaking
<1>1. BookInv /\ RestsOnce /\ [PTBNext]_ptbVars
        => [\A place \in Places, ref1, ref2 \in Refs :
              Before(place, ref1, ref2) => ~Before(place, ref2, ref1)']_ptbVars
  BY InTurn DEF NoSwap
<1>2. PTBSpec => []BookInv
  BY BookInit, BookStep, PTL DEF PTBSpec
<1> QED
  BY <1>1, <1>2, BookRestsOnce, PTL DEF PTBSpec, NoOvertaking
=============================================================================
