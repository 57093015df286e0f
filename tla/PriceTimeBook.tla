---------------------------- MODULE PriceTimeBook ----------------------------
(***************************************************************************)
(* What the matching engine promises: a limit order book for each stock    *)
(* with price-time priority.  There are no slots, links, ladders or caches *)
(* here; a book has one FIFO queue of [ref, shares] per side and price.    *)
(*                                                                         *)
(* An arriving order trades with the best-priced opposite queue, first     *)
(* come first served, while its limit allows; then what is left of it      *)
(* joins the end of its own queue.  Module EngineRefinement states that    *)
(* MatchingEngine implements this specification.                           *)
(***************************************************************************)
EXTENDS Integers, Sequences

CONSTANTS Books, Refs, Prices, Quantities, NoOrder

(* Prices and shares are unsigned, as in struct Order; MessageAssumption   *)
(* of MatchingEngine says so of the instance the engine implements.        *)
Unsigned == Prices \subseteq Nat /\ Quantities \subseteq Nat

VARIABLES queues,     \* stock -> side -> price -> sequence of [ref, shares]
          arriving,   \* the order that is trading and its stock, or NoOrder
          fills,      \* the trades of the last order that arrived
          halted      \* an order of neither side stopped the engine

ptbVars == <<queues, arriving, fills, halted>>

BidAsk == {"B", "S"}

OtherSide(s) == IF s = "B" THEN "S" ELSE "B"

(* An order of side s limited at `limit' may trade at price p.             *)
Acceptable(s, limit, p) == IF s = "B" THEN p <= limit ELSE p >= limit

(* For an order of side s, the opposite price p is preferable to q.        *)
Preferable(s, p, q) == IF s = "B" THEN p < q ELSE p > q

Places == Books \X BidAsk \X Prices

QueueAt(place) == queues[place[1]][place[2]][place[3]]

RestsAt(ref, place, n) ==
  n \in DOMAIN QueueAt(place) /\ QueueAt(place)[n].ref = ref

Resting(ref) ==
  \E place \in Places : \E n \in DOMAIN QueueAt(place) : RestsAt(ref, place, n)

Ready == arriving = NoOrder /\ ~halted

(* The opposite prices the arriving order can trade at.                    *)
Marketable ==
  LET o == OtherSide(arriving.side)
  IN  {p \in Prices : /\ queues[arriving.book][o][p] # <<>>
                      /\ Acceptable(arriving.side, arriving.price, p)}

Without(q, n) == SubSeq(q, 1, n - 1) \o SubSeq(q, n + 1, Len(q))

PTBInit ==
  /\ queues = [b \in Books |-> [s \in BidAsk |-> [p \in Prices |-> <<>>]]]
  /\ arriving = NoOrder
  /\ fills = <<>>
  /\ halted = FALSE

Enter(b, s, ref, shares, price) ==
  /\ arriving' = [book |-> b, side |-> s, ref |-> ref, shares |-> shares,
                  price |-> price]
  /\ fills' = <<>>

Arrive(b, s, ref, shares, price) ==
  /\ Ready
  /\ Enter(b, s, ref, shares, price)
  /\ ~Resting(ref)
  /\ UNCHANGED <<queues, halted>>

Trade(p) ==
  LET b      == arriving.book
      o      == OtherSide(arriving.side)
      queue  == queues[b][o][p]
      first  == Head(queue)
      traded == IF first.shares < arriving.shares
                THEN first.shares ELSE arriving.shares
      left   == IF traded = first.shares THEN Tail(queue)
                ELSE [queue EXCEPT ![1].shares = first.shares - traded]
  IN  /\ arriving # NoOrder
      /\ arriving.shares > 0
      /\ p \in Marketable
      /\ \A q \in Marketable : ~Preferable(arriving.side, q, p)
      /\ queues' = [queues EXCEPT ![b][o][p] = left]
      /\ arriving' = [arriving EXCEPT !.shares = @ - traded]
      /\ fills' = Append(fills, [ref |-> first.ref, shares |-> traded])
      /\ UNCHANGED halted

Settle ==
  /\ arriving # NoOrder
  /\ arriving' = NoOrder
  /\ arriving.shares = 0 \/ Marketable = {}
  /\ queues' = IF arriving.shares = 0 THEN queues
               ELSE [queues EXCEPT
                       ![arriving.book][arriving.side][arriving.price] =
                         Append(@, [ref    |-> arriving.ref,
                                    shares |-> arriving.shares])]
  /\ UNCHANGED <<fills, halted>>

(* The n-th order of a queue leaves it.                                    *)
TakeOut(place, n) ==
  queues' = [queues EXCEPT ![place[1]][place[2]][place[3]] = Without(@, n)]

Withdraw(place, n) ==
  /\ Ready
  /\ UNCHANGED <<arriving, fills, halted>>
  /\ TakeOut(place, n)

(* A reduced order keeps its place in the queue.                           *)
Reduce(place, n, shares) ==
  /\ Ready
  /\ UNCHANGED <<arriving, fills, halted>>
  /\ shares < QueueAt(place)[n].shares
  /\ queues' = [queues EXCEPT
                  ![place[1]][place[2]][place[3]][n].shares = @ - shares]

(* A replaced order loses its place and arrives again.                     *)
Replace(place, n, ref, shares, price) ==
  /\ Ready
  /\ Enter(place[1], place[2], ref, shares, price)
  /\ Resting(ref) => RestsAt(ref, place, n)
  /\ TakeOut(place, n)
  /\ UNCHANGED halted

Halt ==
  /\ Ready
  /\ fills' = <<>>
  /\ halted' = TRUE
  /\ UNCHANGED <<queues, arriving>>

Halted == halted /\ UNCHANGED ptbVars

PTBNext ==
  \/ Ready /\ \E b \in Books, s \in BidAsk, ref \in Refs,
                 shares \in Quantities, price \in Prices :
                Arrive(b, s, ref, shares, price)
  \/ \E p \in Prices : Trade(p)
  \/ Settle
  \/ Ready /\ \E place \in Places : \E n \in DOMAIN QueueAt(place) :
       \/ Withdraw(place, n)
       \/ \E shares \in Quantities : Reduce(place, n, shares)
       \/ \E ref \in Refs, shares \in Quantities, price \in Prices :
            Replace(place, n, ref, shares, price)
  \/ Halt
  \/ Halted

PTBSpec == PTBInit /\ [][PTBNext]_ptbVars

-----------------------------------------------------------------------------
(* No resting bid meets a resting ask, even while an order is trading.     *)
NeverCrossed ==
  \A b \in Books, p \in Prices :
    queues[b]["B"][p] # <<>> =>
      \A q \in Prices : queues[b]["S"][q] # <<>> => p < q

(* A reference rests in one place of one queue, and an order that is       *)
(* arriving rests nowhere.                                                 *)
RestsOnce ==
  /\ \A x, y \in Places :
       \A m \in DOMAIN QueueAt(x), n \in DOMAIN QueueAt(y) :
         QueueAt(x)[m].ref = QueueAt(y)[n].ref => x = y /\ m = n
  /\ arriving # NoOrder => ~Resting(arriving.ref)

Before(place, ref1, ref2) ==
  \E m, n \in DOMAIN QueueAt(place) :
    m < n /\ RestsAt(ref1, place, m) /\ RestsAt(ref2, place, n)

(* Time priority: two orders that stay in a queue keep their order.        *)
NoOvertaking ==
  [][\A place \in Places, ref1, ref2 \in Refs :
       Before(place, ref1, ref2) => ~Before(place, ref2, ref1)']_ptbVars
=============================================================================
