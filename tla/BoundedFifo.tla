----------------------------- MODULE BoundedFifo -----------------------------
(***************************************************************************)
(* What SpscRing promises: a first-in first-out queue of at most Limit     *)
(* values.  An attempt to push or pop that fails changes nothing.          *)
(***************************************************************************)
EXTENDS Naturals, Sequences

CONSTANTS Values, Limit, NoValue

VARIABLES queue,    \* the values pushed and not yet popped
          popped    \* the value the last successful pop returned

fifoVars == <<queue, popped>>

FifoInit == queue = <<>> /\ popped = NoValue

Push(v) ==
  /\ Len(queue) < Limit
  /\ queue' = Append(queue, v)
  /\ UNCHANGED popped

Pop ==
  /\ queue # <<>>
  /\ popped' = Head(queue)
  /\ queue' = Tail(queue)

FifoNext == Pop \/ \E v \in Values : Push(v)

FifoSpec == FifoInit /\ [][FifoNext]_fifoVars
=============================================================================
