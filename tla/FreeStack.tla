------------------------------ MODULE FreeStack ------------------------------
(***************************************************************************)
(* What PacketPool promises its two threads: a stack of free buffers.  A   *)
(* buffer taken from it belongs to one place at a time until it is given   *)
(* back.                                                                   *)
(***************************************************************************)
EXTENDS Naturals, Sequences

CONSTANTS Buffers, Places, Free, InitialStack

VARIABLES stack,   \* the free buffers, top first
          place    \* where each buffer is: Free, or a member of Places

stackVars == <<stack, place>>

StackInit ==
  /\ stack = InitialStack
  /\ place = [b \in Buffers |-> Free]

Take(p) ==
  /\ stack # <<>>
  /\ place' = [place EXCEPT ![Head(stack)] = p]
  /\ stack' = Tail(stack)

GiveBack(b) ==
  /\ place[b] # Free
  /\ place' = [place EXCEPT ![b] = Free]
  /\ stack' = <<b>> \o stack

Move(b, p) ==
  /\ place[b] # Free
  /\ place' = [place EXCEPT ![b] = p]
  /\ UNCHANGED stack

StackNext ==
  \/ \E p \in Places : Take(p)
  \/ \E b \in Buffers : GiveBack(b)
  \/ \E b \in Buffers, p \in Places : Move(b, p)

StackSpec == StackInit /\ [][StackNext]_stackVars
=============================================================================
