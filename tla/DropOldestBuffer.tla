-------------------------- MODULE DropOldestBuffer --------------------------
(* What a real-time packet buffer promises.  Packets are numbered 1, 2, ...  *)
(* in the order they are offered; the buffer always holds the run            *)
(* oldest+1 .. newest, so a reader never sees a packet twice, out of order,  *)
(* or one that Capacity later packets have displaced.                        *)
EXTENDS Integers

CONSTANT Capacity   \* a positive natural number

VARIABLES newest,   \* the number of the last packet offered
          oldest,   \* the last packet that has left the buffer
          taken,    \* the last packet a reader took, 0 before the first
          open

bufferVars == <<newest, oldest, taken, open>>

BufferInit ==
  /\ newest = 0
  /\ oldest = 0
  /\ taken = 0
  /\ open = TRUE

Offer ==
  /\ open
  /\ newest' = newest + 1
  /\ oldest' = IF newest - oldest = Capacity THEN oldest + 1 ELSE oldest
  /\ UNCHANGED <<taken, open>>

Take ==
  /\ open
  /\ oldest < newest
  /\ oldest' = oldest + 1
  /\ taken' = oldest + 1
  /\ UNCHANGED <<newest, open>>

Shut ==
  /\ open
  /\ open' = FALSE
  /\ oldest' = newest
  /\ UNCHANGED <<newest, taken>>

BufferNext == Offer \/ Take \/ Shut

BufferSpec == BufferInit /\ [][BufferNext]_bufferVars
=============================================================================
