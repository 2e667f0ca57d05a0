------------------------------- MODULE Deques -------------------------------
(***************************************************************************)
(* Removal from the middle of a Python deque or ordered dict whose elements *)
(* occur once, and the selection of some of its elements: the block pool's  *)
(* parked blocks, the scheduler's queues, the serving runtime's media queue *)
(* and the online session's table of preparations are kept this way.        *)
(***************************************************************************)
EXTENDS Integers, Sequences

\* deque.remove(x), or del d[x] of an ordered dict, for an x that occurs once.
Without(s, x) ==
  LET i == CHOOSE k \in DOMAIN s : s[k] = x
  IN  [k \in 1 .. Len(s) - 1 |-> IF k < i THEN s[k] ELSE s[k + 1]]

\* The members of S in the order of the queue: deque(x for x in queue if x in S).
Those(queue, S) ==
  LET those[k \in 0 .. Len(queue)] ==
        IF k = 0 THEN <<>>
        ELSE IF queue[k] \in S THEN Append(those[k - 1], queue[k]) ELSE those[k - 1]
  IN  those[Len(queue)]
=============================================================================
