--------------------------- MODULE MCTimeWaitList ---------------------------
(***************************************************************************)
(* QuicTimeWaitListManager on its own: three ids, room for two of them.    *)
(***************************************************************************)
EXTENDS TimeWaitThrottle, TLC

ConnectionIdSymmetry == Permutations(ConnectionIds)

\* The recursion of PowerOfTwo gives the powers of 2.
ASSUME PowersByRecursion == \A k \in 0..20 : PowerOfTwo[k] = 2 ^ k

\* "A power of 2", by definition, against the bit trick of ShouldSendResponse.
ASSUME PowersOfTwo ==
  \A n \in 1..1100 : ShouldSendResponse(n) <=> \E k \in 0..10 : n = 2 ^ k
=============================================================================
