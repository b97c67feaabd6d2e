----------------------------- MODULE MCRingBuffer -----------------------------
(* Model-checking instances of RingBuffer, and the capacity it is given. *)
EXTENDS RingBuffer, Bitwise, TLC

\* Producers are interchangeable, and so are consumers.
Symmetry == Permutations(Producers) \cup Permutations(Consumers)

\* n |= n >> s
Smear(n, s) == n | shiftR(n, s)

\* The capacity that NewRingBuffer makes of n, in words of w bits.
nextPowerOfTwo(n, w) ==
    LET ones == Smear(Smear(Smear(Smear(Smear(Smear(n - 1, 1), 2), 4), 8), 16), 32)
    IN  IF n = 0 THEN 1 ELSE (ones + 1) % 2^w

\* In words of eight bits, where every n can be tried: the result is the least
\* power of two that is not less than n; no capacity becomes zero but those
\* above the greatest power of two; and only 0 and 1 give a ring of one slot,
\* the one for which FullPushFails does not hold.
ASSUME CapacityRoundsUp ==
    /\ \A n \in 1 .. 2^7 : LET c == nextPowerOfTwo(n, 8)
                           IN  /\ \E k \in 0 .. 7 : c = 2^k
                               /\ n <= c /\ c < 2 * n
    /\ \A n \in 0 .. 2^8 - 1 : /\ nextPowerOfTwo(n, 8) = 0 <=> n > 2^7
                               /\ nextPowerOfTwo(n, 8) = 1 <=> n \in {0, 1}

ASSUME CapIsRounded == nextPowerOfTwo(Cap, 8) = Cap
===============================================================================
