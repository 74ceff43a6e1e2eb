----------------------------- MODULE MCStorage -----------------------------
(* Instances of Storage for TLC *)
EXTENDS Storage, Bitwise, TLC

Names == Permutations(Element)

\* The definition by divisors is that of a power.
ASSUME PowersOfTwo ==
    \A c \in 0 .. 4 * Modulus : IsPowerOfTwo(c) <=> \E k \in 0 .. Modulus : c = 2 ^ k

\* The states without the bits in cells that own nothing.  No action reads them and no
\* property depends on them, as long as OneOwner and AccessIsSound hold.
WithoutStaleBits ==
    <<overwrite, capacity, readIdx, writeIdx, cloning, free, held, leaked,
      [b \in Buffer |-> [k \in DOMAIN cells[b] |->
          IF \E i \in Live(b) : k = Masked(i) THEN cells[b][k] ELSE Uninit]]>>

\* `index & mask` is the remainder by the capacity, which is what the specifications
\* compute and what keeps indices less than a capacity apart in different cells; it
\* takes a capacity rounded to a power of two (mask and round_to_power_of_two).
MaskIsRemainder == \A i \in 0 .. Modulus - 1 : (i & (capacity - 1)) = Masked(i)
=============================================================================
