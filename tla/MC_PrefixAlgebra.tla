------------------------- MODULE MC_PrefixAlgebra -------------------------
(* Model-checking instance of PrefixAlgebra: single-bit-flip vectors.      *)
EXTENDS PrefixAlgebra

\* A fe80::/10 link-local address with some bits set in every byte.
MC_Base == <<254, 128, 0, 1, 18, 52, 86, 120, 154, 188, 222, 241, 1, 2, 3, 4>>

\* Flip bit k (0 = most significant bit of the first byte).
Flip(p, k) == [p EXCEPT ![k \div 8 + 1] = @ ^^ (2^(7 - (k % 8)))]

\* The v4-mapped address ::ffff:1.2.3.4 and its neighbour in the last bit.
MC_V4 == v4tov6(<<1, 2, 3, 4>>)

\* The base, its bit flips at the positions spec 8 names and inside a
\* byte, and the v4-mapped pair.
MC_Addrs == {MC_Base, Flip(MC_Base, 0), Flip(MC_Base, 63), Flip(MC_Base, 64),
             Flip(MC_Base, 101), Flip(MC_Base, 127), MC_V4, Flip(MC_V4, 127)}

MC_Plens1 == 0..128
MC_Plens2 == {0, 5, 64, 100, 104, 126, 128}
MC_Oob == {0, 255}

\* One value past the end, the same for both buffers: only in-bounds
\* differences can then tell the prefixes apart.
MC_OobSame == {0}
=============================================================================
