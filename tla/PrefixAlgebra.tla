---------------------------- MODULE PrefixAlgebra ----------------------------
(***************************************************************************)
(* The address and prefix functions of src/util.h, over 16-byte addresses *)
(* given as tuples of bytes (byte 1 is the first in memory, network        *)
(* order).  Word reads through casted pointers are modelled as the         *)
(* little-endian values of the bytes they cover, and htobe16/htobe32 as    *)
(* the byte swap of a little-endian host.                                  *)
(*                                                                         *)
(* The state holds only the inputs of one call: two prefixes with their   *)
(* lengths, and the byte each would read past its end.  Init picks every   *)
(* combination of the bounded input sets and no step changes them, so the *)
(* invariants check the functions over all of those inputs.                *)
(***************************************************************************)
EXTENDS Integers, Sequences, Bitwise

CONSTANTS
  Addrs,           \* the 16-byte addresses given to the functions
  Plens1,          \* prefix lengths given as plen1
  Plens2,          \* prefix lengths given as plen2
  OobBytes,        \* values the byte after a 16-byte buffer may hold
  Builds           \* the values of HAVE_64BIT_ARCH util.h is built with

ASSUME Builds \subseteq BOOLEAN
ASSUME Plens1 \cup Plens2 \subseteq 0..128

\* HAVE_64BIT_ARCH: whether the build selects the 64-bit word paths.
VARIABLES p1, plen1, p2, plen2, oob1, oob2, HAVE_64BIT_ARCH
vars == <<p1, plen1, p2, plen2, oob1, oob2, HAVE_64BIT_ARCH>>

\* enum prefix_status (util.h:280-285)
PST_EQUALS == 0
PST_DISJOINT == 1
PST_MORE_SPECIFIC == 2
PST_LESS_SPECIFIC == 3

MinLen(a, b) == IF a < b THEN a ELSE b

\* extern const unsigned char v4prefix[16]: ten zero bytes, then 0xff 0xff.
v4prefix == [i \in 1..16 |-> IF i \in {11, 12} THEN 255 ELSE 0]

\* memcmp(a, b, n): the sign of the first differing byte among the first n.
Memcmp(a, b, n) ==
  LET diff == {i \in 1..n : a[i] # b[i]}
      i == CHOOSE j \in diff : \A k \in diff : j <= k
  IN IF diff = {} THEN 0 ELSE IF a[i] < b[i] THEN -1 ELSE 1

\* The w-byte word read at byte offset off through a casted pointer, as
\* the bytes it covers: two words are equal, and their XOR is zero,
\* exactly when these agree.
Word(p, off, w) == SubSeq(p, off + 1, off + w)

\* The memory bytes of the native w-byte value x on a little-endian host.
RECURSIVE ValueBytes(_, _)
ValueBytes(x, w) ==
  IF w = 0 THEN <<>> ELSE <<x % 256>> \o ValueBytes(x \div 256, w - 1)

\* The memory bytes of htobe16(x) / htobe32(x): x in big-endian order.
htobe16(x) == <<(x \div 256) % 256, x % 256>>
htobe32(x) == [j \in 1..4 |-> (x \div 256^(4 - j)) % 256]

\* v6_equal2 / v6_nequal2: memcmp over the 16 bytes.
v6_equal2(a, b) == Memcmp(a, b, 16) = 0
v6_nequal2(a, b) == Memcmp(a, b, 16)

\* v6_nequal, v6_nequal8, v6_nequal12: the XOR of the words read at the
\* given offsets, or-ed together, is zero exactly when all words agree.
WordsDiffer(a, b, offs, w) == \E off \in offs : Word(a, off, w) # Word(b, off, w)

v6_nequal(a, b) ==
  IF HAVE_64BIT_ARCH THEN WordsDiffer(a, b, {0, 8}, 8)
  ELSE WordsDiffer(a, b, {0, 4, 8, 12}, 4)

v6_nequal8(a, b) ==
  IF HAVE_64BIT_ARCH THEN WordsDiffer(a, b, {0}, 8)
  ELSE WordsDiffer(a, b, {0, 4}, 4)

v6_nequal12(a, b) ==
  IF HAVE_64BIT_ARCH THEN WordsDiffer(a, b, {0}, 8) \/ WordsDiffer(a, b, {8}, 4)
  ELSE WordsDiffer(a, b, {0, 4, 8}, 4)

v6_equal(a, b) == ~v6_nequal(a, b)

\* linklocal: the first 16-bit word equals htobe16(0xfe80).
linklocal(a) == Word(a, 0, 2) = htobe16(65152)

\* v4mapped2: memcmp of the first 12 bytes with v4prefix.
v4mapped2(a) == Memcmp(a, v4prefix, 12) = 0

\* A mutant of v4mapped: compares the third word with 0xffff unconverted.
v4mapped_nohtobe(a) ==
  IF HAVE_64BIT_ARCH THEN Word(a, 0, 8) = ValueBytes(0, 8) /\ Word(a, 8, 4) = ValueBytes(65535, 4)
  ELSE Word(a, 0, 4) = ValueBytes(0, 4) /\ Word(a, 4, 4) = ValueBytes(0, 4) /\ Word(a, 8, 4) = ValueBytes(65535, 4)

\* v4mapped: the words before byte 8 are zero and the 32-bit word at byte
\* 8 equals htobe32(0xffff).
v4mapped(a) ==
  IF HAVE_64BIT_ARCH THEN Word(a, 0, 8) = ValueBytes(0, 8) /\ Word(a, 8, 4) = htobe32(65535)
  ELSE Word(a, 0, 4) = ValueBytes(0, 4) /\ Word(a, 4, 4) = ValueBytes(0, 4) /\ Word(a, 8, 4) = htobe32(65535)

\* v4tov6: v4prefix's first 12 bytes followed by the 4 bytes of src.
v4tov6(src) == SubSeq(v4prefix, 1, 12) \o src

-----------------------------------------------------------------------------
(* prefix_cmp (util.h:333-362)                                             *)

\* Byte i (0-based) of a 16-byte buffer; index 16 reads past its end, the
\* undefined-behaviour read that yields whatever byte follows it.
ByteAt(p, i, oob) == IF i < 16 THEN p[i + 1] ELSE oob

\* A mutant of WholeBytesDiffer: memcmp one byte short.
WholeBytesDiffer_short(a, b, plen) == Memcmp(a, b, (plen \div 8) - 1) # 0

\* memcmp(p1, p2, plen / 8) != 0
WholeBytesDiffer(a, b, plen) == Memcmp(a, b, plen \div 8) # 0

\* The partial-byte test: byte plen/8 + 1 under the mask
\* (0xFF << (plen % 8)) & 0xFF, when plen % 8 != 0.
PartialByteDiffers(a, oa, b, ob, plen) ==
  /\ plen % 8 # 0
  /\ LET i == plen \div 8 + 1
         mask == (255 * 2^(plen % 8)) % 256
     IN (ByteAt(a, i, oa) & mask) # (ByteAt(b, i, ob) & mask)

\* A mutant of PlenOrder: the strict test made non-strict.
PlenOrder_le(l1, l2) ==
  IF l1 <= l2 THEN PST_LESS_SPECIFIC
  ELSE IF l1 > l2 THEN PST_MORE_SPECIFIC ELSE PST_EQUALS

\* The final comparison of the two lengths.
PlenOrder(l1, l2) ==
  IF l1 < l2 THEN PST_LESS_SPECIFIC
  ELSE IF l1 > l2 THEN PST_MORE_SPECIFIC ELSE PST_EQUALS

prefix_cmp(a, l1, oa, b, l2, ob) ==
  LET plen == MinLen(l1, l2) IN
  IF v4mapped(a) # v4mapped(b) THEN PST_DISJOINT
  ELSE IF WholeBytesDiffer(a, b, plen) THEN PST_DISJOINT
  ELSE IF PartialByteDiffers(a, oa, b, ob, plen) THEN PST_DISJOINT
  ELSE PlenOrder(l1, l2)

-----------------------------------------------------------------------------
(* Reference definitions (spec 4.1), bit by bit, most significant first    *)

Bit(p, k) == (p[k \div 8 + 1] \div 2^(7 - (k % 8))) % 2

\* The first n bits of a and b agree.
BitsAgree(a, b, n) == \A k \in 0..(n - 1) : Bit(a, k) = Bit(b, k)

RefCompare(a, l1, b, l2) ==
  IF v4mapped2(a) # v4mapped2(b) THEN PST_DISJOINT
  ELSE IF ~BitsAgree(a, b, MinLen(l1, l2)) THEN PST_DISJOINT
  ELSE IF l1 = l2 THEN PST_EQUALS
  ELSE IF l1 > l2 THEN PST_MORE_SPECIFIC ELSE PST_LESS_SPECIFIC

Mirror(r) == CASE r = PST_MORE_SPECIFIC -> PST_LESS_SPECIFIC
               [] r = PST_LESS_SPECIFIC -> PST_MORE_SPECIFIC
               [] OTHER -> r

-----------------------------------------------------------------------------

Init ==
  /\ p1 \in Addrs /\ p2 \in Addrs
  /\ plen1 \in Plens1 /\ plen2 \in Plens2
  /\ oob1 \in OobBytes /\ oob2 \in OobBytes
  /\ HAVE_64BIT_ARCH \in Builds

Next == UNCHANGED vars

Spec == Init /\ [][Next]_vars

-----------------------------------------------------------------------------
(* Properties                                                              *)

\* Spec 4.1: prefix_cmp compares the first min(plen1, plen2) bits, most
\* significant bit first, after the v4-mapped short-circuit.
PrefixCmpMatchesSpec ==
  prefix_cmp(p1, plen1, oob1, p2, plen2, oob2) = RefCompare(p1, plen1, p2, plen2)

\* When the shorter length is a whole number of bytes, prefix_cmp needs no
\* partial-byte mask, and it then agrees with the bit-level definition.
PrefixCmpExactOnByteBoundaries ==
  MinLen(plen1, plen2) % 8 = 0 =>
    prefix_cmp(p1, plen1, oob1, p2, plen2, oob2) = RefCompare(p1, plen1, p2, plen2)

\* Spec 8: swapping the arguments of prefix_cmp mirrors its answer
\* (MORE_SPECIFIC and LESS_SPECIFIC exchange, the others stay).
PrefixCmpMirror ==
  prefix_cmp(p2, plen2, oob2, p1, plen1, oob1)
    = Mirror(prefix_cmp(p1, plen1, oob1, p2, plen2, oob2))

\* Spec 4.1 and 8: the word-wise and memcmp encodings of the address
\* predicates agree with each other and with their bit-level meaning:
\* v4mapped, v4mapped2, linklocal, every v6_equal variant, and v4tov6
\* yields a v4-mapped address.
AddressPredicatesAgree ==
  /\ v4mapped(p1) = v4mapped2(p1)
  /\ v4mapped(p1) = BitsAgree(p1, v4prefix, 96)
  /\ linklocal(p1) = (p1[1] = 254 /\ p1[2] = 128)
  /\ v6_equal(p1, p2) = (p1 = p2)
  /\ v6_equal2(p1, p2) = (p1 = p2)
  /\ (v6_nequal2(p1, p2) # 0) = (p1 # p2)
  /\ v6_nequal8(p1, p2) = (SubSeq(p1, 1, 8) # SubSeq(p2, 1, 8))
  /\ v6_nequal12(p1, p2) = (SubSeq(p1, 1, 12) # SubSeq(p2, 1, 12))
  /\ v4mapped(v4tov6(SubSeq(p1, 13, 16)))

=============================================================================
