------------------------------- MODULE Packing -------------------------------
(***************************************************************************)
(* boundrelay/codec/packing.py and the two Triton kernels that must lay    *)
(* bits out the same way (codec/gpu.py): codes of 4, 6 or 8 bits to dense  *)
(* bytes and back.  packing.py goes through a matrix of bits that it pads  *)
(* and reshapes; the kernels address every bit by arithmetic, one lane per *)
(* output byte or per code.  Sequences of codes and bytes count from 1,    *)
(* bit positions from 0 as in the code, most significant first.            *)
(***************************************************************************)
EXTENDS Integers, Sequences

Widths == {4, 6, 8}

Power(n) == <<1, 2, 4, 8, 16, 32, 64, 128, 256>>[n + 1]

Codes(w) == 0..(Power(w) - 1)
Bytes8   == 0..255

\* Bit b of a w-bit number, and the number whose first w bits are given.
BitOf(c, w, b) == (c \div Power(w - 1 - b)) % 2

FromBits(bits, w) ==
  LET at(b) == IF b < w THEN bits[b] * Power(w - 1 - b) ELSE 0
  IN  at(0) + at(1) + at(2) + at(3) + at(4) + at(5) + at(6) + at(7)

PackedBytes(n, w) == (n * w + 7) \div 8

-----------------------------------------------------------------------------
(* packing.py *)

\* The zeroes that fill the last byte: (-n) % 8 of a non-negative n.
Padding(nbits) == (8 - (nbits % 8)) % 8

\* The (n, w) matrix of bits, row after row, and the padding.
FlatBits(codes, w) ==
  LET nbits == Len(codes) * w
  IN  [k \in 0..((nbits + Padding(nbits)) - 1) |->
         IF k < nbits THEN BitOf(codes[k \div w + 1], w, k % w) ELSE 0]

Pack(codes, w) ==
  LET nbits == Len(codes) * w
      flat  == FlatBits(codes, w)
  IN  [j \in 1..((nbits + Padding(nbits)) \div 8) |->
         FromBits([b \in 0..7 |-> flat[8 * (j - 1) + b]], 8)]

Unpack(buf, w, n) ==
  [i \in 1..n |->
     FromBits([b \in 0..(w - 1) |->
                 LET k == (i - 1) * w + b IN BitOf(buf[k \div 8 + 1], 8, k % 8)], w)]

-----------------------------------------------------------------------------
(* gpu.py *)

\* One lane per output byte: each of its bits is looked up in its code.
KernelPack(codes, w) ==
  [j \in 1..PackedBytes(Len(codes), w) |->
     FromBits([b \in 0..7 |->
                 LET gbit == 8 * (j - 1) + b
                     ci   == gbit \div w
                 IN  IF ci < Len(codes) THEN BitOf(codes[ci + 1], w, gbit % w) ELSE 0], 8)]

\* One lane per code: each of its bits is looked up in its byte.
KernelUnpack(buf, w, n) ==
  [i \in 1..n |->
     FromBits([b \in 0..(w - 1) |->
                 LET gbit == (i - 1) * w + b
                     byi  == gbit \div 8
                 IN  IF byi < Len(buf) THEN BitOf(buf[byi + 1], 8, gbit % 8) ELSE 0], w)]

\* _assemble's cut of a packed buffer: the bytes of the n codes from the s-th.
Slice(packed, s, n, w) ==
  SubSeq(packed, PackedBytes(s, w) + 1, PackedBytes(s, w) + PackedBytes(n, w))
=============================================================================
