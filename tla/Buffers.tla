------------------------------- MODULE Buffers -------------------------------
(***************************************************************************)
(* What a reused byte buffer holds, as far as the codec and the copies can *)
(* tell: whose bytes form its prefix, and how far from its start it has    *)
(* been written since it was last zeroed.  Tensors are numbered from 1.    *)
(* The state of the art this abstracts: device slots, pinned host slots    *)
(* and files that carry a different tensor on every lap of a ring.         *)
(***************************************************************************)
EXTENDS Integers

Nothing == 0     \* all zeroes: no tensor's bytes
Torn    == -1    \* a mixture of two tensors' bytes

\* Buffer contents: `of' names the tensor whose bytes are the prefix, and
\* bytes at or past `extent' are zero.
Contents(tensors) == [of : tensors \union {Nothing, Torn}, extent : Nat]

Zeroed == [of |-> Nothing, extent |-> 0]

Further(m, n) == IF m < n THEN n ELSE m

\* A copy of n bytes of `from' over the start of buf: whatever an earlier,
\* longer tensor left past n stays.
CopiedInto(buf, from, n) == [of |-> from, extent |-> Further(buf.extent, n)]

\* A write that stops after k of the n bytes of tensor t: the remainder is
\* what buf held before, which is right only if buf already held t.
ShortWritten(buf, t, k) ==
  [of |-> IF buf.of = t THEN t ELSE Torn, extent |-> Further(buf.extent, k)]

\* The codec reconstructs t only from t's bytes followed by zeroes (it reads
\* past the compressed size) into a destination of zeroes (it leaves out the
\* elements it expects to be zero already).
Decoded(cmp, t, n, into) ==
  IF cmp.of = t /\ cmp.extent = n /\ into = Nothing THEN t ELSE Torn
=============================================================================
