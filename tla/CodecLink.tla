------------------------------ MODULE CodecLink ------------------------------
(***************************************************************************)
(* A tensor through the codec: encoded on either device, sent, perhaps     *)
(* damaged on the way, and decoded by the one decoder there is.  What the  *)
(* contract (codec/contract.py) and the equivalence tests promise of it.   *)
(***************************************************************************)
EXTENDS Codec

VARIABLES
  tensor, cfg,   \* what is encoded and how
  off,           \* how far the device's scales are from the host's (steps)
  ref, gpu,      \* what each encoder returned
  by, wire,      \* whose buffer is on the way, and the buffer
  got,           \* what the receiver has
  pieces         \* what it has of the tensor sent in two chunks instead

vars == <<tensor, cfg, off, ref, gpu, by, wire, got, pieces>>

Nothing == [status |-> "nothing"]

Init ==
  /\ \E i \in Inputs : tensor = i.tensor /\ cfg = i.cfg
  /\ off \in Offs /\ (off # 0 => GpuAccepts(tensor, cfg))
  /\ ref = Nothing /\ gpu = Nothing /\ by = "nobody" /\ wire = Nothing /\ got = Nothing
  /\ pieces = Nothing

EncodeOnHost ==
  /\ ref = Nothing
  /\ ref' = [status |-> "encoded", result |-> ReferenceEncode(tensor, cfg)]
  /\ UNCHANGED <<tensor, cfg, off, gpu, by, wire, got, pieces>>

EncodeOnGpu ==
  /\ ref # Nothing /\ gpu = Nothing /\ pieces = Nothing
  /\ gpu' = IF GpuAccepts(tensor, cfg)
            THEN [status |-> "encoded", result |-> GpuEncode(tensor, cfg, off)]
            ELSE [status |-> "raised"]
  /\ UNCHANGED <<tensor, cfg, off, ref, by, wire, got, pieces>>

Send(d, enc) ==
  /\ enc.status = "encoded" /\ by = "nobody" /\ gpu # Nothing
  /\ by' = d
  /\ wire' = [status |-> "intact", buf |-> enc.result.buf]
  /\ UNCHANGED <<tensor, cfg, off, ref, gpu, got, pieces>>

\* One byte of the payload changes on the way: a code's, a width's, a scale's.
Damage ==
  /\ wire.status = "intact" /\ got = Nothing
  /\ \/ /\ wire.buf.body # << >>
        /\ \E k \in {1, Len(wire.buf.body)} :
             wire' = [status |-> "damaged",
                      buf |-> [wire.buf EXCEPT !.body[k] = IF @ = 0 THEN 1 ELSE 0]]
     \/ /\ wire.buf.widths # << >>
        /\ wire' = [status |-> "damaged",
                    buf |-> [wire.buf EXCEPT !.widths[1] = IF @ = Raw THEN 8 ELSE Raw]]
     \/ /\ wire.buf.scales # << >>
        /\ wire' = [status |-> "damaged", buf |-> [wire.buf EXCEPT !.scales[1] = @ + 1]]
  /\ UNCHANGED <<tensor, cfg, off, ref, gpu, by, got, pieces>>

Receive ==
  /\ by # "nobody" /\ got = Nothing
  /\ got' = IF Readable(wire.buf)
            THEN [status |-> "decoded", data |-> Decode(wire.buf)] ELSE [status |-> "raised"]
  /\ UNCHANGED <<tensor, cfg, off, ref, gpu, by, wire, pieces>>

\* Where a split falls on a block or a token boundary, and on a row's, and leaves
\* no chunk shorter than a block, which would travel as it is.
Boundaries ==
  LET n    == Len(tensor.data)
      unit == IF cfg.allocation = "blockwise" \/ Len(tensor.shape) < 2
              THEN cfg.block ELSE tensor.shape[2]
  IN  {c \in cfg.block..(n - cfg.block) :
         /\ cfg.allocation # "per_channel" /\ c % unit = 0
         /\ Len(tensor.shape) = 2 => c % tensor.shape[2] = 0}

Piece(from, to) ==
  [data  |-> SubSeq(tensor.data, from + 1, to), dtype |-> tensor.dtype,
   shape |-> IF Len(tensor.shape) = 1 THEN <<to - from>>
             ELSE <<(to - from) \div tensor.shape[2], tensor.shape[2]>>,
   contiguous |-> tensor.contiguous]

EncodeInPieces ==
  /\ ref # Nothing /\ gpu = Nothing /\ pieces = Nothing
  /\ BypassReasonOf(tensor, cfg) = "none"
  /\ \E c \in Boundaries :
       LET part == [x \in {Piece(0, c), Piece(c, Len(tensor.data))} |->
                      Decode(ReferenceEncode(x, cfg).buf)]
       IN  pieces' = [data |-> part[Piece(0, c)] \o part[Piece(c, Len(tensor.data))]]
  /\ UNCHANGED <<tensor, cfg, off, ref, gpu, by, wire, got>>

Next ==
  \/ EncodeInPieces
  \/ EncodeOnHost \/ EncodeOnGpu \/ Damage \/ Receive
  \/ Send("host", ref) \/ Send("gpu", gpu)

Spec == Init /\ [][Next]_vars

-----------------------------------------------------------------------------

Groups == Partition(tensor.shape, cfg.allocation, cfg.block)
GroupOf(i) == LET groups == Groups IN {j \in DOMAIN tensor.data : groups[j] = groups[i]}
AllFinite(S) == \A j \in S : Finite(tensor.data[j])

\* "For a block in which every value is finite: max |x - x_hat| <= eps", whoever
\* encoded it, the output dtype's rounding included (contract.py).
BoundHolds ==
  got.status = "decoded" =>
    \A i \in DOMAIN tensor.data :
      AllFinite(GroupOf(i)) => Abs(got.data[i] - tensor.data[i]) <= cfg.eps

\* "Blocks containing NaN or +/-Inf are transmitted bit-exact", every element
\* of them, and so is a tensor that bypasses the codec.
NonFiniteIsExact ==
  got.status = "decoded" =>
    \A i \in DOMAIN tensor.data :
      ~AllFinite(GroupOf(i)) \/ wire.buf.header.groups = 0 => got.data[i] = tensor.data[i]

\* A finite group whose half step is inside the budget or a step of its scale beyond.
Doubtful(g) ==
  LET seg     == Segment(tensor, Groups, g - 1)
      b       == GroupBounds(seg)
      budget2 == Budget2(tensor, cfg, b)
  IN  /\ ~HasNonFinite(seg)
      /\ budget2 > 0 /\ Scale(b.max - b.min, cfg.width, 0) <= budget2 * Res + 1

\* The two encoders side by side (tests/test_gpu_equivalence.py), however the device's
\* divisions round.  What a receiver makes of the one buffer and of the other differs by
\* at most twice eps, and not at all in a group that is not finite.  Of a dtype the codec
\* knows both buffers have the same groups, as many of them not finite, and the same
\* minimum and all but the same scale for a group both compress; where one is raw and
\* the other is not the group is a doubtful one and the divisions differ; equal widths
\* are payloads of equal size, and equal divisions equal scales and bytes.  (A dtype
\* the codec does not know is compressed by the one and bypassed by the other.)
EncodersAgree ==
  gpu.status = "encoded" =>
    LET r == ref.result.buf
        g == gpu.result.buf
        byRef == Decode(r)
        byGpu == Decode(g)
    IN  /\ \A i \in DOMAIN tensor.data :
             Abs(byGpu[i] - byRef[i]) <= IF AllFinite(GroupOf(i)) THEN 2 * cfg.eps ELSE 0
        /\ Supported(tensor) =>
             /\ DOMAIN r.widths = DOMAIN g.widths
             /\ ref.result.stats.nonfinite = gpu.result.stats.nonfinite
             /\ \A k \in DOMAIN r.widths :
                  /\ r.widths[k] # g.widths[k] => off # 0 /\ Doubtful(k)
                  /\ r.widths[k] # Raw /\ g.widths[k] # Raw =>
                       r.mins[k] = g.mins[k] /\ Abs(r.scales[k] - g.scales[k]) <= 1
             /\ r.widths = g.widths => ref.result.stats.bytes = gpu.result.stats.bytes
             /\ off = 0 => r.scales = g.scales /\ r.body = g.body

\* The statistics describe what the receiver gets: the host's reported error is
\* the realised one over the finite positions, and a bypass has its reason.
StatsAreTrue ==
  LET s == ref.result.stats
      finite == {i \in DOMAIN tensor.data : Finite(tensor.data[i])}
  IN  (by = "host" /\ got.status = "decoded") =>
        /\ s.error = Max({0} \union {Abs(got.data[i] - tensor.data[i]) : i \in finite})
        /\ s.reason = "none" <=> wire.buf.header.groups > 0

\* "Blockwise and per-token are chunk-independent when the split falls on a
\* block or token boundary" (allocation.py), chunks of at least a block.
ChunkIndependent ==
  pieces # Nothing => pieces.data = Decode(ref.result.buf)
=============================================================================
