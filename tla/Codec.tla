-------------------------------- MODULE Codec --------------------------------
(***************************************************************************)
(* boundrelay/codec: the reference encoder and decoder, the Triton encoder *)
(* that has to write the same format, and the link between them.           *)
(*                                                                         *)
(* Numbers.  A tensor's finite values are integers, in units of the grid   *)
(* that stands for fp32.  The narrow dtype ("bf16") keeps MantissaBits of  *)
(* them, so its grid coarsens with every power of two as the real one's    *)
(* does, and a cast rounds half to even; a cast to an integer dtype cuts   *)
(* off.  A quotient is kept in steps of 1/Res: it is rounded, like an fp32 *)
(* one, and a group may pass the prediction and miss the bound.  FP_TOLERANCE is less *)
(* than a unit.  A byte of packed codes is a number below 256; a byte of   *)
(* an element that travels as it is names the element and its place.       *)
(***************************************************************************)
EXTENDS Packing, SequencesExt

CONSTANTS
  Inputs,   \* pairs of a tensor and a configuration
  Res,      \* steps a unit of scale is stored in
  MantissaBits   \* of bf16; fp16 has three more

Offs == {-1, 0, 1}   \* steps the device's quotient is away from the host's

NaN     == 120
Inf     == 121     \* also what a minimum over no value is
Garbage == 122     \* an element put together from bytes of something else
Finite(v) == v < NaN

Raw      == 0      \* a group's width when it travels bit-exact
Adaptive == 0      \* a configuration's width when the codec is to choose
Mixed    == -1     \* the header's width when groups differ
Undefined == -2

Numel(shape) == IF Len(shape) = 1 THEN shape[1] ELSE shape[1] * shape[2]

\* What encode is called with: a tensor with its data in its shape, and a CodecConfig
\* as __post_init__ lets it through.
WellFormed(x, cfg) ==
  /\ x \in [data : Seq(Int), dtype : STRING, shape : Seq(Nat \ {0}), contiguous : BOOLEAN]
  /\ x.dtype \in {"bf16", "fp16", "fp32", "int32"}
  /\ \A j \in DOMAIN x.data : Finite(x.data[j]) \/ x.data[j] \in {NaN, Inf}
  /\ x.dtype = "int32" => \A j \in DOMAIN x.data : Finite(x.data[j])
  /\ Len(x.shape) \in {1, 2} /\ Numel(x.shape) = Len(x.data)
  /\ cfg.eps \in Nat \ {0} /\ cfg.block \in Nat \ {0}
  /\ cfg.allocation \in {"blockwise", "per_channel", "per_token"}
  /\ cfg.width \in Widths \union {Adaptive}

ASSUME CodecAssumption ==
  /\ Res \in Nat \ {0} /\ MantissaBits \in 0..5
  /\ \A i \in Inputs : WellFormed(i.tensor, i.cfg)

Abs(v) == IF v < 0 THEN -v ELSE v

\* Round half to even of a / b, b > 0 (torch.round, libdevice.rint).
RoundDiv(a, b) ==
  LET q == a \div b
      r == 2 * (a % b)
  IN  IF r < b \/ (r = b /\ q % 2 = 0) THEN q ELSE q + 1

\* Whatever is neither bf16 nor fp32 is taken for fp16.
Mantissa(dtype) == IF dtype = "bf16" THEN MantissaBits ELSE MantissaBits + 3

\* The spacing of the dtype at magnitude m, twice what _half_ulp returns;
\* 0 where the grid of the model is at least as fine.
Spacing(m, dtype) ==
  IF dtype = "fp32" \/ m < Power(Mantissa(dtype)) THEN 0
  ELSE Power(Max({e \in 0..8 : Power(e) <= m}) - Mantissa(dtype))

Cast(v, dtype) ==
  LET s == Spacing(Abs(v), dtype) IN IF s <= 1 THEN v ELSE s * RoundDiv(v, s)

\* a / b towards zero: a cast to an integer.
Truncated(a, b) == IF a < 0 THEN -((-a) \div b) ELSE a \div b

ElemBytes(dtype) == IF dtype \in {"bf16", "fp16"} THEN 2 ELSE 4

-----------------------------------------------------------------------------
(* Groups that draw from one budget (codec.allocation).  Elements count from 1, *)
(* groups from 0.                                                               *)

\* Faulty: repeat and repeat_interleave change places.
PartitionSwapped(shape, allocation, block) ==
  [i \in 1..Numel(shape) |->
     CASE allocation = "blockwise" \/ Len(shape) < 2 -> (i - 1) \div block
       [] allocation = "per_channel" /\ Len(shape) = 2 -> (i - 1) \div shape[2]
       [] allocation = "per_token" /\ Len(shape) = 2 -> (i - 1) % shape[2]]

Partition(shape, allocation, block) ==
  [i \in 1..Numel(shape) |->
     CASE allocation = "blockwise" \/ Len(shape) < 2 -> (i - 1) \div block
       [] allocation = "per_channel" /\ Len(shape) = 2 -> (i - 1) % shape[2]
       [] allocation = "per_token" /\ Len(shape) = 2 -> (i - 1) \div shape[2]]

NGroups(groups) == Max(Range(groups)) + 1

Size(groups, g) == Cardinality({i \in DOMAIN groups : groups[i] = g})

\* Where the stable sort by group puts an element within its group's run, and
\* which element is where.
Place(groups, i) == Cardinality({j \in 1..i : groups[j] = groups[i]})
Member(groups, g, k) == CHOOSE i \in DOMAIN groups : groups[i] = g /\ Place(groups, i) = k

Segment(x, groups, g) == [k \in 1..Size(groups, g) |-> x.data[Member(groups, g, k)]]

HasNonFinite(seg) == \E k \in DOMAIN seg : ~Finite(seg[k])

\* Minimum and maximum of a group, the non-finite values read as zero.
GroupBounds(seg) ==
  LET safe == {IF Finite(seg[k]) THEN seg[k] ELSE 0 : k \in DOMAIN seg}
  IN  [min |-> Min(safe), max |-> Max(safe)]

\* A group's own error, over the positions where one is defined.
WorstError(seg, rec) ==
  Max({IF Finite(seg[k]) /\ Finite(rec[k]) THEN Abs(seg[k] - rec[k]) ELSE 0 : k \in DOMAIN seg})

-----------------------------------------------------------------------------
(* One group's width, scale, codes (reference.encode). *)

\* Twice the error budget left after the output dtype's own rounding.
Budget2(x, cfg, b) ==
  2 * cfg.eps - Spacing(Max({Abs(b.min), Abs(b.max)}), x.dtype)

\* The scale as it is stored; off is how far the device's division is from
\* the host's, in steps.
Scale(range, w, off) ==
  IF w = Raw \/ range = 0 THEN 0 ELSE Max({0, RoundDiv(range * Res, Power(w) - 1) + off})

\* The predicate of a given width: half a step, the quotient that is halved here and
\* stored as the scale there, is inside the budget.
HalfStepFits(range, budget2, w, off) ==
  budget2 > 0 /\ Scale(range, w, off) <= budget2 * Res

\* ceil(log2(range / budget2 + 1)) <= w.
Fits(range, budget2, w) ==
  budget2 > 0 /\ range <= (Power(w) - 1) * budget2

ChooseBitWidth(range, budget2) ==
  IF \E w \in Widths : Fits(range, budget2, w)
  THEN Min({w \in Widths : Fits(range, budget2, w)}) ELSE Raw

\* Faulty: a group is compressed whatever else it holds.
WidthOfFinitePart(x, cfg, seg) ==
  LET b == GroupBounds(seg) IN ChooseBitWidth(b.max - b.min, Budget2(x, cfg, b))

PredictedWidth(x, cfg, seg) ==
  LET b == GroupBounds(seg)
      budget2 == Budget2(x, cfg, b)
  IN  CASE HasNonFinite(seg) -> Raw
        [] ~HasNonFinite(seg) /\ cfg.width = Adaptive ->
             ChooseBitWidth(b.max - b.min, budget2)
        [] ~HasNonFinite(seg) /\ cfg.width # Adaptive ->
             IF HalfStepFits(b.max - b.min, budget2, cfg.width, 0) THEN cfg.width ELSE Raw

Quantise(v, lo, scale, w) ==
  IF scale = 0 THEN 0
  ELSE Min({Power(w) - 1, Max({0, RoundDiv((v - lo) * Res, scale)})})

Dequantise(lo, code, scale, dtype) ==
  IF dtype = "int32" THEN Truncated(lo * Res + code * scale, Res)
  ELSE Cast(lo + RoundDiv(code * scale, Res), dtype)

\* Faulty: the prediction is taken for the guarantee.
NeverMissed(seg, rec, cfg) == FALSE

\* Realised error past the bound: the prediction is not the guarantee.
Missed(seg, rec, cfg) == WorstError(seg, rec) > cfg.eps

-----------------------------------------------------------------------------
(* The wire format (codec.serialize). *)

\* The h-th byte of an element.
ByteOf(v, h) == 1000 + 8 * (v + 128) + h

ElementBytes(seg, dtype) ==
  FlattenSeq([k \in DOMAIN seg |-> [h \in 1..ElemBytes(dtype) |-> ByteOf(seg[k], h)]])

ElementAt(body, off, dtype) ==
  LET n == ElemBytes(dtype)
      v == (body[off + 1] - 1001) \div 8 - 128
  IN  IF \A h \in 1..n : body[off + h] = ByteOf(v, h) THEN v ELSE Garbage

Payload(buf) == <<buf.widths, buf.mins, buf.scales, buf.body>>

\* serialize.write: the checksum covers the payload and not the header.
Written(header, widths, mins, scales, body) ==
  [header |-> header, widths |-> widths, mins |-> mins, scales |-> scales,
   body |-> body, crc |-> <<widths, mins, scales, body>>]

\* serialize.read: may the buffer be decoded at all?
Readable(buf) == buf.crc = Payload(buf)

HeaderOf(x, cfg, width, n) ==
  [eps |-> cfg.eps, allocation |-> cfg.allocation, width |-> width, dtype |-> x.dtype,
   shape |-> x.shape, block |-> cfg.block, groups |-> n]

\* One byte for each width, four for each minimum and each scale.
PayloadBytes(buf) == 9 * Len(buf.widths) + Len(buf.body)

-----------------------------------------------------------------------------
(* reference.encode *)

\* An element of a dtype the codec does not know is carried by its bytes.
Supported(x) == x.dtype \in {"bf16", "fp16", "fp32"}

BypassReasonOf(x, cfg) ==
  CASE ~Supported(x) -> "unsupported_dtype"
    [] Supported(x) /\ ~x.contiguous -> "non_contiguous"
    [] Supported(x) /\ x.contiguous /\ Len(x.data) < cfg.block -> "tensor_too_small"
    [] OTHER -> "none"

Bypass(x, cfg, reason) ==
  LET buf == Written(HeaderOf(x, cfg, Mixed, 0), << >>, << >>, << >>,
                     ElementBytes(x.data, x.dtype))
  IN  [buf |-> buf,
       stats |-> [bytes |-> PayloadBytes(buf), error |-> 0, nonfinite |-> 0, blocks |-> 0,
                  reason |-> reason]]

\* Faulty: a demoted group keeps its scale and width beside raw bytes.
HalfDemotedGroup(x, cfg, seg) ==
  LET b     == GroupBounds(seg)
      w     == PredictedWidth(x, cfg, seg)
      scale == Scale(b.max - b.min, w, 0)
      codes == [k \in DOMAIN seg |-> Quantise(seg[k], b.min, scale, w)]
      rec   == [k \in DOMAIN seg |-> Dequantise(b.min, codes[k], scale, x.dtype)]
  IN  [width |-> w, min |-> b.min, scale |-> scale,
       chunk |-> IF w = Raw \/ Missed(seg, rec, cfg)
                 THEN ElementBytes(seg, x.dtype) ELSE Pack(codes, w),
       error |-> IF w = Raw THEN 0 ELSE WorstError(seg, rec)]

\* One turn of the loop over groups, and its share of the demotion after it.
EncodedGroup(x, cfg, seg) ==
  LET b     == GroupBounds(seg)
      w     == PredictedWidth(x, cfg, seg)
      scale == Scale(b.max - b.min, w, 0)
      codes == [k \in DOMAIN seg |-> Quantise(seg[k], b.min, scale, w)]
      rec   == [k \in DOMAIN seg |-> Dequantise(b.min, codes[k], scale, x.dtype)]
  IN  IF w = Raw \/ Missed(seg, rec, cfg)
      THEN [width |-> Raw, min |-> b.min, scale |-> 0,
            chunk |-> ElementBytes(seg, x.dtype), error |-> 0]
      ELSE [width |-> w, min |-> b.min, scale |-> scale,
            chunk |-> Pack(codes, w), error |-> WorstError(seg, rec)]

ReferenceEncode(x, cfg) ==
  IF BypassReasonOf(x, cfg) # "none" THEN Bypass(x, cfg, BypassReasonOf(x, cfg))
  ELSE
    LET groups == Partition(x.shape, cfg.allocation, cfg.block)
        n      == NGroups(groups)
        enc    == [g \in 1..n |-> EncodedGroup(x, cfg, Segment(x, groups, g - 1))]
        used   == {enc[g].width : g \in 1..n} \ {Raw}
        width  == IF Cardinality(used) = 1 THEN Min(used) ELSE Mixed
        buf    == Written(HeaderOf(x, cfg, width, n),
                          [g \in 1..n |-> enc[g].width], [g \in 1..n |-> enc[g].min],
                          [g \in 1..n |-> enc[g].scale],
                          FlattenSeq([g \in 1..n |-> enc[g].chunk]))
    IN  [buf |-> buf,
         stats |-> [bytes |-> PayloadBytes(buf), error |-> Max({enc[g].error : g \in 1..n}),
                    nonfinite |-> Cardinality({g \in 1..n : HasNonFinite(Segment(x, groups, g - 1))}),
                    blocks |-> n, reason |-> "none"]]

-----------------------------------------------------------------------------
(* reference.decode *)

\* Bytes each group takes, and where it begins.
GroupBytes(dtype, size, w) == IF w = Raw THEN size * ElemBytes(dtype) ELSE PackedBytes(size, w)

Starts(bytes) ==
  LET off[g \in 1..(Len(bytes) + 1)] == IF g = 1 THEN 0 ELSE off[g - 1] + bytes[g - 1]
  IN  off

DecodedGroup(buf, off, size, g) ==
  LET w   == buf.widths[g]
      lo  == buf.mins[g]
      end == off + GroupBytes(buf.header.dtype, size, w)
      codes == Unpack(SubSeq(buf.body, off + 1, end), w, size)
  IN  IF w = Raw
      THEN [k \in 1..size |->
              ElementAt(buf.body, off + (k - 1) * ElemBytes(buf.header.dtype), buf.header.dtype)]
      ELSE [k \in 1..size |-> Dequantise(lo, codes[k], buf.scales[g], buf.header.dtype)]

Decode(buf) ==
  LET h == buf.header
      n == Numel(h.shape)
  IN  IF h.groups = 0
      THEN [i \in 1..n |-> ElementAt(buf.body, (i - 1) * ElemBytes(h.dtype), h.dtype)]
      ELSE
        LET groups == Partition(h.shape, h.allocation, h.block)
            size == [g \in 1..h.groups |-> Size(groups, g - 1)]
            off  == Starts([g \in 1..h.groups |-> GroupBytes(h.dtype, size[g], buf.widths[g])])
            dec  == [g \in 1..h.groups |-> DecodedGroup(buf, off[g], size[g], g)]
        IN  [i \in 1..n |-> dec[groups[i] + 1][Place(groups, i)]]

-----------------------------------------------------------------------------
(* gpu.encode *)

\* Outside its scope the GPU path raises: blockwise, one width, contiguous.  It asks
\* for no dtype: one the codec does not know is compressed, as if it were fp16.
GpuAccepts(x, cfg) ==
  cfg.allocation = "blockwise" /\ cfg.width # Adaptive /\ x.contiguous

\* Minimum and maximum over the finite values only.
GroupStats(seg) ==
  LET finite == {seg[k] : k \in DOMAIN seg} \ {NaN, Inf}
  IN  IF finite = {} THEN [min |-> Inf, max |-> -Inf]
      ELSE [min |-> Min(finite), max |-> Max(finite)]

\* Faulty: the cuts do not skip the codes of earlier raw groups, which were
\* packed as well.
AssembledShifted(x, cfg, packed, widths) ==
  LET n     == Len(x.data)
      start(g) == (g - 1) * cfg.block
      size(g)  == Min({cfg.block, n - start(g)})
      before(g) == Cardinality({h \in 1..(g - 1) : widths[h] # Raw})
  IN  FlattenSeq([g \in DOMAIN widths |->
        IF widths[g] = Raw
        THEN ElementBytes(SubSeq(x.data, start(g) + 1, start(g) + size(g)), x.dtype)
        ELSE Slice(packed, before(g) * cfg.block, size(g), cfg.width)])

\* _assemble: one copy of the packed buffer when no group is raw and the last
\* block is whole, or else group by group, cut at byte granularity.
Assembled(x, cfg, packed, widths) ==
  LET n     == Len(x.data)
      start(g) == (g - 1) * cfg.block
      size(g)  == Min({cfg.block, n - start(g)})
  IN  IF n % cfg.block = 0 /\ \A g \in DOMAIN widths : widths[g] # Raw THEN packed
      ELSE FlattenSeq([g \in DOMAIN widths |->
             IF widths[g] = Raw
             THEN ElementBytes(SubSeq(x.data, start(g) + 1, start(g) + size(g)), x.dtype)
             ELSE Slice(packed, start(g), size(g), cfg.width)])

\* _quantize_kernel: a lane for each value, with its group's minimum and scale.
KernelCodes(x, groups, lo, scale, w) ==
  [i \in DOMAIN groups |->
     LET g == groups[i] + 1 IN Quantise(x.data[i], lo[g], scale[g], w)]

GpuEncode(x, cfg, off) ==
  IF Len(x.data) < cfg.block THEN ReferenceEncode(x, cfg)
  ELSE
    LET groups == Partition(x.shape, "blockwise", cfg.block)
        n      == NGroups(groups)
        w      == cfg.width
        seg    == [g \in 1..n |-> Segment(x, groups, g - 1)]
        b      == [g \in 1..n |-> GroupStats(seg[g])]
        fits   == [g \in 1..n |->
                     /\ ~HasNonFinite(seg[g])
                     /\ HalfStepFits(b[g].max - b[g].min, Budget2(x, cfg, b[g]), w, off)]
        lo     == [g \in 1..n |-> IF fits[g] THEN b[g].min ELSE 0]
        scale  == [g \in 1..n |-> IF fits[g] THEN Scale(b[g].max - b[g].min, w, off) ELSE 0]
        codes  == KernelCodes(x, groups, lo, scale, w)
        rec    == [g \in 1..n |-> [k \in DOMAIN seg[g] |->
                     Dequantise(lo[g], codes[(g - 1) * cfg.block + k], scale[g], x.dtype)]]
        ok     == [g \in 1..n |-> fits[g] /\ ~Missed(seg[g], rec[g], cfg)]
        widths == [g \in 1..n |-> IF ok[g] THEN w ELSE Raw]
        buf    == Written(HeaderOf(x, cfg, w, n), widths, [g \in 1..n |-> b[g].min],
                          [g \in 1..n |-> IF ok[g] THEN scale[g] ELSE 0],
                          Assembled(x, cfg, KernelPack(codes, w), widths))
    IN  [buf |-> buf,
         stats |-> [bytes |-> PayloadBytes(buf), error |-> Undefined,
                    nonfinite |-> Cardinality({g \in 1..n : HasNonFinite(seg[g])}),
                    blocks |-> n, reason |-> "none"]]

-----------------------------------------------------------------------------
(* What the encoders leave to whoever calls them. *)

\* No reconstruction leaves the finite numbers: an error that is not finite is read
\* as none (reference.py:196, gpu.py:249).
NoOverflow ==
  \A i \in Inputs : \A off \in Offs :
    LET x      == i.tensor
        groups == Partition(x.shape, i.cfg.allocation, i.cfg.block)
    IN  x.contiguous /\ Len(x.data) >= i.cfg.block =>
          \A g \in 0..(NGroups(groups) - 1) :
            LET seg   == Segment(x, groups, g)
                b     == GroupBounds(seg)
                w     == IF i.cfg.width = Adaptive THEN PredictedWidth(x, i.cfg, seg)
                         ELSE i.cfg.width
                scale == Scale(b.max - b.min, w, off)
            IN  w # Raw /\ ~HasNonFinite(seg) => \A k \in DOMAIN seg :
                  Finite(Dequantise(b.min, Quantise(seg[k], b.min, scale, w), scale, x.dtype))

\* A block's codes fill whole bytes: _assemble cuts the packed buffer by the byte.
WholeBytes ==
  \A i \in Inputs :
    GpuAccepts(i.tensor, i.cfg) => (i.cfg.block * i.cfg.width) % 8 = 0
=============================================================================
