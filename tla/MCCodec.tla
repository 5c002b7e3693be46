------------------------------- MODULE MCCodec -------------------------------
(* Inputs for CodecLink: the first block of a tensor runs over every choice  *)
(* of values in order, the rest over a few blocks of interest -- one that     *)
(* needs a wide range, one with a NaN, one of a single value -- and a tail    *)
(* shorter than a block.                                                      *)
EXTENDS CodecLink

MCRes == 16
MCMantissaBits == 2

Values == {-20, 7, 28, NaN}

Ordered == {s \in [1..4 -> Values] : \A i \in 1..3 : s[i] <= s[i + 1]}

Rests == { <<5, -24, 48, 1, 6, 6>>, <<2, NaN, Inf, -2, 14, -14>>, <<NaN, Inf, NaN, Inf, 3, 1>>,
           <<7, 7, 7, 7, 0, 28>> }

Tensor(d, dtype, shape, contiguous) ==
  [data |-> d, dtype |-> dtype, shape |-> shape, contiguous |-> contiguous]

Config(eps, allocation, width) ==
  [eps |-> eps, allocation |-> allocation, width |-> width, block |-> 4]

Blocks ==
  {[tensor |-> Tensor(s \o r, d[1], <<10>>, TRUE), cfg |-> Config(d[2], "blockwise", w)] :
     s \in Ordered, r \in Rests, d \in {<<"bf16", 1>>, <<"fp32", 1>>},
     w \in Widths \union {Adaptive}}

\* Two whole blocks, which the GPU assembles by one copy.
Whole ==
  {[tensor |-> Tensor(s \o SubSeq(r, 1, 4), "bf16", <<8>>, TRUE), cfg |-> Config(e, "blockwise", w)] :
     s \in Ordered, r \in Rests, e \in {2}, w \in Widths}

Tables ==
  {[tensor |-> Tensor(s \o r, "bf16", h, TRUE), cfg |-> Config(3, a, Adaptive)] :
     s \in Ordered, r \in Rests, h \in {<<2, 5>>, <<5, 2>>}, a \in {"per_channel", "per_token"}}

\* What bypasses, on the host alone or on both sides.
Bypasses ==
  {[tensor |-> t, cfg |-> Config(1, "blockwise", w)] :
     t \in {Tensor(<<7, NaN, 0>>, "bf16", <<3>>, TRUE), Tensor(<<1, 2, 3, 4, 5>>, "int32", <<5>>, TRUE),
            Tensor(<<40, -3, 61, 5, 6, 44, -7, 9>>, "int32", <<8>>, TRUE),
            Tensor(<<1, 2, 3, 4, 5, 6>>, "bf16", <<2, 3>>, FALSE)},
     w \in Widths \union {Adaptive}}

\* fp16, and ranges a step of the scale inside and outside the budget.
Borderline ==
  {[tensor |-> Tensor(<<0, top, 3, 11>> \o <<2, 14, 0, 30>>, d, <<8>>, TRUE),
    cfg |-> Config(e, "blockwise", w)] :
     top \in {29, 30, 31, 60}, d \in {"fp16", "fp32"}, e \in {1, 2}, w \in Widths}

MCInputs == Blocks \union Whole \union Tables \union Bypasses \union Borderline

ASSUME InputsInRange == NoOverflow /\ WholeBytes
=============================================================================
