-------------------------------- MODULE Policy --------------------------------
(***************************************************************************)
(* policy/cost_model.py and policy/decision.py under the evaluation of     *)
(* scripts/eval_policy.py: for every margin, payload and bandwidth one     *)
(* decision with the margin and one without (the oracle), both scored      *)
(* without it.                                                             *)
(*                                                                         *)
(* Time is counted in units small enough that a byte takes a whole number  *)
(* of them at every bandwidth.                                             *)
(***************************************************************************)
EXTENDS Integers, Sequences, FiniteSets

CONSTANTS
  Payloads,     \* the payloads, each with its size and its measured candidates
  Margins,      \* MARGINS_MS
  Bandwidths,   \* BW_POINTS
  SecondUnits   \* time units a byte takes at bandwidth 1

Candidates == [mode : {"error_bounded", "bf16_passthrough"}, bytes : Nat,
               encode : Nat, decode : Nat, ok : BOOLEAN]

ASSUME PolicyAssumption ==
  /\ Payloads \in Seq([original : Nat, candidates : Seq(Candidates)])
  /\ Margins \in Seq(Nat) /\ Margins # << >>
  /\ Bandwidths \in Seq(Nat \ {0}) /\ Bandwidths # << >>
  /\ SecondUnits \in Nat \ {0}
  /\ \A b \in DOMAIN Bandwidths : SecondUnits % Bandwidths[b] = 0

VARIABLES
  margin, payload, bw,  \* the loops' positions
  who,                  \* "decide", "oracle", "score" or "done"
  k, best, bestNet,     \* decide's loop: candidate looked at next, best so far
  dec, orc,             \* the two choices; 0 is bypass
  tally,                \* this margin's counts
  summary               \* the counts of the margins before

policyVars == <<margin, payload, bw, who, k, best, bestNet, dec, orc, tally, summary>>

Cand(c)  == Payloads[payload].candidates[c]
NCand    == Len(Payloads[payload].candidates)
MarginAt == IF who = "oracle" THEN 0 ELSE Margins[margin]

Transfer(bytes, b) == bytes * (SecondUnits \div Bandwidths[b])

\* What a candidate saves, and what it costs to save it.
Saved(c) == Transfer(Payloads[payload].original - Cand(c).bytes, bw)

\* Faulty: the margin is a factor on the codec's time.
RelativeCost(c, m) == (Cand(c).encode + Cand(c).decode) * (1 + m)

CodecCost(c, m) == Cand(c).encode + Cand(c).decode + m

NetBenefit(c, m) == Saved(c) - CodecCost(c, m)

\* break_even_bw_gbps lies above the bandwidth: never without a saving, always
\* when the codec is free.
PaysBelowBreakEven(c, m) ==
  LET delta == Payloads[payload].original - Cand(c).bytes IN
  delta > 0 /\ (CodecCost(c, m) <= 0 \/ delta * SecondUnits > CodecCost(c, m) * Bandwidths[bw])

-----------------------------------------------------------------------------

Zero == [compress |-> 0, bypass |-> 0, flip |-> 0, regret |-> 0]

\* An empty table leaves nothing to take a rate of.
PolicyInit ==
  /\ margin = 1 /\ payload = 1 /\ bw = 1
  /\ who = IF Payloads = << >> THEN "done" ELSE "decide"
  /\ k = 1 /\ best = 0 /\ bestNet = 0 /\ dec = 0 /\ orc = 0
  /\ tally = Zero /\ summary = << >>

Considered(c) == Cand(c).mode # "bf16_passthrough" /\ Cand(c).ok

\* One turn of decide's loop.
Look ==
  /\ who \in {"decide", "oracle"} /\ k <= NCand
  /\ IF Considered(k) /\ NetBenefit(k, MarginAt) > bestNet
     THEN best' = k /\ bestNet' = NetBenefit(k, MarginAt)
     ELSE UNCHANGED <<best, bestNet>>
  /\ k' = k + 1
  /\ UNCHANGED <<margin, payload, bw, who, dec, orc, tally, summary>>

Choose ==
  /\ who \in {"decide", "oracle"} /\ k > NCand
  /\ IF who = "decide" THEN dec' = best /\ orc' = orc /\ who' = "oracle"
     ELSE orc' = best /\ dec' = dec /\ who' = "score"
  /\ k' = 1 /\ best' = 0 /\ bestNet' = 0
  /\ UNCHANGED <<margin, payload, bw, tally, summary>>

\* Faulty: scored with the margin still in it.
RealisedWithMargin(x) == IF x = 0 THEN 0 ELSE NetBenefit(x, Margins[margin])

Realised(x) == IF x = 0 THEN 0 ELSE NetBenefit(x, 0)

Counted ==
  [compress |-> tally.compress + (IF dec = 0 THEN 0 ELSE 1),
   bypass   |-> tally.bypass + (IF dec = 0 THEN 1 ELSE 0),
   flip     |-> tally.flip + (IF dec = orc THEN 0 ELSE 1),
   regret   |-> tally.regret + (Realised(orc) - Realised(dec))]

\* The counts, and on to the next bandwidth, payload or margin.
ScoreRow ==
  /\ who = "score"
  /\ IF bw < Len(Bandwidths)
     THEN /\ bw' = bw + 1 /\ tally' = Counted /\ who' = "decide"
          /\ UNCHANGED <<payload, margin, summary>>
     ELSE /\ bw' = 1
          /\ IF payload < Len(Payloads)
             THEN /\ payload' = payload + 1 /\ tally' = Counted /\ who' = "decide"
                  /\ UNCHANGED <<margin, summary>>
             ELSE /\ payload' = 1 /\ tally' = Zero /\ summary' = Append(summary, Counted)
                  /\ IF margin < Len(Margins) THEN margin' = margin + 1 /\ who' = "decide"
                     ELSE margin' = margin /\ who' = "done"
  /\ dec' = 0 /\ orc' = 0
  /\ UNCHANGED <<k, best, bestNet>>

PolicyNext == Look \/ Choose \/ ScoreRow

PolicySpec == PolicyInit /\ [][PolicyNext]_policyVars

-----------------------------------------------------------------------------

\* What the margin changes is whether, never what: a decision is the oracle's or a
\* bypass.  And it compresses exactly where the bandwidth is below the break-even of
\* an allowed candidate, as cost_model.py:105-124 has it, ties going to bypass.
MarginOnlyBypasses ==
  who = "score" =>
    /\ dec \in {0, orc}
    /\ \A m \in {0, Margins[margin]} :
         (IF m = 0 THEN orc ELSE dec) # 0 <=>
           \E c \in 1..NCand : Considered(c) /\ PaysBelowBreakEven(c, m)

\* "How much latency the margin gives up, and how many chunks it turns from compress
\* into bypass": a decision that was turned costs at most the margin, one that was
\* not costs nothing, and where margin 0 comes first every further bypass is a flip.
RegretIsFlips ==
  /\ 0 <= tally.regret /\ tally.regret <= tally.flip * Margins[margin]
  /\ \A j \in DOMAIN summary :
       /\ 0 <= summary[j].regret /\ summary[j].regret <= summary[j].flip * Margins[j]
       /\ summary[j].compress + summary[j].bypass = Len(Payloads) * Len(Bandwidths)
       /\ Margins[1] = 0 => summary[j].bypass = summary[1].bypass + summary[j].flip
=============================================================================
