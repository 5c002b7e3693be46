------------------------------ MODULE MCChoices ------------------------------
(* The two choices made from measured tables: which transport mode a chunk     *)
(* takes (Policy), and which predictor configuration SZ3 is credited with      *)
(* (Sz3Scan).  They share nothing; a behaviour is of one of them.              *)
EXTENDS Policy, Sz3Scan

VARIABLE part  \* "policy" or "scan"

\* Every one and every two of these: a saving, a cheaper and a dearer one, ties,
\* none at all, a free one, one that is not allowed, and passing through.
Bounded(bytes, encode, decode, ok) ==
  [mode |-> "error_bounded", bytes |-> bytes, encode |-> encode, decode |-> decode, ok |-> ok]

MCOptions == <<Bounded(4, 8, 8, TRUE), Bounded(2, 20, 10, TRUE), Bounded(2, 10, 20, TRUE),
               Bounded(5, 12, 0, TRUE), Bounded(7, 0, 0, TRUE), Bounded(9, 0, 0, TRUE),
               Bounded(1, 0, 0, FALSE),
               [Bounded(8, 0, 0, TRUE) EXCEPT !.mode = "bf16_passthrough"] >>

MCPayloads ==
  [n \in 1..72 |->
     [original |-> 8,
      candidates |-> IF n <= 8 THEN <<MCOptions[n]>>
                     ELSE <<MCOptions[(n - 1) \div 8], MCOptions[((n - 1) % 8) + 1]>>]]
MCMargins == <<0, 1, 6, 40>>
MCBandwidths == <<1, 2, 3>>

\* How many bytes a tensor takes: some predictor suits it, and NOPRED does worse,
\* as well or better than that one.
MCProfiles == [suits : {"LORENZO_REG", "INTERP", "INTERP_LORENZO"},
               predicted : {2, 4}, unpredicted : {3, 4}]
MCSize(p, c, cfg) ==
  IF cfg.algo = "NOPRED" THEN p.unpredicted
  ELSE IF /\ cfg.algo = p.suits
          /\ cfg.algo = "LORENZO_REG" \/ cfg.settings[2] = 1
       THEN p.predicted ELSE 6
MCCorpusSets == {<< >>, <<[label |-> "b0", tensors |-> << >>]>>,
                 <<[label |-> "b0", tensors |-> <<"k", "v">>],
                   [label |-> "pilot", tensors |-> <<"p">>]>>}
MCCGrid == {10}
MCKernels == {"INTERP_ALGO_CUBIC"}
MCKnobs == [Lorenzo |-> <<5, 6>>, BlockSize |-> <<5, 5, 5>>]

Init ==
  /\ PolicyInit /\ ScanInit
  /\ \/ part = "scan"
     \/ part = "policy" /\ corpora = << >>

Next ==
  \/ part = "policy" /\ PolicyNext /\ UNCHANGED <<part, scanVars>>
  \/ part = "scan" /\ ScanNext /\ UNCHANGED <<part, policyVars>>

Spec == Init /\ [][Next]_<<part, policyVars, scanVars>>
=============================================================================
