------------------------------- MODULE Sz3Scan -------------------------------
(***************************************************************************)
(* scripts/sz3_full_scan.py: every tensor of every corpus under every      *)
(* reachable predictor configuration of SZ3, and under NOPRED.  Then two   *)
(* comparisons: the best configuration chosen tensor by tensor against     *)
(* NOPRED, and the best single configuration against it.  The result is    *)
(* written when all of it is there.                                        *)
(*                                                                         *)
(* The compressor is outside the repository.  All that is said of it is    *)
(* that a direction selects a permutation of the axes, and that it may     *)
(* break its bound, which ends the scan.                                   *)
(***************************************************************************)
EXTENDS Integers, Sequences, FiniteSetsExt, Functions

CONSTANTS
  CorpusSets,     \* the corpora found on disk: sequences of [label, tensors]
  Profiles,       \* how a tensor responds to the compressor
  Size(_, _, _),  \* bytes of a tensor of a profile, at a c, under a configuration
  Bf16Bytes,      \* bytes of a tensor in bf16
  CGrid,          \* C_GRID
  Kernels,        \* the interpolation kernels scanned
  Knobs           \* the INI keys probed, each with the sizes its values give

VARIABLES
  corpora, profile,  \* what is on disk, and how each tensor responds
  stage,             \* "knobs", "scan", "analysed", "written" or "raised"
  reachable,         \* the keys found to move the output
  corpus, tensor,    \* the loops' positions
  rows,              \* the runs of the corpora so far, by their keys
  result             \* the summaries, by corpus, view and c

scanVars == <<corpora, profile, stage, reachable, corpus, tensor, rows, result>>

\* Axes of each of the VIEWS.
NDim == [native_HSD |-> 3, token_major_TD |-> 2, token_contiguous_HDS |-> 3]
Views == DOMAIN NDim

\* Faulty: six directions whatever the view.
SixDirections(ndim) == 6

Directions(ndim) == CASE ndim = 1 -> 1 [] ndim = 2 -> 2 [] OTHER -> 6

\* grid().
Grid(ndim) ==
  {[algo |-> "NOPRED", settings |-> << >>]}
  \union {[algo |-> "LORENZO_REG", settings |-> s] :
            s \in {<<"Yes", "Yes">>, <<"Yes", "No">>, <<"No", "Yes">>}}
  \union {[algo |-> a, settings |-> <<q, d>>] :
            a \in {"INTERP", "INTERP_LORENZO"}, q \in Kernels, d \in 0..(Directions(ndim) - 1)}

\* A corpus is known by its label; what is compressed takes up some bytes.
ASSUME ScanAssumption ==
  /\ \A found \in CorpusSets :
       /\ found \in Seq([label : STRING, tensors : Seq(STRING)])
       /\ \A i, j \in DOMAIN found : found[i].label = found[j].label => i = j
  /\ IsFiniteSet(CGrid) /\ IsFiniteSet(Kernels)
  /\ Bf16Bytes \in Nat
  /\ \A p \in Profiles, c \in CGrid, cfg \in Grid(2) \union Grid(3) :
       Size(p, c, cfg) \in Nat \ {0}

\* What the compressor makes of a configuration: a direction counts modulo the
\* number of permutations of the axes.
Effect(cfg, ndim) ==
  IF cfg.algo \in {"INTERP", "INTERP_LORENZO"}
  THEN [cfg EXCEPT !.settings[2] = @ % (IF ndim = 2 THEN 2 ELSE 6)] ELSE cfg

Tag(cfg) == <<cfg.algo>> \o cfg.settings

\* The row of one run, under its key.
Ratio(t, view, c, cfg) == Bf16Bytes \div Size(profile[t], c, Effect(cfg, NDim[view]))
Run(label, t, view, c, cfg) ==
  [key |-> <<label, t, view, c, Tag(cfg)>>, label |-> label, tensor |-> t, view |-> view,
   c |-> c, cfg |-> cfg, ratio |-> Ratio(t, view, c, cfg)]

\* The three views, C_GRID and the grid.
Scanned(label, t) ==
  UNION {{Run(label, t, view, c, cfg) : c \in CGrid, cfg \in Grid(NDim[view])} : view \in Views}

-----------------------------------------------------------------------------
(* The analysis, over the runs of one corpus, view and c.                   *)

RunsOf(label, view, c) == {r \in rows : r.label = label /\ r.view = view /\ r.c = c}
TensorsOf(S) == {r.tensor : r \in S}

NoPred(S, t) == (CHOOSE r \in S : r.tensor = t /\ r.cfg.algo = "NOPRED").ratio

\* Faulty: NOPRED is in the oracle's search.
EveryRun(S, t) == {r \in S : r.tensor = t}

Predictors(S, t) == {r \in S : r.tensor = t /\ r.cfg.algo # "NOPRED"}

OracleRatio(S, t) == Max({r.ratio : r \in Predictors(S, t)})

\* oracle_vs_frozen: how often NOPRED beats the best configuration of a tensor.
Wins(S) == Cardinality({t \in TensorsOf(S) : NoPred(S, t) > OracleRatio(S, t)})

\* frozen_choice: means over the same tensors compare as sums do.
Total(S, cfg) ==
  LET of == {r \in S : r.cfg = cfg} IN MapThenSumSet(LAMBDA r : r.ratio, of)

OracleTotal(S) == MapThenSumSet(LAMBDA t : OracleRatio(S, t), TensorsOf(S))

BestPredictor(S) ==
  LET cfgs == {r.cfg : r \in {q \in S : q.cfg.algo # "NOPRED"}}
  IN  CHOOSE cfg \in cfgs : \A other \in cfgs : Total(S, other) <= Total(S, cfg)

Summary(label, view, c) ==
  LET S == RunsOf(label, view, c)
  IN  [label |-> label, view |-> view, c |-> c, wins |-> Wins(S), tensors |-> TensorsOf(S),
       oracle |-> OracleTotal(S),
       nopred |-> Total(S, [algo |-> "NOPRED", settings |-> << >>]),
       best |-> Total(S, BestPredictor(S))]

-----------------------------------------------------------------------------

ScanInit ==
  /\ corpora \in CorpusSets
  /\ profile \in [UNION {Range(corpora[i].tensors) : i \in DOMAIN corpora} -> Profiles]
  /\ stage = "knobs" /\ reachable = {} /\ corpus = 1 /\ tensor = 1
  /\ rows = {} /\ result = {}

\* validate_knobs: recorded, and changes nothing of what is scanned.
ValidateKnobs ==
  /\ stage = "knobs"
  /\ reachable' = {key \in DOMAIN Knobs : Cardinality(Range(Knobs[key])) > 1}
  /\ stage' = IF corpora = << >> THEN "analysed" ELSE "scan"
  /\ UNCHANGED <<corpora, profile, corpus, tensor, rows, result>>

\* One turn of scan's loop over the tensors.
ScanTensor ==
  /\ stage = "scan" /\ tensor <= Len(corpora[corpus].tensors)
  /\ rows' = rows \union Scanned(corpora[corpus].label, corpora[corpus].tensors[tensor])
  /\ tensor' = tensor + 1
  /\ UNCHANGED <<corpora, profile, stage, reachable, corpus, result>>

\* The summaries of a corpus; one without tensors has no minimum to report.
Analyse ==
  /\ stage = "scan" /\ tensor > Len(corpora[corpus].tensors)
  /\ IF corpora[corpus].tensors = << >>
     THEN stage' = "raised" /\ UNCHANGED <<corpus, tensor, result>>
     ELSE /\ result' = result \union
               {Summary(corpora[corpus].label, view, c) : view \in Views, c \in CGrid}
          /\ IF corpus < Len(corpora)
             THEN corpus' = corpus + 1 /\ tensor' = 1 /\ stage' = stage
             ELSE stage' = "analysed" /\ UNCHANGED <<corpus, tensor>>
  /\ UNCHANGED <<corpora, profile, reachable, rows>>

\* sz3_run: an error above the bound ends the scan.
BoundBroken ==
  /\ stage = "knobs" \/ (stage = "scan" /\ tensor <= Len(corpora[corpus].tensors))
  /\ stage' = "raised"
  /\ UNCHANGED <<corpora, profile, reachable, corpus, tensor, rows, result>>

WriteResult ==
  /\ stage = "analysed"
  /\ stage' = "written"
  /\ UNCHANGED <<corpora, profile, reachable, corpus, tensor, rows, result>>

ScanNext == ValidateKnobs \/ ScanTensor \/ Analyse \/ BoundBroken \/ WriteResult

ScanSpec == ScanInit /\ [][ScanNext]_scanVars

-----------------------------------------------------------------------------

\* What a written result says is a fair handicap (sz3_full_scan.py:17-24).  The
\* oracle's search holds no configuration twice and loses no run to another's key;
\* it is of the predictors alone, so a win of NOPRED is a win over every one of
\* them; and it bounds the deployable choice, so if NOPRED wins on every tensor no
\* single predictor reaches it either.
HandicapIsFair ==
  stage = "written" =>
    /\ \A r, q \in rows :
         r # q => r.key # q.key /\
           (<<r.label, r.tensor, r.view, r.c>> = <<q.label, q.tensor, q.view, q.c>> =>
              Effect(r.cfg, NDim[r.view]) # Effect(q.cfg, NDim[r.view]))
    /\ Cardinality(result) = Len(corpora) * Cardinality(Views) * Cardinality(CGrid)
    /\ \A s \in result :
         LET S == RunsOf(s.label, s.view, s.c)
             beats(t) == \A r, q \in S : (/\ r.tensor = t /\ q.tensor = t
                                          /\ r.cfg.algo = "NOPRED" /\ q.cfg.algo # "NOPRED")
                                           => r.ratio > q.ratio
         IN  /\ s.wins = Cardinality({t \in s.tensors : beats(t)})
             /\ s.best <= s.oracle
             /\ s.wins = Cardinality(s.tensors) => s.nopred > s.best
=============================================================================
