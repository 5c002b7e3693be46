----------------------------- MODULE ReuseGate ------------------------------
(***************************************************************************)
(* scripts/validate_reuse.py, the gate B0: every tensor once through fresh *)
(* buffers, then pass after pass of all caches through one pool, which is  *)
(* soiled on the way, each result against the fresh one; then corruptions  *)
(* the checker has to notice.  The codec may go wrong at any round trip,   *)
(* and may be right again when the round trip is repeated.                 *)
(***************************************************************************)
EXTENDS Buffers, SequencesExt, FiniteSetsExt

CONSTANTS
  Tensors,   \* tensors of a cache
  Passes,    \* --passes
  MaxFaults  \* bound: round trips that go wrong

ASSUME ReuseAssumption ==
  Tensors \in Nat \ {0} /\ Passes \in Nat \ {0} /\ MaxFaults \in Nat

\* The four caches as they are named on the command line: d00 and d01, each at
\* 1024 and 2048 tokens.
Caches   == 1..4
Small    == <<1, 3>>
Big      == <<2, 4>>
CGrid    == 1..2
Combos   == Caches \X (1..Tensors) \X CGrid

\* The bytes of a compressed tensor, by its cache's length and by c.
Bytes(combo) == (IF combo[1] \in Range(Big) THEN 4 ELSE 2) - combo[3] + 1
Id(combo)    == (combo[1] * Tensors + combo[2]) * 2 + combo[3]

\* A reconstruction: right; wrong in fp32 but the same in bf16; wrong in both
\* within the bound; beyond the bound; infinite; not a number.
Values == {"right", "off32", "off16", "wild", "inf", "nan"}
Faults == Values \ {"right"}

VARIABLES
  phase,     \* "fresh", "reuse", "rerun", "negative", "passed", "failed", "raised"
  c, p, n,   \* the c, the pass (or cache) and the tensor under way
  cmp, dec,  \* the pool's buffers
  ref,       \* the fresh reconstructions ("none" until there is one)
  tally,     \* the counters of the summary
  rows,      \* b0_tensor_checks.jsonl: failures and diagnostic re-runs
  faults,    \* the round trips that went wrong
  ran        \* the passes run so far: cache, c, and whether the pool was soiled

vars == <<phase, c, p, n, cmp, dec, ref, tally, rows, faults, ran>>

Init ==
  /\ phase = "fresh" /\ c = 1 /\ p = 1 /\ n = 1
  /\ cmp = Zeroed /\ dec = Nothing
  /\ ref = [combo \in Combos |-> "none"]
  /\ tally = [freshFailures |-> 0, mismatches |-> 0, nonfinite |-> 0]
  /\ rows = << >> /\ faults = {} /\ ran = << >>

-----------------------------------------------------------------------------
(* errors and torch.equal.                                                  *)

Finite(v)  == v \notin {"inf", "nan"}
Fp32Ok(v)  == Finite(v) /\ v # "wild"
Bf16(v)    == IF v = "off32" THEN "right" ELSE v

\* A NaN is equal to nothing, an infinity to itself.
Same32(v, r) == v # "nan" /\ v = r
Same16(v, r) == v # "nan" /\ Bf16(v) = Bf16(r)

\* Faulty: the delivered bf16 alone is compared.
SameDelivered(v, r) == Same16(v, r)

Same(v, r) == Same32(v, r) /\ Same16(v, r)

-----------------------------------------------------------------------------
(* roundtrip.                                                               *)

\* Faulty: the destination is not cleared.
UnclearedOut(d) == d

\* pool.cmp.zero_() and pool.dec.zero_().
Cleared(buf)  == Zeroed
ClearedOut(d) == Nothing

Compressed(buf, combo) == CopiedInto(Cleared(buf), Id(combo), Bytes(combo))

\* What the round trip returns when nothing goes wrong but what the buffers do.
Returned(buf, d, combo) ==
  IF Decoded(Compressed(buf, combo), Id(combo), Bytes(combo), ClearedOut(d)) = Id(combo)
  THEN "right" ELSE "off16"

RoundTrip(buf, d, combo, v) ==
  \/ v = Returned(buf, d, combo) /\ UNCHANGED faults
  \/ /\ Cardinality(faults) < MaxFaults /\ v \in Faults
     /\ faults' = faults \union {[phase |-> phase, c |-> c, pass |-> p, tensor |-> n]}

-----------------------------------------------------------------------------
(* fresh_baselines: a pool of its own for every combination.                *)

Fresh ==
  /\ phase = "fresh"
  /\ \E v \in Values :
       /\ RoundTrip(Zeroed, Nothing, <<p, n, c>>, v)
       /\ ref' = [ref EXCEPT ![<<p, n, c>>] = v]
       /\ tally' = IF Fp32Ok(v) THEN tally
                   ELSE [tally EXCEPT !.freshFailures = @ + 1]
  /\ \/ c = 1 /\ c' = 2 /\ UNCHANGED <<p, n, phase>>
     \/ c = 2 /\ n < Tensors /\ c' = 1 /\ n' = n + 1 /\ UNCHANGED <<p, phase>>
     \/ /\ c = 2 /\ n = Tensors /\ p < 4
        /\ c' = 1 /\ n' = 1 /\ p' = p + 1 /\ UNCHANGED phase
     \/ c = 2 /\ n = Tensors /\ p = 4 /\ c' = 1 /\ n' = 1 /\ p' = 0 /\ phase' = "reuse"
  /\ UNCHANGED <<cmp, dec, rows, ran>>

-----------------------------------------------------------------------------
(* reuse_passes: passes are numbered from 0.                                *)

Lap == <<Big[1], Small[1], Big[2], Small[2], Big[1], Big[2], Small[1], Small[2]>>
CacheOf(pass) == Lap[(pass % Len(Lap)) + 1]

\* Faulty: every fourth pass.
EveryFourth(pass) == pass % 4 = 3

Soils(pass) == pass % 3 = 2

Soiled(buf) == [of |-> Torn, extent |-> buf.extent + 8]

\* The next tensor, pass or c; after the last of them the corruptions.
Advance ==
  \/ n < Tensors /\ n' = n + 1 /\ phase' = "reuse" /\ UNCHANGED <<p, c>>
  \/ n = Tensors /\ p < Passes - 1 /\ n' = 1 /\ p' = p + 1 /\ phase' = "reuse" /\ UNCHANGED c
  \/ n = Tensors /\ p = Passes - 1 /\ c = 1 /\ n' = 1 /\ p' = 0 /\ c' = 2 /\ phase' = "reuse"
  \/ n = Tensors /\ p = Passes - 1 /\ c = 2 /\ phase' = "negative" /\ UNCHANGED <<n, p, c>>

Wrong(right) == IF right THEN 0 ELSE 1

Row(kind, v, r) ==
  [kind |-> kind, c |-> c, pass |-> p, tensor |-> n,
   equal32 |-> Same32(v, r), equal16 |-> Same16(v, r), finite |-> Finite(v)]

\* One tensor of a pass.  Every counter first, then the failure as it was seen.
Reuse ==
  /\ phase = "reuse"
  /\ LET combo == <<CacheOf(p), n, c>>
         soil  == n = 1 /\ Soils(p)
         buf   == IF soil THEN Soiled(cmp) ELSE cmp
         d     == IF soil THEN Torn ELSE dec
     IN  /\ ran' = IF n = 1 THEN Append(ran, [cache |-> combo[1], c |-> c, soiled |-> soil])
                   ELSE ran
         /\ cmp' = Compressed(buf, combo) /\ dec' = Id(combo)
         /\ \E v \in Values :
              /\ RoundTrip(buf, d, combo, v)
              /\ tally' = [freshFailures |-> tally.freshFailures,
                           mismatches |-> tally.mismatches + Wrong(Same(v, ref[combo])),
                           nonfinite  |-> tally.nonfinite + Wrong(Finite(v))]
              /\ IF Same(v, ref[combo]) /\ Finite(v)
                 THEN rows' = rows /\ Advance
                 ELSE /\ rows' = Append(rows, Row("observed", v, ref[combo]))
                      /\ phase' = "rerun" /\ UNCHANGED <<c, p, n>>
  /\ UNCHANGED ref

\* Faulty: a clean re-run takes the failure back.
Revised(log, row) ==
  IF row.equal32 /\ row.equal16 THEN [log EXCEPT ![Len(log)] = row] ELSE Append(log, row)

Recorded(log, row) == Append(log, row)

\* The diagnostic re-run: another round, whose outcome is put beside the first.
Rerun ==
  /\ phase = "rerun"
  /\ LET combo == <<CacheOf(p), n, c>>
     IN  /\ cmp' = Compressed(cmp, combo) /\ dec' = Id(combo)
         /\ \E v \in Values :
              /\ RoundTrip(cmp, dec, combo, v)
              /\ rows' = Recorded(rows, Row("rerun", v, ref[combo]))
  /\ Advance
  /\ UNCHANGED <<ref, tally, ran>>

-----------------------------------------------------------------------------
(* negative_tests and the verdict.                                          *)

\* What each corruption does to a good reconstruction; a flipped bit is seen by
\* the comparison alone, and a payload that has lost its half decodes to
\* something else.
Corruptions ==
  {[finite |-> FALSE, within |-> FALSE, same16 |-> FALSE],   \* nan, inf, -inf
   [finite |-> TRUE,  within |-> FALSE, same16 |-> FALSE],   \* beyond_eps
   [finite |-> TRUE,  within |-> TRUE,  same16 |-> FALSE]}   \* bit flip, truncation

Caught(e) == ~e.finite \/ ~e.within \/ ~e.same16

Verdict ==
  IF /\ tally.freshFailures = 0 /\ tally.mismatches = 0 /\ tally.nonfinite = 0
     /\ \A e \in Corruptions : Caught(e)
  THEN "passed" ELSE "failed"

\* The baseline of the corruptions must itself be right, by assertion.
Judge ==
  /\ phase = "negative"
  /\ \E v \in Values :
       /\ RoundTrip(Zeroed, Nothing, <<1, 1, 2>>, v)
       /\ phase' = IF Fp32Ok(v) THEN Verdict ELSE "raised"
  /\ UNCHANGED <<c, p, n, cmp, dec, ref, tally, rows, ran>>

Ended == phase \in {"passed", "failed", "raised"} /\ UNCHANGED vars

Next == Fresh \/ Reuse \/ Rerun \/ Judge \/ Ended

Spec == Init /\ [][Next]_vars

-----------------------------------------------------------------------------

\* A B0 that passed had every round trip of both its parts right, the pool's and
\* the fresh buffers': no error below half an ulp of bf16, none that came and went,
\* none in the reference itself.
PassedMeansNoFault ==
  phase = "passed" => \A f \in faults : f.phase = "negative"

\* The pool never makes a right codec wrong: what one tensor, one c or the soiling
\* left in the buffers reaches no result.
FailedMeansFault == phase \in {"failed", "raised"} => faults # {}

\* "The failure as it happened is written first and is never revised": every round
\* trip of the pool that went wrong against a right reference stays on record, with
\* its re-run behind it.  And the counters are of the record: the mismatches are the
\* observed rows that differ from the reference, and the non-finite ones are counted
\* whether they differ or not -- an infinity equal to the reference's own is observed
\* without being a mismatch.
Observed(row) == row.kind = "observed"
Equal(row)    == row.equal32 /\ row.equal16

ObservedIsKept ==
  /\ \A f \in faults :
       (f.phase = "reuse" /\ ref[<<CacheOf(f.pass), f.tensor, f.c>>] = "right") =>
         \E k \in DOMAIN rows :
           /\ Observed(rows[k]) /\ rows[k].c = f.c
           /\ rows[k].pass = f.pass /\ rows[k].tensor = f.tensor
           /\ k < Len(rows) \/ phase = "rerun"
  /\ Cardinality({k \in DOMAIN rows : Observed(rows[k]) /\ ~Equal(rows[k])}) = tally.mismatches
  /\ Cardinality({k \in DOMAIN rows : Observed(rows[k]) /\ ~rows[k].finite}) = tally.nonfinite

\* "An order that forces large->small->large and same-length-different-content": for
\* every c each length follows the other, each cache follows the other of its length
\* or is followed by it, and each cache has met the soiled pool.
HardCasesMet ==
  phase \in {"negative", "passed", "failed", "raised"} =>
    \A e \in CGrid :
      LET follows(a, b) ==
            \E k \in 1..(Len(ran) - 1) : /\ ran[k].c = e /\ ran[k + 1].c = e
                                         /\ ran[k].cache \in a /\ ran[k + 1].cache \in b
      IN  /\ follows(Range(Big), Range(Small)) /\ follows(Range(Small), Range(Big))
          /\ follows({Big[1]}, {Big[2]}) /\ follows({Small[1]}, {Small[2]})
          /\ \A i \in Caches : [cache |-> i, c |-> e, soiled |-> TRUE] \in Range(ran)
=============================================================================
