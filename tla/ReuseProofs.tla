----------------------------- MODULE ReuseProofs -----------------------------
(***************************************************************************)
(* The gate B0, for every number of tensors, of passes and of round trips  *)
(* that go wrong: the pool fails no codec that is right, and every round   *)
(* trip of the pool that went wrong is on record.                          *)
(***************************************************************************)
EXTENDS ReuseGate, FiniteSetTheorems, SequenceTheorems, TLAPS

Phases == {"fresh", "reuse", "rerun", "negative", "passed", "failed", "raised"}

RowSet == [kind : {"observed", "rerun"}, c : CGrid, pass : Nat, tensor : Nat,
           equal32 : BOOLEAN, equal16 : BOOLEAN, finite : BOOLEAN]

TypeInv ==
  /\ phase \in Phases
  /\ DOMAIN ref = Combos
  /\ tally \in [freshFailures : Nat, mismatches : Nat, nonfinite : Nat]
  /\ rows \in Seq(RowSet)
  /\ phase \in {"fresh", "reuse", "rerun"} => n \in 1..Tensors /\ c \in CGrid
  /\ phase = "fresh" => p \in Caches
  /\ phase \in {"reuse", "rerun"} => p \in 0..(Passes - 1)

\* The combinations fresh_baselines has been through.
Past(combo) ==
  \/ combo[1] < p
  \/ combo[1] = p /\ combo[2] < n
  \/ combo[1] = p /\ combo[2] = n /\ combo[3] < c

\* While nothing has gone wrong, everything found was right.
CleanInv ==
  faults = {} =>
    /\ \A combo \in Combos : (phase = "fresh" => Past(combo)) => ref[combo] = "right"
    /\ tally = [freshFailures |-> 0, mismatches |-> 0, nonfinite |-> 0]
    /\ phase \notin {"rerun", "failed", "raised"}

\* The rows the two counters are of.
Differing == {k \in DOMAIN rows : Observed(rows[k]) /\ ~Equal(rows[k])}
NonFinite == {k \in DOMAIN rows : Observed(rows[k]) /\ ~rows[k].finite}

OnRecord(f) ==
  \E k \in DOMAIN rows :
    /\ rows[k].kind = "observed" /\ rows[k].c = f.c
    /\ rows[k].pass = f.pass /\ rows[k].tensor = f.tensor
    /\ k < Len(rows) \/ phase = "rerun"

RecordInv ==
  /\ phase = "fresh" => \A f \in faults : f.phase # "reuse"
  /\ \A f \in faults :
       (f.phase = "reuse" /\ ref[<<CacheOf(f.pass), f.tensor, f.c>>] = "right") => OnRecord(f)
  /\ Cardinality(Differing) = tally.mismatches
  /\ Cardinality(NonFinite) = tally.nonfinite

IInv == TypeInv /\ CleanInv /\ RecordInv

\* The passes run so far are the laps' in order, first for one c and then the other.
RanStart(e) == IF e = 1 THEN 0 ELSE Passes

RanEntry(q, e) == [cache |-> CacheOf(q), c |-> e, soiled |-> Soils(q)]

RanSet == [cache : Caches, c : CGrid, soiled : BOOLEAN]

RanInv ==
  /\ ran \in Seq(RanSet)
  /\ phase = "fresh" => ran = << >>
  /\ phase = "reuse" => Len(ran) = RanStart(c) + p + (IF n = 1 THEN 0 ELSE 1)
  /\ phase = "rerun" => Len(ran) = RanStart(c) + p + 1
  /\ phase \notin {"fresh", "reuse", "rerun"} => Len(ran) = 2 * Passes
  /\ \A e \in CGrid : \A q \in 0..(Passes - 1) :
       RanStart(e) + q + 1 \in DOMAIN ran => ran[RanStart(e) + q + 1] = RanEntry(q, e)

\* Has the pool been through tensor t at c e in pass q?
Visited(q, t, e) ==
  /\ phase # "fresh"
  /\ phase \in {"reuse", "rerun"} => e < c \/ (e = c /\ (q < p \/ (q = p /\ t < n)))

NoFailure == tally.freshFailures = 0 /\ tally.mismatches = 0 /\ tally.nonfinite = 0

FreshFault(combo) ==
  [phase |-> "fresh", c |-> combo[3], pass |-> combo[1], tensor |-> combo[2]]
ReuseFault(combo, q) ==
  [phase |-> "reuse", c |-> combo[3], pass |-> q, tensor |-> combo[2]]

\* A wrong reference goes unseen only while the pool is wrong in the same way every
\* time it is through that tensor.
Unseen(combo) ==
  /\ FreshFault(combo) \in faults
  /\ \A q \in 0..(Passes - 1) :
       CacheOf(q) = combo[1] /\ Visited(q, combo[2], combo[3]) => ReuseFault(combo, q) \in faults

MissedInv ==
  /\ IsFiniteSet(faults) /\ Cardinality(faults) <= MaxFaults
  /\ \A combo \in Combos :
       ref[combo] \in Values \union {"none"} /\ (ref[combo] = "none" <=> phase = "fresh" /\ ~Past(combo))
  /\ phase = "passed" => NoFailure
  /\ NoFailure =>
       /\ phase # "rerun"
       /\ \A combo \in Combos : ref[combo] \in Faults => Unseen(combo)
       /\ (\E f \in faults : f.phase # "negative") => \E combo \in Combos : ref[combo] \in Faults

-----------------------------------------------------------------------------

\* Whatever a tensor finds in the pool, a right round trip over it is right: the
\* buffers are cleared before each one.
LEMMA PoolReturnsRight ==
  ASSUME NEW buf, NEW d, NEW combo, combo[3] \in CGrid
  PROVE  Returned(buf, d, combo) = "right"
<1>1. Bytes(combo) \in Nat
  BY DEF Bytes, CGrid
<1>2. Compressed(buf, combo) = [of |-> Id(combo), extent |-> Bytes(combo)]
  BY <1>1 DEF Compressed, CopiedInto, Cleared, Zeroed, Further
<1>. QED BY <1>2 DEF Returned, Decoded, ClearedOut

\* One round trip: right, or on the list of those that went wrong.
LEMMA RoundTripIs ==
  ASSUME NEW buf, NEW d, NEW combo, NEW v, combo[3] \in CGrid, RoundTrip(buf, d, combo, v)
  PROVE  \/ v = "right" /\ faults' = faults
         \/ /\ v # "right"
            /\ faults' = faults \union {[phase |-> phase, c |-> c, pass |-> p, tensor |-> n]}
<1>. QED BY PoolReturnsRight DEF RoundTrip, Faults

LEMMA Placed ==
  ASSUME TypeInv, phase \in {"reuse", "rerun"}
  PROVE  <<CacheOf(p), n, c>> \in Combos /\ <<CacheOf(p), n, c>>[3] = c
<1>1. p % 8 \in 0..7
  BY ReuseAssumption DEF TypeInv
<1>2. CacheOf(p) \in Caches
  BY <1>1 DEF CacheOf, Lap, Big, Small, Caches
<1>. QED BY <1>2 DEF TypeInv, Combos

LEMMA AdvanceTypes ==
  ASSUME TypeInv, phase \in {"reuse", "rerun"}, Advance
  PROVE  /\ phase' \in {"reuse", "negative"}
         /\ phase' = "reuse" =>
              n' \in 1..Tensors /\ c' \in CGrid /\ p' \in 0..(Passes - 1)
<1>1. /\ n \in 1..Tensors /\ c \in {1, 2} /\ p \in 0..(Passes - 1)
      /\ Tensors \in Nat \ {0} /\ Passes \in Nat \ {0}
  BY ReuseAssumption DEF TypeInv, CGrid
<1>2. CASE n < Tensors
  BY <1>1, <1>2 DEF Advance, CGrid
<1>3. CASE n = Tensors /\ p < Passes - 1
  <2>1. n' = 1 /\ p' = p + 1 /\ phase' = "reuse" /\ c' = c
    BY <1>1, <1>3 DEF Advance
  <2>2. 1 \in 1..Tensors /\ p + 1 \in 0..(Passes - 1)
    BY <1>1, <1>3
  <2>. QED BY <1>1, <2>1, <2>2 DEF CGrid
<1>4. CASE n = Tensors /\ p = Passes - 1 /\ c = 1
  <2>1. n' = 1 /\ p' = 0 /\ phase' = "reuse" /\ c' = 2
    BY <1>1, <1>4 DEF Advance
  <2>2. 1 \in 1..Tensors /\ 0 \in 0..(Passes - 1)
    BY <1>1
  <2>. QED BY <2>1, <2>2 DEF CGrid
<1>5. CASE n = Tensors /\ p = Passes - 1 /\ c = 2
  BY <1>1, <1>5 DEF Advance, CGrid
<1>. QED BY <1>1, <1>2, <1>3, <1>4, <1>5

\* What a row added to the file changes of the counts and of what is on record.
LEMMA RowAdded ==
  ASSUME TypeInv, NEW row \in RowSet, rows' = Append(rows, row)
  PROVE  /\ rows' \in Seq(RowSet)
         /\ Len(rows') = Len(rows) + 1 /\ Len(rows) \in Nat
         /\ DOMAIN rows' = 1..(Len(rows) + 1) /\ DOMAIN rows = 1..Len(rows)
         /\ \A k \in DOMAIN rows : rows'[k] = rows[k] /\ k \in DOMAIN rows' /\ k < Len(rows')
         /\ rows'[Len(rows) + 1] = row
         /\ Cardinality(Differing') =
              Cardinality(Differing) + (IF Observed(row) /\ ~Equal(row) THEN 1 ELSE 0)
         /\ Cardinality(NonFinite') =
              Cardinality(NonFinite) + (IF Observed(row) /\ ~row.finite THEN 1 ELSE 0)
<1>1. rows \in Seq(RowSet)
  BY DEF TypeInv
<1>2. /\ rows' \in Seq(RowSet) /\ Len(rows') = Len(rows) + 1
      /\ \A k \in 1..Len(rows) : rows'[k] = rows[k]
      /\ rows'[Len(rows) + 1] = row
  BY <1>1, AppendProperties
<1>3. Len(rows) \in Nat /\ DOMAIN rows = 1..Len(rows) /\ DOMAIN rows' = 1..(Len(rows) + 1)
  BY <1>1, <1>2
<1>4. \A k \in DOMAIN rows : rows'[k] = rows[k] /\ k \in DOMAIN rows' /\ k < Len(rows')
  BY <1>2, <1>3
<1>5. DOMAIN rows' = DOMAIN rows \union {Len(rows) + 1} /\ Len(rows) + 1 \notin DOMAIN rows
  BY <1>3
<1>6. IsFiniteSet(1..Len(rows))
  BY <1>3, FS_Interval
<1>7. Cardinality(Differing') =
        Cardinality(Differing) + (IF Observed(row) /\ ~Equal(row) THEN 1 ELSE 0)
  <2>1. IsFiniteSet(Differing) /\ Cardinality(Differing) \in Nat
    <3>1. Differing \subseteq 1..Len(rows)
      BY <1>3 DEF Differing
    <3>. QED BY <1>6, <3>1, FS_Subset, FS_CardinalityType
  <2>2. CASE Observed(row) /\ ~Equal(row)
    <3>1. Differing' = Differing \union {Len(rows) + 1} /\ Len(rows) + 1 \notin Differing
      BY <1>2, <1>4, <1>5, <2>2 DEF Differing
    <3>. QED BY <2>1, <2>2, <3>1, FS_AddElement
  <2>3. CASE ~(Observed(row) /\ ~Equal(row))
    <3>1. Differing' = Differing
      BY <1>2, <1>4, <1>5, <2>3 DEF Differing
    <3>. QED BY <2>1, <2>3, <3>1
  <2>. QED BY <2>2, <2>3
<1>8. Cardinality(NonFinite') =
        Cardinality(NonFinite) + (IF Observed(row) /\ ~row.finite THEN 1 ELSE 0)
  <2>1. IsFiniteSet(NonFinite) /\ Cardinality(NonFinite) \in Nat
    <3>1. NonFinite \subseteq 1..Len(rows)
      BY <1>3 DEF NonFinite
    <3>. QED BY <1>6, <3>1, FS_Subset, FS_CardinalityType
  <2>2. CASE Observed(row) /\ ~row.finite
    <3>1. NonFinite' = NonFinite \union {Len(rows) + 1} /\ Len(rows) + 1 \notin NonFinite
      BY <1>2, <1>4, <1>5, <2>2 DEF NonFinite
    <3>. QED BY <2>1, <2>2, <3>1, FS_AddElement
  <2>3. CASE ~(Observed(row) /\ ~row.finite)
    <3>1. NonFinite' = NonFinite
      BY <1>2, <1>4, <1>5, <2>3 DEF NonFinite
    <3>. QED BY <2>1, <2>3, <3>1
  <2>. QED BY <2>2, <2>3
<1>. QED BY <1>2, <1>3, <1>4, <1>7, <1>8

\* What was on record stays there, and is no longer the last row once another one
\* has been added.
LEMMA StaysOnRecord ==
  ASSUME TypeInv, NEW f, OnRecord(f), NEW row \in RowSet, rows' = Append(rows, row)
  PROVE  OnRecord(f)'
<1>1. PICK k \in DOMAIN rows :
        /\ rows[k].kind = "observed" /\ rows[k].c = f.c
        /\ rows[k].pass = f.pass /\ rows[k].tensor = f.tensor
  BY DEF OnRecord
<1>2. rows'[k] = rows[k] /\ k \in DOMAIN rows' /\ k < Len(rows')
  BY RowAdded
<1>. QED BY <1>1, <1>2 DEF OnRecord

-----------------------------------------------------------------------------

LEMMA InitIInv == Init => IInv
<1> SUFFICES ASSUME Init PROVE IInv
  OBVIOUS
<1>1. TypeInv
  BY ReuseAssumption DEF Init, TypeInv, Phases, Caches, CGrid
<1>2. CleanInv
  <2>1. \A combo \in Combos : ~Past(combo)
    BY ReuseAssumption DEF Init, Past, Combos, Caches, CGrid
  <2>. QED BY <2>1 DEF Init, CleanInv
<1>3. RecordInv
  <2>1. Differing = {} /\ NonFinite = {}
    BY DEF Init, Differing, NonFinite
  <2>. QED BY <2>1, FS_EmptySet DEF Init, RecordInv
<1>. QED BY <1>1, <1>2, <1>3 DEF IInv

LEMMA FreshKeeps ==
  ASSUME IInv, Fresh
  PROVE  IInv'
<1>0. TypeInv /\ CleanInv /\ RecordInv /\ phase = "fresh"
  BY DEF IInv, Fresh
<1>1. /\ p \in 1..4 /\ n \in 1..Tensors /\ c \in {1, 2} /\ Tensors \in Nat \ {0}
      /\ Passes \in Nat \ {0} /\ DOMAIN ref = Combos
      /\ <<p, n, c>> \in Combos /\ <<p, n, c>>[3] \in CGrid
  BY <1>0, ReuseAssumption DEF TypeInv, Caches, CGrid, Combos
<1>2. PICK v \in Values :
        /\ RoundTrip(Zeroed, Nothing, <<p, n, c>>, v)
        /\ ref' = [ref EXCEPT ![<<p, n, c>>] = v]
        /\ tally' = IF Fp32Ok(v) THEN tally
                    ELSE [tally EXCEPT !.freshFailures = @ + 1]
  BY DEF Fresh
<1>3. rows' = rows
  BY DEF Fresh
<1>4. \/ c = 1 /\ c' = 2 /\ p' = p /\ n' = n /\ phase' = phase
      \/ c = 2 /\ n < Tensors /\ c' = 1 /\ n' = n + 1 /\ p' = p /\ phase' = phase
      \/ c = 2 /\ n = Tensors /\ p < 4 /\ c' = 1 /\ n' = 1 /\ p' = p + 1 /\ phase' = phase
      \/ c = 2 /\ n = Tensors /\ p = 4 /\ c' = 1 /\ n' = 1 /\ p' = 0 /\ phase' = "reuse"
  BY DEF Fresh
<1>5. \/ v = "right" /\ faults' = faults
      \/ /\ v # "right"
         /\ faults' = faults \union {[phase |-> phase, c |-> c, pass |-> p, tensor |-> n]}
  BY <1>1, <1>2, RoundTripIs
<1>6. TypeInv'
  <2>1. phase' \in {"fresh", "reuse"} /\ DOMAIN ref' = Combos
    BY <1>0, <1>1, <1>2, <1>4
  <2>2. n' \in 1..Tensors /\ c' \in CGrid
    BY <1>1, <1>4 DEF CGrid
  <2>3. phase' = "fresh" => p' \in Caches
    BY <1>0, <1>1, <1>4 DEF Caches
  <2>4. phase' = "reuse" => p' \in 0..(Passes - 1)
    BY <1>0, <1>1, <1>4
  <2>5. tally' \in [freshFailures : Nat, mismatches : Nat, nonfinite : Nat]
    BY <1>0, <1>2 DEF TypeInv
  <2>. QED BY <1>0, <1>3, <2>1, <2>2, <2>3, <2>4, <2>5 DEF TypeInv, Phases
<1>7. CleanInv'
  <2>1. SUFFICES ASSUME faults' = {} PROVE CleanInv'
    BY DEF CleanInv
  <2>2. v = "right" /\ faults = {}
    BY <1>5, <2>1
  <2>3. tally' = [freshFailures |-> 0, mismatches |-> 0, nonfinite |-> 0]
    BY <1>0, <1>2, <2>2 DEF CleanInv, Fp32Ok, Finite
  <2>4. ASSUME NEW combo \in Combos, phase' = "fresh" => Past(combo)'
        PROVE  ref'[combo] = "right"
    <3>1. CASE combo = <<p, n, c>>
      BY <1>1, <1>2, <2>2, <3>1
    <3>2. CASE combo # <<p, n, c>>
      <4>1. ref'[combo] = ref[combo]
        BY <1>1, <1>2, <3>2
      <4>2. PICK x \in 1..4, y \in 1..Tensors, z \in {1, 2} : combo = <<x, y, z>>
        BY DEF Combos, Caches, CGrid
      <4>3. x # p \/ y # n \/ z # c
        BY <3>2, <4>2
      <4>4. Past(combo)
        <5>1. phase' = "fresh" => \/ x < p'
                                  \/ x = p' /\ y < n'
                                  \/ x = p' /\ y = n' /\ z < c'
          BY <2>4, <4>2 DEF Past
        <5>2. \/ x < p
              \/ x = p /\ y < n
              \/ x = p /\ y = n /\ z < c
          BY <1>0, <1>1, <1>4, <4>2, <4>3, <5>1
        <5>. QED BY <4>2, <5>2 DEF Past
      <4>. QED BY <1>0, <2>2, <4>1, <4>4 DEF CleanInv
    <3>. QED BY <3>1, <3>2
  <2>5. phase' \in {"fresh", "reuse"}
    BY <1>0, <1>4
  <2>. QED BY <2>3, <2>4, <2>5 DEF CleanInv
<1>8. RecordInv'
  <2>1. \A f \in faults' : f.phase # "reuse"
    BY <1>0, <1>5 DEF RecordInv
  <2>2. tally'.mismatches = tally.mismatches /\ tally'.nonfinite = tally.nonfinite
    BY <1>0, <1>2 DEF TypeInv
  <2>3. Differing' = Differing /\ NonFinite' = NonFinite
    BY <1>3 DEF Differing, NonFinite
  <2>. QED BY <1>0, <2>1, <2>2, <2>3 DEF RecordInv
<1>. QED BY <1>6, <1>7, <1>8 DEF IInv

LEMMA ReuseKeeps ==
  ASSUME IInv, Reuse
  PROVE  IInv'
<1> DEFINE combo == <<CacheOf(p), n, c>>
           r == ref[combo]
           fault == [phase |-> phase, c |-> c, pass |-> p, tensor |-> n]
<1>0. TypeInv /\ CleanInv /\ RecordInv /\ phase = "reuse" /\ ref' = ref
  BY DEF IInv, Reuse
<1>1. combo \in Combos /\ combo[3] = c /\ c \in CGrid /\ n \in Nat /\ p \in Nat
  BY <1>0, Placed, ReuseAssumption DEF TypeInv
<1>2. PICK v \in Values, buf \in {cmp, Soiled(cmp)}, d \in {dec, Torn} :
        /\ RoundTrip(buf, d, combo, v)
        /\ tally' = [freshFailures |-> tally.freshFailures,
                     mismatches |-> tally.mismatches + Wrong(Same(v, r)),
                     nonfinite  |-> tally.nonfinite + Wrong(Finite(v))]
        /\ IF Same(v, r) /\ Finite(v)
           THEN rows' = rows /\ Advance
           ELSE /\ rows' = Append(rows, Row("observed", v, r))
                /\ phase' = "rerun" /\ UNCHANGED <<c, p, n>>
  BY DEF Reuse
<1>3. \/ v = "right" /\ faults' = faults
      \/ v # "right" /\ faults' = faults \union {fault}
  BY <1>1, <1>2, RoundTripIs
<1>4. Same(v, r) => v = r
  BY DEF Same, Same32
<1>5. Row("observed", v, r) \in RowSet
  <2>1. Same32(v, r) \in BOOLEAN /\ Same16(v, r) \in BOOLEAN /\ Finite(v) \in BOOLEAN
    BY DEF Same32, Same16, Finite
  <2>. QED BY <1>1, <2>1 DEF Row, RowSet
<1>6. tally' \in [freshFailures : Nat, mismatches : Nat, nonfinite : Nat]
      /\ tally'.mismatches = tally.mismatches + (IF Same(v, r) THEN 0 ELSE 1)
      /\ tally'.nonfinite = tally.nonfinite + (IF Finite(v) THEN 0 ELSE 1)
  <2>1. tally \in [freshFailures : Nat, mismatches : Nat, nonfinite : Nat]
    BY <1>0 DEF TypeInv
  <2>2. Wrong(Same(v, r)) \in Nat /\ Wrong(Finite(v)) \in Nat
    BY DEF Wrong
  <2>3. /\ Wrong(Same(v, r)) = IF Same(v, r) THEN 0 ELSE 1
        /\ Wrong(Finite(v)) = IF Finite(v) THEN 0 ELSE 1
    BY DEF Wrong
  <2>. QED BY <1>2, <2>1, <2>2, <2>3
<1>7. CASE Same(v, r) /\ Finite(v)
  <2>1. rows' = rows /\ Advance
    BY <1>2, <1>7
  <2>2. /\ phase' \in {"reuse", "negative"}
        /\ phase' = "reuse" => n' \in 1..Tensors /\ c' \in CGrid /\ p' \in 0..(Passes - 1)
    BY <1>0, <2>1, AdvanceTypes
  <2>3. TypeInv'
    BY <1>0, <1>6, <2>1, <2>2 DEF TypeInv, Phases
  <2>4. CleanInv'
    <3>1. SUFFICES ASSUME faults' = {} PROVE CleanInv'
      BY DEF CleanInv
    <3>2. v = "right" /\ faults = {}
      BY <1>3, <3>1
    <3>3. tally' = [freshFailures |-> 0, mismatches |-> 0, nonfinite |-> 0]
      <4>1. tally = [freshFailures |-> 0, mismatches |-> 0, nonfinite |-> 0]
        BY <1>0, <3>2 DEF CleanInv
      <4>2. Wrong(Same(v, r)) = 0 /\ Wrong(Finite(v)) = 0
        BY <1>7 DEF Wrong
      <4>. QED BY <1>2, <4>1, <4>2
    <3>4. \A x \in Combos : ref'[x] = "right"
      BY <1>0, <3>2 DEF CleanInv
    <3>. QED BY <2>2, <3>3, <3>4 DEF CleanInv
  <2>5. RecordInv'
    <3>1. ASSUME NEW f \in faults', f.phase = "reuse",
                 ref[<<CacheOf(f.pass), f.tensor, f.c>>] = "right"
          PROVE  OnRecord(f)'
      <4>1. CASE f \in faults
        <5>1. OnRecord(f)
          BY <1>0, <3>1, <4>1 DEF RecordInv
        <5>. QED BY <1>0, <2>1, <5>1 DEF OnRecord
      <4>2. CASE f \notin faults
        <5>1. f = fault /\ v # "right"
          BY <1>3, <4>2
        <5>2. r = "right"
          BY <3>1, <5>1
        <5>. QED BY <1>4, <1>7, <5>1, <5>2
      <4>. QED BY <4>1, <4>2
    <3>2. Differing' = Differing /\ NonFinite' = NonFinite
      BY <2>1 DEF Differing, NonFinite
    <3>3. tally'.mismatches = tally.mismatches /\ tally'.nonfinite = tally.nonfinite
      BY <1>0, <1>6, <1>7 DEF TypeInv
    <3>. QED BY <1>0, <2>2, <3>1, <3>2, <3>3 DEF RecordInv
  <2>. QED BY <2>3, <2>4, <2>5 DEF IInv
<1>8. CASE ~(Same(v, r) /\ Finite(v))
  <2>1. /\ rows' = Append(rows, Row("observed", v, r)) /\ phase' = "rerun"
        /\ c' = c /\ p' = p /\ n' = n
    BY <1>2, <1>8
  <2>2. Row("observed", v, r) = [kind |-> "observed", c |-> c, pass |-> p, tensor |-> n,
                                 equal32 |-> Same32(v, r), equal16 |-> Same16(v, r),
                                 finite |-> Finite(v)]
    BY DEF Row
  <2> DEFINE row == Row("observed", v, r)
  <2>3. /\ row.kind = "observed" /\ row.c = c /\ row.pass = p /\ row.tensor = n
        /\ Observed(row) /\ (Equal(row) <=> Same(v, r)) /\ row.finite = Finite(v)
    BY <2>2 DEF Observed, Equal, Same
  <2>4. /\ rows' \in Seq(RowSet) /\ Len(rows) + 1 \in DOMAIN rows' /\ rows'[Len(rows) + 1] = row
        /\ Cardinality(Differing') = Cardinality(Differing) + (IF Same(v, r) THEN 0 ELSE 1)
        /\ Cardinality(NonFinite') = Cardinality(NonFinite) + (IF Finite(v) THEN 0 ELSE 1)
    <3>. HIDE DEF row
    <3>1. row \in RowSet /\ rows' = Append(rows, row)
      BY <1>5, <2>1 DEF row
    <3>2. /\ rows' \in Seq(RowSet) /\ Len(rows) \in Nat /\ DOMAIN rows' = 1..(Len(rows) + 1)
          /\ rows'[Len(rows) + 1] = row
          /\ Cardinality(Differing') =
               Cardinality(Differing) + (IF Observed(row) /\ ~Equal(row) THEN 1 ELSE 0)
          /\ Cardinality(NonFinite') =
               Cardinality(NonFinite) + (IF Observed(row) /\ ~row.finite THEN 1 ELSE 0)
      BY <1>0, <3>1, RowAdded
    <3>. QED BY <2>3, <3>2
  <2>5. TypeInv'
    BY <1>0, <1>6, <2>1, <2>4 DEF TypeInv, Phases
  <2>6. CleanInv'
    <3>1. SUFFICES ASSUME faults' = {} PROVE FALSE
      BY DEF CleanInv
    <3>2. v = "right" /\ faults = {}
      BY <1>3, <3>1
    <3>3. r = "right"
      BY <1>0, <1>1, <3>2 DEF CleanInv
    <3>. QED BY <1>8, <3>2, <3>3 DEF Same, Same32, Same16, Finite
  <2>7. RecordInv'
    <3>1. ASSUME NEW f \in faults', f.phase = "reuse",
                 ref[<<CacheOf(f.pass), f.tensor, f.c>>] = "right"
          PROVE  OnRecord(f)'
      <4>1. CASE f \in faults
        <5>1. OnRecord(f)
          BY <1>0, <3>1, <4>1 DEF RecordInv
        <5>. QED BY <1>0, <1>5, <2>1, <5>1, StaysOnRecord
      <4>2. CASE f \notin faults
        <5>1. f = fault
          BY <1>3, <4>2
        <5>2. f.c = c /\ f.pass = p /\ f.tensor = n
          BY <5>1
        <5>. HIDE DEF row
        <5>. QED BY <2>1, <2>3, <2>4, <5>2 DEF OnRecord
      <4>. QED BY <4>1, <4>2
    <3>2. Cardinality(Differing') = tally'.mismatches /\ Cardinality(NonFinite') = tally'.nonfinite
      BY <1>0, <1>6, <2>4 DEF RecordInv
    <3>. QED BY <1>0, <2>1, <3>1, <3>2 DEF RecordInv
  <2>. QED BY <2>5, <2>6, <2>7 DEF IInv
<1>. QED BY <1>7, <1>8

LEMMA RerunKeeps ==
  ASSUME IInv, Rerun
  PROVE  IInv'
<1> DEFINE combo == <<CacheOf(p), n, c>>
           r == ref[combo]
<1>0. TypeInv /\ CleanInv /\ RecordInv /\ phase = "rerun" /\ ref' = ref /\ tally' = tally
  BY DEF IInv, Rerun
<1>1. combo \in Combos /\ combo[3] = c /\ c \in CGrid /\ n \in Nat /\ p \in Nat
  BY <1>0, Placed, ReuseAssumption DEF TypeInv
<1>2. PICK v \in Values :
        /\ RoundTrip(cmp, dec, combo, v)
        /\ rows' = Append(rows, Row("rerun", v, r))
  BY DEF Rerun, Recorded
<1>3. \/ faults' = faults
      \/ faults' = faults \union {[phase |-> phase, c |-> c, pass |-> p, tensor |-> n]}
  BY <1>1, <1>2, RoundTripIs
<1>4. /\ phase' \in {"reuse", "negative"}
      /\ phase' = "reuse" => n' \in 1..Tensors /\ c' \in CGrid /\ p' \in 0..(Passes - 1)
  <2>1. Advance
    BY DEF Rerun
  <2>. QED BY <1>0, <2>1, AdvanceTypes
<1>5. Row("rerun", v, r) \in RowSet /\ ~Observed(Row("rerun", v, r))
  <2>1. Same32(v, r) \in BOOLEAN /\ Same16(v, r) \in BOOLEAN /\ Finite(v) \in BOOLEAN
    BY DEF Same32, Same16, Finite
  <2>. QED BY <1>1, <2>1 DEF Row, RowSet, Observed
<1>6. /\ rows' \in Seq(RowSet)
      /\ Cardinality(Differing') = tally.mismatches /\ Cardinality(NonFinite') = tally.nonfinite
  <2> DEFINE row == Row("rerun", v, r)
  <2>1. row \in RowSet /\ ~Observed(row) /\ rows' = Append(rows, row)
    BY <1>2, <1>5
  <2>. HIDE DEF row
  <2>2. /\ rows' \in Seq(RowSet)
        /\ Cardinality(Differing') = Cardinality(Differing) + 0
        /\ Cardinality(NonFinite') = Cardinality(NonFinite) + 0
    BY <1>0, <2>1, RowAdded
  <2>. QED BY <1>0, <2>2 DEF RecordInv, TypeInv
<1>7. TypeInv'
  BY <1>0, <1>4, <1>6 DEF TypeInv, Phases
<1>8. CleanInv'
  <2>1. faults # {}
    BY <1>0 DEF CleanInv
  <2>. QED BY <1>3, <2>1 DEF CleanInv
<1>9. RecordInv'
  <2>1. ASSUME NEW f \in faults', f.phase = "reuse",
               ref[<<CacheOf(f.pass), f.tensor, f.c>>] = "right"
        PROVE  OnRecord(f)'
    <3>1. f \in faults
      BY <1>0, <1>3, <2>1
    <3>2. OnRecord(f)
      BY <1>0, <2>1, <3>1 DEF RecordInv
    <3>. QED BY <1>0, <1>2, <1>5, <3>2, StaysOnRecord
  <2>. QED BY <1>0, <1>4, <1>6, <2>1 DEF RecordInv
<1>. QED BY <1>7, <1>8, <1>9 DEF IInv

LEMMA JudgeKeeps ==
  ASSUME IInv, Judge
  PROVE  IInv'
<1>0. TypeInv /\ CleanInv /\ RecordInv /\ phase = "negative"
  BY DEF IInv, Judge
<1>1. ref' = ref /\ tally' = tally /\ rows' = rows
  BY DEF Judge
<1>2. PICK v \in Values :
        /\ RoundTrip(Zeroed, Nothing, <<1, 1, 2>>, v)
        /\ phase' = IF Fp32Ok(v) THEN Verdict ELSE "raised"
  BY DEF Judge
<1>3. \/ v = "right" /\ faults' = faults
      \/ faults' = faults \union {[phase |-> phase, c |-> c, pass |-> p, tensor |-> n]}
  <2>1. <<1, 1, 2>>[3] \in CGrid
    BY DEF CGrid
  <2>. QED BY <1>2, <2>1, RoundTripIs
<1>4. phase' \in {"passed", "failed", "raised"}
  BY <1>2 DEF Verdict
<1>5. TypeInv'
  BY <1>0, <1>1, <1>4 DEF TypeInv, Phases
<1>6. CleanInv'
  <2>1. SUFFICES ASSUME faults' = {} PROVE CleanInv'
    BY DEF CleanInv
  <2>2. v = "right" /\ faults = {}
    BY <1>3, <2>1
  <2>3. tally = [freshFailures |-> 0, mismatches |-> 0, nonfinite |-> 0]
        /\ \A combo \in Combos : ref[combo] = "right"
    BY <1>0, <2>2 DEF CleanInv
  <2>4. \A e \in Corruptions : Caught(e)
    BY DEF Corruptions, Caught
  <2>5. Verdict = "passed"
    BY <2>3, <2>4 DEF Verdict
  <2>6. phase' = "passed"
    BY <1>2, <2>2, <2>5 DEF Fp32Ok, Finite
  <2>. QED BY <1>1, <2>3, <2>6 DEF CleanInv
<1>7. RecordInv'
  <2>1. ASSUME NEW f \in faults', f.phase = "reuse",
               ref[<<CacheOf(f.pass), f.tensor, f.c>>] = "right"
        PROVE  OnRecord(f)'
    <3>1. f \in faults
      BY <1>0, <1>3, <2>1
    <3>2. OnRecord(f)
      BY <1>0, <2>1, <3>1 DEF RecordInv
    <3>. QED BY <1>0, <1>1, <3>2 DEF OnRecord
  <2>2. Differing' = Differing /\ NonFinite' = NonFinite
    BY <1>1 DEF Differing, NonFinite
  <2>. QED BY <1>0, <1>1, <1>4, <2>1, <2>2 DEF RecordInv
<1>. QED BY <1>5, <1>6, <1>7 DEF IInv

LEMMA NextIInv == IInv /\ [Next]_vars => IInv'
<1> SUFFICES ASSUME IInv, [Next]_vars PROVE IInv'
  OBVIOUS
<1>1. CASE UNCHANGED vars
  <2>1. TypeInv'
    BY <1>1 DEF vars, IInv, TypeInv
  <2>2. CleanInv'
    BY <1>1 DEF vars, IInv, CleanInv, Past
  <2>3. RecordInv'
    BY <1>1 DEF vars, IInv, RecordInv, Differing, NonFinite, OnRecord
  <2>. QED BY <2>1, <2>2, <2>3 DEF IInv
<1>. QED BY <1>1, FreshKeeps, ReuseKeeps, RerunKeeps, JudgeKeeps DEF Next, Ended

-----------------------------------------------------------------------------

\* B0 holds the pool to the fresh buffers: with a right codec no tensor, no pass and
\* no soiling in between makes it fail, whatever the number of tensors and passes.
THEOREM RightCodecPasses == Spec => []FailedMeansFault
<1>1. IInv => FailedMeansFault
  BY DEF IInv, CleanInv, FailedMeansFault
<1>. QED BY <1>1, InitIInv, NextIInv, PTL DEF Spec

\* b0_tensor_checks.jsonl: no re-run takes back a failure that was seen, and the
\* summary's mismatches and non-finite results are the rows that show them.
THEOREM FailuresStayOnRecord == Spec => []ObservedIsKept
<1>1. IInv => ObservedIsKept
  BY DEF IInv, RecordInv, OnRecord, Observed, Differing, NonFinite, ObservedIsKept
<1>. QED BY <1>1, InitIInv, NextIInv, PTL DEF Spec
-----------------------------------------------------------------------------
(* The order of the passes.                                                 *)

LEMMA CachesAreNamed == \A q \in Nat : CacheOf(q) \in Caches
<1>1. \A q \in Nat : q % 8 \in 0..7
  OBVIOUS
<1>. QED BY <1>1 DEF CacheOf, Lap, Big, Small, Caches

\* Where the sequence of passes stands once a tensor is done with.
LEMMA AdvanceRan ==
  ASSUME TypeInv, phase \in {"reuse", "rerun"}, Advance, NEW len, len = RanStart(c) + p + 1
  PROVE  /\ phase' = "reuse" => len = RanStart(c') + p' + (IF n' = 1 THEN 0 ELSE 1)
         /\ phase' = "negative" => len = 2 * Passes
<1>1. /\ n \in 1..Tensors /\ c \in {1, 2} /\ p \in 0..(Passes - 1)
      /\ Tensors \in Nat \ {0} /\ Passes \in Nat \ {0}
  BY ReuseAssumption DEF TypeInv, CGrid
<1>2. CASE n < Tensors
  <2>1. n' = n + 1 /\ phase' = "reuse" /\ p' = p /\ c' = c
    BY <1>1, <1>2 DEF Advance
  <2>2. n' # 1
    BY <1>1, <2>1
  <2>. QED BY <2>1, <2>2
<1>3. CASE n = Tensors /\ p < Passes - 1
  <2>1. n' = 1 /\ p' = p + 1 /\ phase' = "reuse" /\ c' = c
    BY <1>1, <1>3 DEF Advance
  <2>2. RanStart(c) \in Nat
    BY <1>1 DEF RanStart
  <2>. HIDE DEF RanStart
  <2>. QED BY <1>1, <2>1, <2>2
<1>4. CASE n = Tensors /\ p = Passes - 1 /\ c = 1
  <2>1. n' = 1 /\ p' = 0 /\ phase' = "reuse" /\ c' = 2
    BY <1>1, <1>4 DEF Advance
  <2>. QED BY <1>1, <1>4, <2>1 DEF RanStart
<1>5. CASE n = Tensors /\ p = Passes - 1 /\ c = 2
  <2>1. phase' = "negative"
    BY <1>1, <1>5 DEF Advance
  <2>. QED BY <1>1, <1>5, <2>1 DEF RanStart
<1>. QED BY <1>1, <1>2, <1>3, <1>4, <1>5

LEMMA RanFresh ==
  ASSUME TypeInv, RanInv, Fresh
  PROVE  RanInv'
<1>1. phase = "fresh" /\ ran = << >> /\ ran' = ran
  BY DEF Fresh, RanInv
<1>2. phase' = "fresh" \/ (phase' = "reuse" /\ c' = 1 /\ p' = 0 /\ n' = 1)
  BY <1>1 DEF Fresh
<1>3. Len(ran') = 0 /\ DOMAIN ran' = {} /\ ran' \in Seq(RanSet)
  BY <1>1
<1>4. phase' = "reuse" => Len(ran') = RanStart(c') + p' + (IF n' = 1 THEN 0 ELSE 1)
  BY <1>2, <1>3 DEF RanStart
<1>. QED BY <1>1, <1>2, <1>3, <1>4 DEF RanInv

LEMMA RanReuse ==
  ASSUME TypeInv, RanInv, Reuse
  PROVE  RanInv'
<1> DEFINE entry == RanEntry(p, c)
           at == RanStart(c) + p
<1>1. /\ phase = "reuse" /\ n \in 1..Tensors /\ c \in CGrid /\ p \in 0..(Passes - 1)
      /\ Tensors \in Nat /\ Passes \in Nat /\ p \in Nat /\ n \in Nat
  BY ReuseAssumption DEF Reuse, TypeInv
<1>2. /\ ran \in Seq(RanSet) /\ at \in Nat
      /\ Len(ran) = at + (IF n = 1 THEN 0 ELSE 1)
  <2>1. RanStart(c) \in Nat
    BY <1>1 DEF RanStart
  <2>2. at \in Nat
    BY <1>1, <2>1
  <2>. QED BY <1>1, <2>2 DEF RanInv
<1>3. entry \in RanSet
  <2>1. Soils(p) \in BOOLEAN
    BY DEF Soils
  <2>. QED BY <1>1, <2>1, CachesAreNamed DEF RanEntry, RanSet
<1>4. ran' = IF n = 1 THEN Append(ran, entry) ELSE ran
  <2>1. n = 1 => ran' = Append(ran, [cache |-> CacheOf(p), c |-> c, soiled |-> n = 1 /\ Soils(p)])
    BY DEF Reuse
  <2>2. n # 1 => ran' = ran
    BY DEF Reuse
  <2>3. n = 1 => (n = 1 /\ Soils(p)) = Soils(p)
    BY DEF Soils
  <2>. QED BY <2>1, <2>2, <2>3 DEF RanEntry
<1>5. (phase' = "rerun" /\ UNCHANGED <<c, p, n>>) \/ Advance
  BY DEF Reuse
<1>. HIDE DEF entry
<1>6. /\ ran' \in Seq(RanSet) /\ Len(ran') = at + 1
      /\ \A k \in DOMAIN ran' : k \in DOMAIN ran \/ (n = 1 /\ k = at + 1 /\ ran'[k] = entry)
      /\ \A k \in DOMAIN ran : ran'[k] = ran[k]
  <2>1. CASE n = 1
    <3>1. ran' = Append(ran, entry) /\ Len(ran) = at
      BY <1>2, <1>4, <2>1
    <3>2. /\ ran' \in Seq(RanSet) /\ Len(ran') = Len(ran) + 1
          /\ \A k \in 1..Len(ran) : ran'[k] = ran[k]
          /\ ran'[Len(ran) + 1] = entry
      BY <1>2, <1>3, <3>1, AppendProperties
    <3>3. DOMAIN ran = 1..Len(ran) /\ DOMAIN ran' = 1..(Len(ran) + 1)
      BY <1>2, <3>2
    <3>. HIDE DEF at
    <3>. QED BY <1>2, <2>1, <3>1, <3>2, <3>3
  <2>2. CASE n # 1
    BY <1>2, <1>4, <2>2
  <2>. QED BY <2>1, <2>2
<1>7. ASSUME NEW e \in CGrid, NEW q \in 0..(Passes - 1), RanStart(e) + q + 1 \in DOMAIN ran'
      PROVE  ran'[RanStart(e) + q + 1] = RanEntry(q, e)
  <2>1. CASE RanStart(e) + q + 1 \in DOMAIN ran
    BY <1>6, <1>7, <2>1 DEF RanInv
  <2>2. CASE RanStart(e) + q + 1 \notin DOMAIN ran
    <3>1. RanStart(e) + q + 1 = at + 1 /\ ran'[RanStart(e) + q + 1] = entry
      BY <1>6, <1>7, <2>2
    <3>2. e = c /\ q = p
      BY <1>1, <3>1 DEF RanStart, CGrid
    <3>. QED BY <3>1, <3>2 DEF entry
  <2>. QED BY <2>1, <2>2
<1>8. CASE phase' = "rerun" /\ UNCHANGED <<c, p, n>>
  <2>1. phase' = "rerun" => Len(ran') = RanStart(c') + p' + 1
    BY <1>6, <1>8
  <2>. QED BY <1>6, <1>7, <1>8, <2>1 DEF RanInv
<1>9. CASE Advance
  <2>1. phase' \in {"reuse", "negative"}
    BY <1>1, <1>9, AdvanceTypes
  <2>2. /\ phase' = "reuse" => Len(ran') = RanStart(c') + p' + (IF n' = 1 THEN 0 ELSE 1)
        /\ phase' = "negative" => Len(ran') = 2 * Passes
    BY <1>1, <1>6, <1>9, AdvanceRan
  <2>. QED BY <1>6, <1>7, <2>1, <2>2 DEF RanInv
<1>. QED BY <1>5, <1>8, <1>9

LEMMA RanRerun ==
  ASSUME TypeInv, RanInv, Rerun
  PROVE  RanInv'
<1>1. phase = "rerun" /\ ran' = ran /\ Advance /\ Len(ran) = RanStart(c) + p + 1
  BY DEF Rerun, RanInv
<1>2. phase' \in {"reuse", "negative"}
  BY <1>1, AdvanceTypes
<1>3. /\ phase' = "reuse" => Len(ran) = RanStart(c') + p' + (IF n' = 1 THEN 0 ELSE 1)
      /\ phase' = "negative" => Len(ran) = 2 * Passes
  BY <1>1, AdvanceRan
<1>. QED BY <1>1, <1>2, <1>3 DEF RanInv

LEMMA InitRan == Init => RanInv
<1>. SUFFICES ASSUME Init PROVE RanInv
  OBVIOUS
<1>1. ran = << >> /\ phase = "fresh"
  BY DEF Init
<1>2. Len(ran) = 0 /\ DOMAIN ran = {} /\ ran \in Seq(RanSet)
  BY <1>1
<1>. QED BY <1>1, <1>2 DEF RanInv

LEMMA NextRan == TypeInv /\ RanInv /\ [Next]_vars => RanInv'
<1> SUFFICES ASSUME TypeInv, RanInv, [Next]_vars PROVE RanInv'
  OBVIOUS
<1>1. CASE UNCHANGED vars
  BY <1>1 DEF vars, RanInv
<1>2. CASE Judge
  <2>1. phase = "negative" /\ ran' = ran /\ phase' \in {"passed", "failed", "raised"}
    BY <1>2 DEF Judge, Verdict
  <2>. QED BY <2>1 DEF RanInv
<1>. QED BY <1>1, <1>2, RanFresh, RanReuse, RanRerun DEF Next, Ended
\* With fifteen passes or more the sequence holds the first fifteen for either c.
LEMMA FirstPasses ==
  ASSUME RanInv, phase \in {"negative", "passed", "failed", "raised"}, Passes >= 15,
         NEW e \in CGrid, NEW q \in 0..14
  PROVE  /\ RanStart(e) + q + 1 \in 1..Len(ran)
         /\ q < 14 => RanStart(e) + q + 1 \in 1..(Len(ran) - 1)
         /\ ran[RanStart(e) + q + 1] = RanEntry(q, e)
<1>1. Passes \in Nat /\ Len(ran) = 2 * Passes /\ DOMAIN ran = 1..Len(ran)
  BY ReuseAssumption DEF RanInv
<1>2. RanStart(e) \in {0, Passes}
  BY DEF RanStart
<1>3. /\ RanStart(e) + q + 1 \in 1..Len(ran)
      /\ q < 14 => RanStart(e) + q + 1 \in 1..(Len(ran) - 1)
  BY <1>1, <1>2
<1>4. q \in 0..(Passes - 1)
  BY <1>1
<1>. QED BY <1>1, <1>3, <1>4 DEF RanInv

LEMMA FirstLap ==
  /\ CacheOf(0) = 2 /\ CacheOf(1) = 1 /\ CacheOf(2) = 4 /\ CacheOf(4) = 2 /\ CacheOf(5) = 4
  /\ CacheOf(6) = 1 /\ CacheOf(7) = 3 /\ CacheOf(8) = 2 /\ CacheOf(11) = 3 /\ CacheOf(14) = 1
<1>1. /\ 0 % 8 = 0 /\ 1 % 8 = 1 /\ 2 % 8 = 2 /\ 4 % 8 = 4 /\ 5 % 8 = 5
      /\ 6 % 8 = 6 /\ 7 % 8 = 7 /\ 8 % 8 = 0 /\ 11 % 8 = 3 /\ 14 % 8 = 6
  OBVIOUS
<1>. QED BY <1>1 DEF CacheOf, Lap, Big, Small

LEMMA SoiledEarly == Soils(2) /\ Soils(8) /\ Soils(11) /\ Soils(14)
BY DEF Soils

\* validate_reuse.py: the order of the caches and of the soiling reaches every hard
\* case in the first fifteen passes (--passes is 20 unless it is given), whatever the
\* codec does and whatever is found on the way.
THEOREM PassesReachHardCases ==
  ASSUME Passes >= 15
  PROVE  Spec => []HardCasesMet
<1>1. RanInv => HardCasesMet
  <2> SUFFICES ASSUME RanInv, phase \in {"negative", "passed", "failed", "raised"}
               PROVE  HardCasesMet
    BY DEF HardCasesMet
  <2> DEFINE follows(e, a, b) ==
               \E k \in 1..(Len(ran) - 1) : /\ ran[k].c = e /\ ran[k + 1].c = e
                                            /\ ran[k].cache \in a /\ ran[k + 1].cache \in b
  <2>1. ASSUME NEW e \in CGrid
        PROVE  /\ follows(e, Range(Big), Range(Small)) /\ follows(e, Range(Small), Range(Big))
               /\ follows(e, {Big[1]}, {Big[2]}) /\ follows(e, {Small[1]}, {Small[2]})
               /\ \A i \in Caches : [cache |-> i, c |-> e, soiled |-> TRUE] \in Range(ran)
    <3>1. \A q \in 0..14 : /\ RanStart(e) + q + 1 \in 1..Len(ran)
                           /\ q < 14 => RanStart(e) + q + 1 \in 1..(Len(ran) - 1)
                           /\ ran[RanStart(e) + q + 1] = RanEntry(q, e)
      BY FirstPasses
    <3>2. RanStart(e) \in Nat
      BY ReuseAssumption DEF RanStart
    <3>3. ASSUME NEW q \in 0..13, NEW a, NEW b, CacheOf(q) \in a, CacheOf(q + 1) \in b
          PROVE  follows(e, a, b)
      <4>1. /\ RanStart(e) + q + 1 \in 1..(Len(ran) - 1)
            /\ ran[RanStart(e) + q + 1] = RanEntry(q, e)
        <5>1. q \in 0..14 /\ q < 14
          OBVIOUS
        <5>. QED BY <3>1, <5>1
      <4>2. ran[RanStart(e) + q + 1 + 1] = RanEntry(q + 1, e)
        <5>1. q + 1 \in 0..14 /\ RanStart(e) + (q + 1) + 1 = RanStart(e) + q + 1 + 1
          BY <3>2
        <5>. QED BY <3>1, <5>1
      <4>3. /\ RanEntry(q, e).c = e /\ RanEntry(q, e).cache \in a
            /\ RanEntry(q + 1, e).c = e /\ RanEntry(q + 1, e).cache \in b
        BY <3>3 DEF RanEntry
      <4>. QED BY <4>1, <4>2, <4>3
    <3>4. Range(Big) = {2, 4} /\ Range(Small) = {1, 3}
      BY DEF Range, Big, Small
    <3>5. 1 \in Range(Small) /\ 2 \in Range(Big) /\ 4 \in Range(Big)
          /\ Big[1] = 2 /\ Big[2] = 4 /\ Small[1] = 1 /\ Small[2] = 3
      BY <3>4 DEF Big, Small
    <3>6. ASSUME NEW q \in 0..14, Soils(q)
          PROVE  [cache |-> CacheOf(q), c |-> e, soiled |-> TRUE] \in Range(ran)
      <4>1. RanStart(e) + q + 1 \in DOMAIN ran /\ ran[RanStart(e) + q + 1] = RanEntry(q, e)
        <5>1. DOMAIN ran = 1..Len(ran)
          BY DEF RanInv
        <5>. QED BY <3>1, <5>1
      <4>2. RanEntry(q, e) = [cache |-> CacheOf(q), c |-> e, soiled |-> TRUE]
        BY <3>6 DEF RanEntry, Soils
      <4>. QED BY <4>1, <4>2 DEF Range
    <3>. HIDE DEF follows
    <3>7. follows(e, Range(Big), Range(Small))
      <4>1. 0 \in 0..13 /\ CacheOf(0) \in Range(Big) /\ CacheOf(0 + 1) \in Range(Small)
        BY <3>5, FirstLap
      <4>. QED BY <3>3, <4>1
    <3>8. follows(e, Range(Small), Range(Big))
      <4>1. 1 \in 0..13 /\ CacheOf(1) \in Range(Small) /\ CacheOf(1 + 1) \in Range(Big)
        BY <3>5, FirstLap
      <4>. QED BY <3>3, <4>1
    <3>9. follows(e, {Big[1]}, {Big[2]})
      <4>1. 4 \in 0..13 /\ CacheOf(4) \in {Big[1]} /\ CacheOf(4 + 1) \in {Big[2]}
        BY <3>5, FirstLap
      <4>. QED BY <3>3, <4>1
    <3>10. follows(e, {Small[1]}, {Small[2]})
      <4>1. 6 \in 0..13 /\ CacheOf(6) \in {Small[1]} /\ CacheOf(6 + 1) \in {Small[2]}
        BY <3>5, FirstLap
      <4>. QED BY <3>3, <4>1
    <3>11. \A i \in Caches : [cache |-> i, c |-> e, soiled |-> TRUE] \in Range(ran)
      <4>1. 2 \in 0..14 /\ 8 \in 0..14 /\ 11 \in 0..14 /\ 14 \in 0..14
        OBVIOUS
      <4>2. \A i \in Caches : i = CacheOf(2) \/ i = CacheOf(8) \/ i = CacheOf(11) \/ i = CacheOf(14)
        BY FirstLap DEF Caches
      <4>. QED BY <3>6, <4>1, <4>2, SoiledEarly
    <3>. QED BY <3>7, <3>8, <3>9, <3>10, <3>11
  <2>. QED BY <2>1 DEF HardCasesMet
<1>2. IInv => TypeInv
  BY DEF IInv
<1>. QED BY <1>1, <1>2, InitIInv, NextIInv, InitRan, NextRan, PTL DEF Spec
-----------------------------------------------------------------------------
(* What a fault must do to go unseen.                                       *)

LEMMA FaultsCounted ==
  ASSUME IsFiniteSet(faults), Cardinality(faults) <= MaxFaults,
         NEW buf, NEW d, NEW combo, NEW v, RoundTrip(buf, d, combo, v)
  PROVE  IsFiniteSet(faults') /\ Cardinality(faults') <= MaxFaults
<1> DEFINE fault == [phase |-> phase, c |-> c, pass |-> p, tensor |-> n]
<1>1. CASE faults' = faults
  BY <1>1
<1>2. CASE Cardinality(faults) < MaxFaults /\ faults' = faults \union {fault}
  <2>. HIDE DEF fault
  <2>1. IsFiniteSet(faults') /\ Cardinality(faults) \in Nat
    BY <1>2, FS_AddElement, FS_CardinalityType
  <2>2. Cardinality(faults') = Cardinality(faults) \/ Cardinality(faults') = Cardinality(faults) + 1
    BY <1>2, FS_AddElement
  <2>. QED BY <1>2, <2>1, <2>2, ReuseAssumption
<1>. QED BY <1>1, <1>2 DEF RoundTrip

LEMMA CombosAre ==
  ASSUME NEW combo \in Combos
  PROVE  /\ combo[1] \in 1..4 /\ combo[2] \in 1..Tensors /\ combo[3] \in {1, 2}
         /\ combo = <<combo[1], combo[2], combo[3]>>
BY DEF Combos, Caches, CGrid

\* fresh_baselines goes through the combinations one by one.
LEMMA PastAdvances ==
  ASSUME TypeInv, Fresh, NEW combo \in Combos
  PROVE  /\ phase' = "fresh" => (Past(combo)' <=> Past(combo) \/ combo = <<p, n, c>>)
         /\ phase' = "reuse" => Past(combo) \/ combo = <<p, n, c>>
         /\ phase' \in {"fresh", "reuse"}
         /\ ~Past(<<p, n, c>>) /\ <<p, n, c>> \in Combos
<1>1. /\ p \in 1..4 /\ n \in 1..Tensors /\ c \in {1, 2} /\ Tensors \in Nat \ {0}
      /\ phase = "fresh"
  BY ReuseAssumption DEF Fresh, TypeInv, Caches, CGrid
<1>2. \/ c = 1 /\ c' = 2 /\ p' = p /\ n' = n /\ phase' = phase
      \/ c = 2 /\ n < Tensors /\ c' = 1 /\ n' = n + 1 /\ p' = p /\ phase' = phase
      \/ c = 2 /\ n = Tensors /\ p < 4 /\ c' = 1 /\ n' = 1 /\ p' = p + 1 /\ phase' = phase
      \/ c = 2 /\ n = Tensors /\ p = 4 /\ c' = 1 /\ n' = 1 /\ p' = 0 /\ phase' = "reuse"
  BY DEF Fresh
<1>3. PICK x \in 1..4, y \in 1..Tensors, z \in {1, 2} : combo = <<x, y, z>>
  BY DEF Combos, Caches, CGrid
<1>4. Past(combo) <=> \/ x < p
                      \/ x = p /\ y < n
                      \/ x = p /\ y = n /\ z < c
  BY <1>3 DEF Past
<1>5. Past(combo)' <=> \/ x < p'
                       \/ x = p' /\ y < n'
                       \/ x = p' /\ y = n' /\ z < c'
  BY <1>3 DEF Past
<1>6. combo = <<p, n, c>> <=> x = p /\ y = n /\ z = c
  BY <1>3
<1>7. ~Past(<<p, n, c>>) /\ <<p, n, c>> \in Combos
  BY <1>1 DEF Past, Combos, Caches, CGrid
<1>8. phase' = "fresh" => (Past(combo)' <=> Past(combo) \/ combo = <<p, n, c>>)
  <2>. HIDE DEF Past
  <2>. QED BY <1>1, <1>2, <1>4, <1>5, <1>6
<1>9. phase' = "reuse" => Past(combo) \/ combo = <<p, n, c>>
  <2>. HIDE DEF Past
  <2>. QED BY <1>1, <1>2, <1>4, <1>6
<1>. QED BY <1>1, <1>2, <1>7, <1>8, <1>9

LEMMA MissedFresh ==
  ASSUME TypeInv, MissedInv, Fresh
  PROVE  MissedInv'
<1> DEFINE now == <<p, n, c>>
           fault == [phase |-> phase, c |-> c, pass |-> p, tensor |-> n]
<1>0. phase = "fresh" /\ DOMAIN ref = Combos
  BY DEF Fresh, TypeInv
<1>1. PICK v \in Values :
        /\ RoundTrip(Zeroed, Nothing, now, v)
        /\ ref' = [ref EXCEPT ![now] = v]
        /\ tally' = IF Fp32Ok(v) THEN tally
                    ELSE [tally EXCEPT !.freshFailures = @ + 1]
  BY DEF Fresh
<1>2. now \in Combos /\ ~Past(now) /\ phase' \in {"fresh", "reuse"} /\ now[3] \in CGrid
  <2>1. <<1, 1, 1>> \in Combos
    BY ReuseAssumption DEF Combos, Caches, CGrid
  <2>2. now \in Combos /\ ~Past(now) /\ phase' \in {"fresh", "reuse"}
    BY <2>1, PastAdvances
  <2>. QED BY <2>2 DEF Combos
<1>3. \/ v = "right" /\ faults' = faults
      \/ v # "right" /\ faults' = faults \union {fault}
  BY <1>1, <1>2, RoundTripIs
<1>4. IsFiniteSet(faults') /\ Cardinality(faults') <= MaxFaults
  BY <1>1, FaultsCounted DEF MissedInv
<1>5. ref'[now] = v /\ \A combo \in Combos : combo # now => ref'[combo] = ref[combo]
  BY <1>0, <1>1, <1>2
<1>6. ref[now] = "none"
  BY <1>0, <1>2 DEF MissedInv
<1>7. ASSUME NEW combo \in Combos
      PROVE  /\ ref'[combo] \in Values \union {"none"}
             /\ ref'[combo] = "none" <=> phase' = "fresh" /\ ~Past(combo)'
  <2>1. CASE combo = now
    <3>1. ref'[combo] = v /\ v # "none"
      BY <1>5, <2>1 DEF Values
    <3>2. phase' = "fresh" => Past(combo)'
      BY <2>1, PastAdvances
    <3>. QED BY <3>1, <3>2
  <2>2. CASE combo # now
    <3>1. ref'[combo] = ref[combo]
      BY <1>5, <2>2
    <3>2. /\ ref[combo] \in Values \union {"none"}
          /\ ref[combo] = "none" <=> ~Past(combo)
      BY <1>0 DEF MissedInv
    <3>3. /\ phase' = "fresh" => (Past(combo)' <=> Past(combo))
          /\ phase' = "reuse" => Past(combo)
      BY <2>2, PastAdvances
    <3>. QED BY <1>2, <3>1, <3>2, <3>3
  <2>. QED BY <2>1, <2>2
<1>8. ASSUME NoFailure'
      PROVE  /\ phase' # "rerun"
             /\ \A combo \in Combos : ref'[combo] \in Faults => Unseen(combo)'
             /\ (\E f \in faults' : f.phase # "negative") => \E combo \in Combos : ref'[combo] \in Faults
  <2>1. NoFailure
    <3>1. tally \in [freshFailures : Nat, mismatches : Nat, nonfinite : Nat]
      BY DEF TypeInv
    <3>2. CASE Fp32Ok(v)
      BY <1>1, <1>8, <3>2 DEF NoFailure
    <3>3. CASE ~Fp32Ok(v)
      <4>1. tally'.freshFailures = tally.freshFailures + 1
        BY <1>1, <3>1, <3>3
      <4>2. tally'.freshFailures = 0 /\ tally.freshFailures \in Nat
        BY <1>8, <3>1 DEF NoFailure
      <4>. QED BY <4>1, <4>2
    <3>. QED BY <3>2, <3>3
  <2>2. ASSUME NEW combo \in Combos, ref'[combo] \in Faults
        PROVE  Unseen(combo)'
    <3>1. FreshFault(combo) \in faults'
      <4>1. CASE combo = now
        <5>1. v # "right"
          BY <1>5, <2>2, <4>1 DEF Faults
        <5>2. FreshFault(combo) = fault
          BY <1>0, <4>1 DEF FreshFault
        <5>. QED BY <1>3, <5>1, <5>2
      <4>2. CASE combo # now
        <5>1. ref[combo] \in Faults
          BY <1>5, <2>2, <4>2
        <5>2. FreshFault(combo) \in faults
          BY <2>1, <5>1 DEF MissedInv, Unseen
        <5>. QED BY <1>3, <5>2
      <4>. QED BY <4>1, <4>2
    <3>2. ASSUME NEW q \in 0..(Passes - 1)
          PROVE  ~Visited(q, combo[2], combo[3])'
      <4>1. CASE phase' = "fresh"
        BY <4>1 DEF Visited
      <4>2. CASE phase' = "reuse"
        <5>1. c' = 1 /\ p' = 0 /\ n' = 1
          BY <1>0, <4>2 DEF Fresh
        <5>2. combo[2] \in 1..Tensors /\ combo[3] \in {1, 2}
          BY CombosAre
        <5>3. \A t \in 1..Tensors : \A e \in {1, 2} : ~(e < 1 \/ (e = 1 /\ (q < 0 \/ (q = 0 /\ t < 1))))
          BY ReuseAssumption
        <5>. QED BY <4>2, <5>1, <5>2, <5>3 DEF Visited
      <4>. QED BY <1>2, <4>1, <4>2
    <3>. QED BY <3>1, <3>2 DEF Unseen
  <2>3. ASSUME NEW f \in faults', f.phase # "negative"
        PROVE  \E combo \in Combos : ref'[combo] \in Faults
    <3>1. CASE f \in faults
      <4>1. PICK combo \in Combos : ref[combo] \in Faults
        BY <2>1, <2>3, <3>1 DEF MissedInv
      <4>2. combo # now
        BY <1>6, <4>1 DEF Faults, Values
      <4>. QED BY <1>5, <4>1, <4>2
    <3>2. CASE f \notin faults
      <4>1. v # "right"
        BY <1>3, <3>2
      <4>. QED BY <1>2, <1>5, <4>1 DEF Faults
    <3>. QED BY <3>1, <3>2
  <2>. QED BY <1>2, <2>2, <2>3
<1>9. phase' # "passed"
  BY <1>2
<1>. QED BY <1>4, <1>7, <1>8, <1>9 DEF MissedInv
\* What has been visited after a step had been before it, or is what the step did.
LEMMA VisitedAdvances ==
  ASSUME TypeInv, phase \in {"reuse", "rerun"}, Advance,
         NEW q \in 0..(Passes - 1), NEW t \in 1..Tensors, NEW e \in {1, 2}, Visited(q, t, e)'
  PROVE  Visited(q, t, e) \/ (q = p /\ t = n /\ e = c)
<1>1. /\ n \in 1..Tensors /\ c \in {1, 2} /\ p \in 0..(Passes - 1)
      /\ Tensors \in Nat \ {0} /\ Passes \in Nat \ {0}
  BY ReuseAssumption DEF TypeInv, CGrid
<1>2. Visited(q, t, e) <=> e < c \/ (e = c /\ (q < p \/ (q = p /\ t < n)))
  BY DEF Visited
<1>3. phase' = "reuse" => e < c' \/ (e = c' /\ (q < p' \/ (q = p' /\ t < n')))
  BY DEF Visited
<1>. HIDE DEF Visited
<1>4. CASE n < Tensors
  <2>1. n' = n + 1 /\ phase' = "reuse" /\ p' = p /\ c' = c
    BY <1>1, <1>4 DEF Advance
  <2>. QED BY <1>1, <1>2, <1>3, <2>1
<1>5. CASE n = Tensors /\ p < Passes - 1
  <2>1. n' = 1 /\ p' = p + 1 /\ phase' = "reuse" /\ c' = c
    BY <1>1, <1>5 DEF Advance
  <2>. QED BY <1>1, <1>2, <1>3, <1>5, <2>1
<1>6. CASE n = Tensors /\ p = Passes - 1 /\ c = 1
  <2>1. n' = 1 /\ p' = 0 /\ phase' = "reuse" /\ c' = 2
    BY <1>1, <1>6 DEF Advance
  <2>. QED BY <1>1, <1>2, <1>3, <1>6, <2>1
<1>7. CASE n = Tensors /\ p = Passes - 1 /\ c = 2
  BY <1>1, <1>2, <1>7
<1>. QED BY <1>1, <1>4, <1>5, <1>6, <1>7

LEMMA MissedReuse ==
  ASSUME TypeInv, MissedInv, Reuse
  PROVE  MissedInv'
<1> DEFINE now == <<CacheOf(p), n, c>>
           r == ref[now]
           fault == [phase |-> phase, c |-> c, pass |-> p, tensor |-> n]
<1>0. phase = "reuse" /\ ref' = ref
  BY DEF Reuse
<1>1. now \in Combos /\ now[3] = c /\ c \in CGrid
  BY <1>0, Placed DEF TypeInv
<1>2. PICK v \in Values, buf \in {cmp, Soiled(cmp)}, d \in {dec, Torn} :
        /\ RoundTrip(buf, d, now, v)
        /\ tally' = [freshFailures |-> tally.freshFailures,
                     mismatches |-> tally.mismatches + Wrong(Same(v, r)),
                     nonfinite  |-> tally.nonfinite + Wrong(Finite(v))]
        /\ IF Same(v, r) /\ Finite(v)
           THEN Advance
           ELSE phase' = "rerun"
  BY DEF Reuse
<1>3. \/ v = "right" /\ faults' = faults
      \/ v # "right" /\ faults' = faults \union {fault}
  BY <1>1, <1>2, RoundTripIs
<1>4. IsFiniteSet(faults') /\ Cardinality(faults') <= MaxFaults
  BY <1>2, FaultsCounted DEF MissedInv
<1>5. phase' \in {"reuse", "rerun", "negative"}
  <2>1. Advance => phase' \in {"reuse", "negative"}
    BY <1>0, AdvanceTypes
  <2>. QED BY <1>2, <2>1
<1>6. \A combo \in Combos :
        /\ ref'[combo] \in Values \union {"none"}
        /\ ref'[combo] = "none" <=> phase' = "fresh" /\ ~Past(combo)'
  BY <1>0, <1>5 DEF MissedInv
<1>7. ASSUME NoFailure'
      PROVE  /\ phase' # "rerun"
             /\ \A combo \in Combos : ref'[combo] \in Faults => Unseen(combo)'
             /\ (\E f \in faults' : f.phase # "negative") => \E combo \in Combos : ref'[combo] \in Faults
  <2>1. /\ tally.mismatches \in Nat /\ tally.nonfinite \in Nat
        /\ tally.freshFailures = 0
        /\ tally.mismatches + Wrong(Same(v, r)) = 0 /\ tally.nonfinite + Wrong(Finite(v)) = 0
    BY <1>2, <1>7 DEF NoFailure, TypeInv
  <2>2. Same(v, r) /\ Finite(v) /\ NoFailure
    <3>1. Wrong(Same(v, r)) \in {0, 1} /\ Wrong(Finite(v)) \in {0, 1}
      BY DEF Wrong
    <3>2. \A x \in Nat : \A y \in {0, 1} : x + y = 0 => x = 0 /\ y = 0
      OBVIOUS
    <3>3. /\ tally.mismatches = 0 /\ Wrong(Same(v, r)) = 0
          /\ tally.nonfinite = 0 /\ Wrong(Finite(v)) = 0
      BY <2>1, <3>1, <3>2
    <3>. QED BY <2>1, <3>3 DEF Wrong, NoFailure
  <2>3. v = r /\ Advance
    BY <1>2, <2>2 DEF Same, Same32
  <2>4. phase' \in {"reuse", "negative"}
    BY <1>0, <2>3, AdvanceTypes
  <2>5. ASSUME NEW combo \in Combos, ref'[combo] \in Faults
        PROVE  Unseen(combo)'
    <3>1. Unseen(combo)
      BY <1>0, <2>2, <2>5 DEF MissedInv
    <3>2. FreshFault(combo) \in faults'
      BY <1>3, <3>1 DEF Unseen
    <3>3. ASSUME NEW q \in 0..(Passes - 1), CacheOf(q) = combo[1],
                 Visited(q, combo[2], combo[3])'
          PROVE  ReuseFault(combo, q) \in faults'
      <4>1. combo[2] \in 1..Tensors /\ combo[3] \in {1, 2}
            /\ combo = <<combo[1], combo[2], combo[3]>>
        BY CombosAre
      <4>2. \/ Visited(q, combo[2], combo[3])
            \/ q = p /\ combo[2] = n /\ combo[3] = c
        BY <1>0, <2>3, <3>3, <4>1, VisitedAdvances
      <4>3. CASE Visited(q, combo[2], combo[3])
        BY <1>3, <3>1, <3>3, <4>3 DEF Unseen
      <4>4. CASE q = p /\ combo[2] = n /\ combo[3] = c
        <5>1. combo = now
          BY <3>3, <4>1, <4>4
        <5>2. v # "right"
          BY <1>0, <2>3, <2>5, <5>1 DEF Faults
        <5>3. ReuseFault(combo, q) = fault
          BY <1>0, <4>4 DEF ReuseFault
        <5>. QED BY <1>3, <5>2, <5>3
      <4>. QED BY <4>2, <4>3, <4>4
    <3>. QED BY <3>2, <3>3 DEF Unseen
  <2>6. ASSUME NEW f \in faults', f.phase # "negative"
        PROVE  \E combo \in Combos : ref'[combo] \in Faults
    <3>1. CASE f \in faults
      BY <1>0, <2>2, <2>6, <3>1 DEF MissedInv
    <3>2. CASE f \notin faults
      <4>1. v # "right"
        BY <1>3, <3>2
      <4>2. ref'[now] \in Faults
        BY <1>0, <1>2, <2>3, <4>1 DEF Faults
      <4>. QED BY <1>1, <4>2
    <3>. QED BY <3>1, <3>2
  <2>. QED BY <2>4, <2>5, <2>6
<1>8. phase' # "passed"
  BY <1>5
<1>. QED BY <1>4, <1>6, <1>7, <1>8 DEF MissedInv

LEMMA MissedRerun ==
  ASSUME TypeInv, MissedInv, Rerun
  PROVE  MissedInv'
<1>1. phase = "rerun" /\ ref' = ref /\ tally' = tally /\ Advance
  BY DEF Rerun
<1>2. phase' \in {"reuse", "negative"}
  BY <1>1, AdvanceTypes
<1>3. ~NoFailure'
  BY <1>1 DEF MissedInv, NoFailure
<1>4. IsFiniteSet(faults') /\ Cardinality(faults') <= MaxFaults
  BY FaultsCounted DEF Rerun, MissedInv
<1>. QED BY <1>1, <1>2, <1>3, <1>4 DEF MissedInv

LEMMA MissedJudge ==
  ASSUME TypeInv, MissedInv, Judge
  PROVE  MissedInv'
<1>1. phase = "negative" /\ ref' = ref /\ tally' = tally
  BY DEF Judge
<1>2. PICK v \in Values :
        /\ RoundTrip(Zeroed, Nothing, <<1, 1, 2>>, v)
        /\ phase' = IF Fp32Ok(v) THEN Verdict ELSE "raised"
  BY DEF Judge
<1>3. \/ faults' = faults
      \/ faults' = faults \union {[phase |-> phase, c |-> c, pass |-> p, tensor |-> n]}
  <2>1. <<1, 1, 2>>[3] \in CGrid
    BY DEF CGrid
  <2>. QED BY <1>2, <2>1, RoundTripIs
<1>4. IsFiniteSet(faults') /\ Cardinality(faults') <= MaxFaults
  BY <1>2, FaultsCounted DEF MissedInv
<1>5. phase' \in {"passed", "failed", "raised"} /\ (phase' = "passed" => NoFailure)
  BY <1>2 DEF Verdict, NoFailure
<1>6. NoFailure' <=> NoFailure
  BY <1>1 DEF NoFailure
<1>7. ASSUME NoFailure, NEW combo \in Combos, ref[combo] \in Faults
      PROVE  Unseen(combo)'
  <2>1. Unseen(combo)
    BY <1>7 DEF MissedInv
  <2>2. \A q, t, e : Visited(q, t, e)
    BY <1>1 DEF Visited
  <2>. QED BY <1>3, <2>1, <2>2 DEF Unseen
<1>8. \A f \in faults' : f.phase # "negative" => f \in faults
  BY <1>1, <1>3
<1>9. \A combo \in Combos :
        /\ ref'[combo] \in Values \union {"none"}
        /\ ref'[combo] = "none" <=> phase' = "fresh" /\ ~Past(combo)'
  BY <1>1, <1>5 DEF MissedInv
<1>10. NoFailure' =>
         /\ phase' # "rerun"
         /\ \A combo \in Combos : ref'[combo] \in Faults => Unseen(combo)'
         /\ (\E f \in faults' : f.phase # "negative") => \E combo \in Combos : ref'[combo] \in Faults
  BY <1>1, <1>5, <1>6, <1>7, <1>8 DEF MissedInv
<1>. QED BY <1>4, <1>5, <1>6, <1>9, <1>10 DEF MissedInv

LEMMA InitMissed == Init => MissedInv
<1>. SUFFICES ASSUME Init PROVE MissedInv
  OBVIOUS
<1>1. phase = "fresh" /\ faults = {} /\ p = 1 /\ n = 1 /\ c = 1
      /\ ref = [combo \in Combos |-> "none"]
  BY DEF Init
<1>2. IsFiniteSet(faults) /\ Cardinality(faults) <= MaxFaults
  BY <1>1, FS_EmptySet, ReuseAssumption
<1>3. ASSUME NEW combo \in Combos
      PROVE  ref[combo] = "none" /\ ~Past(combo)
  <2>1. combo[1] \in 1..4 /\ combo[2] \in 1..Tensors /\ combo[3] \in {1, 2}
    BY CombosAre
  <2>. QED BY <1>1, <2>1, ReuseAssumption DEF Past
<1>4. "none" \notin Faults
  BY DEF Faults, Values
<1>. QED BY <1>1, <1>2, <1>3, <1>4 DEF MissedInv

LEMMA NextMissed == TypeInv /\ MissedInv /\ [Next]_vars => MissedInv'
<1> SUFFICES ASSUME TypeInv, MissedInv, [Next]_vars PROVE MissedInv'
  OBVIOUS
<1>1. CASE UNCHANGED vars
  <2>1. \A q, t, e : Visited(q, t, e)' <=> Visited(q, t, e)
    BY <1>1 DEF vars, Visited
  <2>2. \A combo \in Combos : (Unseen(combo)' <=> Unseen(combo)) /\ (Past(combo)' <=> Past(combo))
    BY <1>1, <2>1 DEF vars, Unseen, Past
  <2>3. NoFailure' <=> NoFailure
    BY <1>1 DEF vars, NoFailure
  <2>4. UNCHANGED <<phase, faults, ref>>
    BY <1>1 DEF vars
  <2>. QED BY <2>2, <2>3, <2>4 DEF MissedInv
<1>. QED BY <1>1, MissedFresh, MissedReuse, MissedRerun, MissedJudge DEF Next, Ended
\* Every whole lap is through each cache at two places of its own.
LEMMA TwicePerLap ==
  ASSUME NEW i \in Caches
  PROVE  \E a, b \in 0..7 :
           /\ a # b
           /\ \A l \in Nat : CacheOf(8 * l + a) = i /\ CacheOf(8 * l + b) = i
<1>1. \A l \in Nat : \A a \in 0..7 : (8 * l + a) % 8 = a
  OBVIOUS
<1>2. \A l \in Nat : \A a \in 0..7 : CacheOf(8 * l + a) = Lap[a + 1]
  <2>1. \A l \in Nat : \A a \in 0..7 : CacheOf(8 * l + a) = Lap[((8 * l + a) % 8) + 1]
    BY DEF CacheOf, Lap
  <2>. QED BY <1>1, <2>1
<1>3. /\ Lap[0 + 1] = 2 /\ Lap[1 + 1] = 1 /\ Lap[2 + 1] = 4 /\ Lap[3 + 1] = 3
      /\ Lap[4 + 1] = 2 /\ Lap[5 + 1] = 4 /\ Lap[6 + 1] = 1 /\ Lap[7 + 1] = 3
  BY DEF Lap, Big, Small
<1>4. /\ 0 \in 0..7 /\ 1 \in 0..7 /\ 2 \in 0..7 /\ 3 \in 0..7
      /\ 4 \in 0..7 /\ 5 \in 0..7 /\ 6 \in 0..7 /\ 7 \in 0..7
  OBVIOUS
<1>5. ASSUME NEW a \in 0..7, NEW b \in 0..7, a # b, Lap[a + 1] = i, Lap[b + 1] = i
      PROVE  \E x, y \in 0..7 :
               /\ x # y
               /\ \A l \in Nat : CacheOf(8 * l + x) = i /\ CacheOf(8 * l + y) = i
  BY <1>2, <1>5
<1>6. CASE i = 1
  <2>1. 1 # 6
    OBVIOUS
  <2>. QED BY <1>3, <1>4, <1>5, <1>6, <2>1, Zenon
<1>7. CASE i = 2
  <2>1. 0 # 4
    OBVIOUS
  <2>. QED BY <1>3, <1>4, <1>5, <1>7, <2>1, Zenon
<1>8. CASE i = 3
  <2>1. 3 # 7
    OBVIOUS
  <2>. QED BY <1>3, <1>4, <1>5, <1>8, <2>1, Zenon
<1>9. CASE i = 4
  <2>1. 2 # 5
    OBVIOUS
  <2>. QED BY <1>3, <1>4, <1>5, <1>9, <2>1, Zenon
<1>. QED BY <1>6, <1>7, <1>8, <1>9 DEF Caches

\* So a wrong reference that the whole gate has not seen has been matched by a fault
\* of the pool at each of them.
LEMMA UnseenCosts ==
  ASSUME NEW combo \in Combos, Unseen(combo), IsFiniteSet(faults),
         phase \notin {"fresh", "reuse", "rerun"}
  PROVE  2 * (Passes \div 8) + 1 <= Cardinality(faults)
<1> DEFINE L == Passes \div 8
<1>1. /\ Passes \in Nat /\ L \in Nat /\ 8 * L <= Passes
  BY ReuseAssumption
<1>2. PICK a \in 0..7, b \in 0..7 :
        /\ a # b
        /\ \A l \in Nat : CacheOf(8 * l + a) = combo[1] /\ CacheOf(8 * l + b) = combo[1]
  BY TwicePerLap DEF Combos
<1> DEFINE at(k) == IF k < L THEN 8 * k + a ELSE 8 * (k - L) + b
           g == [k \in 0..(2 * L) |-> IF k = 2 * L THEN FreshFault(combo) ELSE ReuseFault(combo, at(k))]
<1>. HIDE DEF L
<1>3. ASSUME NEW k \in 0..(2 * L), k # 2 * L
      PROVE  at(k) \in 0..(Passes - 1) /\ CacheOf(at(k)) = combo[1]
  <2>1. CASE k < L
    <3>1. k \in Nat /\ at(k) = 8 * k + a /\ 8 * k + a \in 0..(Passes - 1)
      BY <1>1, <2>1
    <3>. QED BY <1>2, <3>1
  <2>2. CASE ~(k < L)
    <3>1. k - L \in Nat /\ at(k) = 8 * (k - L) + b /\ 8 * (k - L) + b \in 0..(Passes - 1)
      BY <1>1, <1>3, <2>2
    <3>. QED BY <1>2, <3>1
  <2>. QED BY <2>1, <2>2
<1>4. ASSUME NEW k \in 0..(2 * L), NEW m \in 0..(2 * L), k # 2 * L, m # 2 * L, at(k) = at(m)
      PROVE  k = m
  BY <1>1, <1>2, <1>4
<1>5. ASSUME NEW k \in 0..(2 * L)
      PROVE  g[k] \in faults
  <2>1. CASE k = 2 * L
    BY <2>1 DEF Unseen
  <2>2. CASE k # 2 * L
    <3>1. Visited(at(k), combo[2], combo[3])
      BY DEF Visited
    <3>2. at(k) \in 0..(Passes - 1) /\ CacheOf(at(k)) = combo[1]
      BY <1>3, <2>2
    <3>3. ReuseFault(combo, at(k)) \in faults
      <4>. HIDE DEF at
      <4>. QED BY <3>1, <3>2 DEF Unseen
    <3>. QED BY <2>2, <3>3
  <2>. QED BY <2>1, <2>2
<1>6. ASSUME NEW k \in 0..(2 * L), NEW m \in 0..(2 * L), g[k] = g[m]
      PROVE  k = m
  <2>. HIDE DEF at
  <2>1. \A q : FreshFault(combo) # ReuseFault(combo, q)
    BY DEF FreshFault, ReuseFault
  <2>2. \A q, r : ReuseFault(combo, q) = ReuseFault(combo, r) => q = r
    BY DEF ReuseFault
  <2>3. \A x \in 0..(2 * L) : g[x] = IF x = 2 * L THEN FreshFault(combo) ELSE ReuseFault(combo, at(x))
    OBVIOUS
  <2>. HIDE DEF g
  <2>4. CASE k = 2 * L \/ m = 2 * L
    BY <1>6, <2>1, <2>3, <2>4
  <2>5. CASE k # 2 * L /\ m # 2 * L
    BY <1>4, <1>6, <2>2, <2>3, <2>5
  <2>. QED BY <2>4, <2>5
<1>7. g \in Injection(0..(2 * L), faults)
  <2>1. g \in [0..(2 * L) -> faults]
    <3>. DEFINE body(k) == IF k = 2 * L THEN FreshFault(combo) ELSE ReuseFault(combo, at(k))
    <3>1. \A k \in 0..(2 * L) : body(k) \in faults
      BY <1>5
    <3>2. g = [k \in 0..(2 * L) |-> body(k)]
      OBVIOUS
    <3>. HIDE DEF body, g
    <3>. QED BY <3>1, <3>2
  <2>. HIDE DEF g
  <2>. QED BY <1>6, <2>1 DEF Injection, IsInjective
<1>8. Cardinality(0..(2 * L)) <= Cardinality(faults)
  <2>. HIDE DEF g
  <2>. QED BY <1>7, FS_Injection
<1>9. Cardinality(0..(2 * L)) = 2 * L + 1
  <2>1. 0 \in Int /\ 2 * L \in Int /\ ~(0 > 2 * L) /\ 2 * L - 0 + 1 = 2 * L + 1
    BY <1>1
  <2>. QED BY <2>1, FS_Interval
<1>. QED BY <1>8, <1>9 DEF L

\* B0 passes a codec that went wrong only when it was wrong twice a lap and once more,
\* in the same way every time; with fewer faults than that, a B0 that passed had every
\* round trip of the fresh buffers and of the pool right.
THEOREM PassMeansCodecWasRight ==
  ASSUME MaxFaults <= 2 * (Passes \div 8)
  PROVE  Spec => []PassedMeansNoFault
<1>1. MissedInv => PassedMeansNoFault
  <2> SUFFICES ASSUME MissedInv, phase = "passed", NEW f \in faults, f.phase # "negative"
               PROVE  FALSE
    BY DEF PassedMeansNoFault
  <2>1. PICK combo \in Combos : ref[combo] \in Faults
    BY DEF MissedInv
  <2>2. Unseen(combo) /\ IsFiniteSet(faults) /\ Cardinality(faults) <= MaxFaults
    BY <2>1 DEF MissedInv
  <2>3. 2 * (Passes \div 8) + 1 <= Cardinality(faults)
    BY <2>2, UnseenCosts
  <2>4. Cardinality(faults) \in Nat /\ MaxFaults \in Nat /\ Passes \div 8 \in Nat
    BY <2>2, FS_CardinalityType, ReuseAssumption
  <2>. QED BY <2>2, <2>3, <2>4
<1>2. IInv => TypeInv
  BY DEF IInv
<1>. QED BY <1>1, <1>2, InitIInv, NextIInv, InitMissed, NextMissed, PTL DEF Spec
=============================================================================
