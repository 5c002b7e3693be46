---------------------------- MODULE PairedProofs -----------------------------
(***************************************************************************)
(* benchmark_paths.py, for every cache, number of pairs, of segments and   *)
(* of warm-up runs, every shuffle, and runs that raise anywhere: no check  *)
(* meets the other arm's data, runs deliver through buffers every path and *)
(* arm has used, and the two orders balance within each block.             *)
(*                                                                         *)
(* The first two need FillLandsFirst, as the relay's own contents do.      *)
(* A pipelined run keeps what RelayProofs shows of a relay's pass, which   *)
(* RawP and CmpP name for the two arms; PipeInv and StreamsInv carry it,   *)
(* from whatever the runs before have left in the buffers.                 *)
(*                                                                         *)
(* None of the four invariants is inductive.  ProgramInv says what is left *)
(* of a block's program: a check always comes right behind the run of its  *)
(* own arm.  RunInv and StagedInv follow a run tensor by tensor; HeldInv   *)
(* says what it leaves for the check behind it; OrderInv counts the trials *)
(* on record against those the program still has.                          *)
(***************************************************************************)
EXTENDS PairedPaths, LayoutProofs

\* What is proved of the relay, for a pass of either arm's.
RawP == INSTANCE RelayProofs
          WITH Compressed <- FALSE, Bytes <- Sizes[FALSE],
               Payload <- [t \in Tensors |-> Shipped(FALSE, t)], dst <- dec,
               Transport <- "HostRing", ShortWrites <- FALSE, file <- [s \in Slots |-> Zeroed],
               Passes <- 1, pass <- 1, outcome <- "running"

CmpP == INSTANCE RelayProofs
          WITH Compressed <- TRUE, Bytes <- Sizes[TRUE],
               Payload <- [t \in Tensors |-> Shipped(TRUE, t)], dst <- dec,
               Transport <- "HostRing", ShortWrites <- FALSE, file <- [s \in Slots |-> Zeroed],
               Passes <- 1, pass <- 1, outcome <- "running"

-----------------------------------------------------------------------------
(* The inductive invariant.                                                 *)

Steps == [do : {"run", "check", "compare", "trial", "end"}, comp : BOOLEAN]

\* How often e stands in s.
Count(s, e) == Cardinality({k \in DOMAIN s : s[k] = e})

TypeInv ==
  /\ verifyOnly \in BOOLEAN /\ block \in Nat \ {0}
  /\ todo \in Seq(Steps) /\ at \in 0..(NTensors + 1)
  /\ RawP!TypeOK
  /\ hostFlat \in [1..Total(FALSE) -> Payloads \union {Nothing}]
  /\ file \in Seq(Payloads \union {Nothing})
  /\ trials \in Seq([block : Nat \ {0}, rawFirst : BOOLEAN])

\* A program, or what is left of one: checks follow the run they are of, each kind of
\* check belongs to one of the two ways to call the script, and End is its end.
ProgramShape(s, alone) ==
  /\ s # << >> => s[Len(s)] = End
  /\ \A k \in DOMAIN s :
       /\ s[k].do = "end" => k = Len(s)
       /\ k > 1 /\ s[k].do \in {"check", "compare"} => s[k - 1] = Run(s[k].comp)
       /\ s[k].do \in {"check", "trial"} => ~alone
       /\ s[k].do = "compare" => alone

ProgramInv ==
  /\ ProgramShape(todo, verifyOnly)
  /\ at > 0 => todo # << >> /\ Head(todo).do = "run"

\* No pipelined run is in the threads' hands, nor was one whose fills may land late.
Settled == PathOf(block) = "pipeline" => FillLandsFirst /\ at # 1

\* Behind the tensor a run has got to, GPU1 holds its results; ahead, nothing.
RunInv ==
  at > 0 /\ PathOf(block) # "fsync" /\ Settled =>
    \A t \in Tensors : out[t] = IF t < at THEN Shipped(Comp, t) ELSE Nothing

StagedInv ==
  at > 0 /\ PathOf(block) = "fsync" =>
    \A t \in Tensors : t < at =>
      \A k \in 1..Sizes[Comp][t] : hostFlat[Offset(Comp, t) + k] = Shipped(Comp, t)

\* What a run of an arm leaves.
Held(comp) ==
  IF PathOf(block) = "fsync"
  THEN /\ Len(file) = Total(comp)
       /\ \A t \in Tensors : \A k \in 1..Sizes[comp][t] :
            file[Offset(comp, t) + k] = Shipped(comp, t)
  ELSE \A t \in Tensors : out[t] = Shipped(comp, t)

HeldInv ==
  todo # << >> /\ Head(todo).do \in {"check", "compare"} /\ Settled => Held(Comp)

ChecksInv == FillLandsFirst => checks \in Seq({"ok"})

\* How many pairs of a block lead with the raw arm, and with the other.
Due(rawFirst) == IF rawFirst THEN PerSegment \div 2 ELSE PerSegment - PerSegment \div 2

Recorded(b, rawFirst) == Count(trials, [block |-> b, rawFirst |-> rawFirst])

OrderInv ==
  ~verifyOnly => \A b \in Nat \ {0} : \A r \in BOOLEAN :
    /\ b < block => Recorded(b, r) = Due(r)
    /\ b = block /\ todo # << >> => Recorded(b, r) + Count(todo, Trial(r)) = Due(r)
    /\ b = block /\ todo = << >> => Recorded(b, r) = 0
    /\ b > block => Recorded(b, r) = 0

MainInv ==
  /\ TypeInv /\ ProgramInv /\ RunInv /\ StagedInv /\ HeldInv /\ ChecksInv /\ OrderInv

\* While the threads run, what holds of a pass of the relay holds of theirs, on their arm.
PipeInv ==
  FillLandsFirst /\ Pipelining => IF Comp THEN CmpP!DeliveryInv ELSE RawP!DeliveryInv

\* Nothing is pending on a side stream outside a pipelined run.
StreamsInv == ~Pipelining => copy0 = << >> /\ copy1 = << >> /\ default1 = << >>

IInv == MainInv /\ PipeInv /\ StreamsInv

-----------------------------------------------------------------------------
(* How a payload is laid out in staging and in the file.                    *)

LEMMA SomeTensors ==
  /\ NTensors \in Nat \ {0} /\ Tensors = 1..NTensors
  /\ NTensors + 1 \in 1..(NTensors + 1) /\ NTensors + 1 \in Nat
  /\ \A comp \in BOOLEAN : Sizes[comp] \in [1..NTensors -> Nat \ {0}]
<1>1. \A c \in BOOLEAN : Sizes[c] \in Seq(Nat \ {0}) /\ Len(Sizes[c]) = NTensors
  BY PairedAssumption DEF NTensors
<1>2. NTensors # 0
  BY <1>1, PairedAssumption, EmptySeq
<1>3. NTensors \in Nat \ {0}
  <2>1. Len(Sizes[TRUE]) \in Nat
    BY <1>1, LenProperties
  <2>. QED BY <1>2, <2>1 DEF NTensors
<1>. QED BY <1>1, <1>3 DEF Tensors

LEMMA TensorSizes ==
  ASSUME NEW comp \in BOOLEAN, NEW t \in 1..NTensors
  PROVE  Sizes[comp][t] \in Nat \ {0} /\ Sizes[comp][t] <= Sizes[FALSE][t]
<1>1. Sizes[TRUE] \in [1..NTensors -> Nat \ {0}] /\ Sizes[FALSE] \in [1..NTensors -> Nat \ {0}]
  BY SomeTensors
<1>2. Sizes[TRUE][t] <= Sizes[FALSE][t]
  BY <1>1, PairedAssumption
<1>3. Sizes[TRUE][t] \in Nat \ {0} /\ Sizes[FALSE][t] \in Nat \ {0}
  BY <1>1
<1>4. Sizes[FALSE][t] <= Sizes[FALSE][t]
  <2>1. \A n \in Nat \ {0} : n <= n
    OBVIOUS
  <2>. QED BY Zenon, <1>3, <2>1
<1>. QED BY Zenon, <1>2, <1>3, <1>4

LEMMA OffsetsLaid ==
  ASSUME NEW comp \in BOOLEAN
  PROVE  /\ Offsets(comp) \in [1..(NTensors + 1) -> Nat]
         /\ Offsets(comp)[1] = 0
         /\ \A t \in 1..NTensors : Offsets(comp)[t + 1] = Offsets(comp)[t] + Sizes[comp][t]
<1> DEFINE n == NTensors
           s == Sizes[comp]
           acc == Offsets(comp)
<1>1. n \in Nat /\ s \in [1..n -> Nat]
  BY SomeTensors
<1>2. acc = CHOOSE g : g = [t \in 1..(n + 1) |-> IF t = 1 THEN 0 ELSE g[t - 1] + s[t - 1]]
  BY DEF Offsets
<1>3. PICK g \in [1..(n + 1) -> Nat] :
        g = [t \in 1..(n + 1) |-> IF t = 1 THEN 0 ELSE g[t - 1] + s[t - 1]]
  <2>1. n + 1 \in 1..(n + 1)
    BY <1>1
  <2>. HIDE DEF n, s
  <2>. QED BY <1>1, <2>1, SumsExist
<1>4. acc = [t \in 1..(n + 1) |-> IF t = 1 THEN 0 ELSE acc[t - 1] + s[t - 1]]
  <2>. HIDE DEF acc, n, s
  <2>. QED BY <1>2, <1>3
<1> HIDE DEF acc, n, s
<1> DEFINE Good == {t \in 1..(n + 1) : acc[t] \in Nat}
<1>5. \A t \in 1..(n + 1) : t \in Good
  <2>1. 1 \in Good
    BY <1>1, <1>4
  <2>2. ASSUME NEW t \in 2..(n + 1), t - 1 \in Good
        PROVE  t \in Good
    <3>1. acc[t] = acc[t - 1] + s[t - 1]
      BY <1>1, <1>4
    <3>. QED BY <1>1, <2>2, <3>1
  <2>3. n + 1 \in Nat
    BY <1>1
  <2>. HIDE DEF Good
  <2>. QED BY <2>1, <2>2, <2>3, UpTo
<1>6. acc \in [1..(n + 1) -> Nat] /\ acc[1] = 0
  BY <1>1, <1>4, <1>5
<1>7. \A t \in 1..n : acc[t + 1] = acc[t] + s[t]
  <2> TAKE t \in 1..n
  <2>1. t + 1 \in 1..(n + 1) /\ t + 1 # 1 /\ (t + 1) - 1 = t
    BY <1>1
  <2>. QED BY <1>4, <2>1
<1>. QED BY <1>6, <1>7 DEF acc, n, s

LEMMA OffsetTypes ==
  ASSUME NEW comp \in BOOLEAN
  PROVE  /\ Total(comp) \in Nat
         /\ \A t \in 1..(NTensors + 1) : Offset(comp, t) \in Nat
         /\ \A t \in 1..NTensors :
              /\ t \in 1..(NTensors + 1) /\ t + 1 \in 1..(NTensors + 1)
              /\ Offset(comp, t + 1) = Offset(comp, t) + Sizes[comp][t]
<1>1. NTensors \in Nat /\ NTensors + 1 \in 1..(NTensors + 1)
  BY SomeTensors
<1>2. \A t \in 1..(NTensors + 1) : Offset(comp, t) \in Nat
  BY OffsetsLaid DEF Offset
<1>. QED BY <1>1, <1>2, OffsetsLaid DEF Offset, Total

\* Regions come one behind the other, within the total.
LEMMA RegionsApart ==
  ASSUME NEW comp \in BOOLEAN, NEW t \in 1..NTensors, NEW u \in 1..(NTensors + 1), t < u
  PROVE  Offset(comp, t) + Sizes[comp][t] <= Offset(comp, u)
<1>1. NTensors \in Nat /\ Sizes[comp] \in [1..NTensors -> Nat]
  BY SomeTensors
<1>2. \A i \in 1..NTensors : \A j \in 1..(NTensors + 1) :
        i < j => Offsets(comp)[i] + Sizes[comp][i] <= Offsets(comp)[j]
  BY <1>1, OffsetsLaid, SumsGrow
<1>. QED BY <1>2 DEF Offset

LEMMA RegionInside ==
  ASSUME NEW comp \in BOOLEAN, NEW t \in 1..NTensors, NEW k \in 1..Sizes[comp][t]
  PROVE  Offset(comp, t) + k \in 1..Total(comp)
<1>1. /\ NTensors + 1 \in 1..(NTensors + 1) /\ t < NTensors + 1 /\ t \in 1..(NTensors + 1)
      /\ Sizes[comp][t] \in Nat
  BY SomeTensors, TensorSizes
<1>2. Offset(comp, t) + Sizes[comp][t] <= Total(comp)
  BY <1>1, RegionsApart DEF Total
<1>3. Offset(comp, t) \in Nat /\ Total(comp) \in Nat
  BY <1>1, OffsetTypes
<1>. QED BY <1>1, <1>2, <1>3

\* The compressed payload is no longer than the raw one: staging has room for either.
LEMMA StagingHasRoom ==
  ASSUME NEW comp \in BOOLEAN
  PROVE  Total(comp) <= Total(FALSE)
<1> DEFINE Good == {t \in 1..(NTensors + 1) : Offset(comp, t) <= Offset(FALSE, t)}
<1>1. NTensors \in Nat /\ NTensors + 1 \in 1..(NTensors + 1)
  BY SomeTensors
<1>2. 1 \in Good
  <2>1. Offset(comp, 1) = 0 /\ Offset(FALSE, 1) = 0
    BY OffsetsLaid DEF Offset
  <2>2. 1 \in 1..(NTensors + 1) /\ 0 <= 0
    BY <1>1
  <2>. QED BY Zenon, <2>1, <2>2
<1>3. ASSUME NEW t \in 2..(NTensors + 1), t - 1 \in Good
      PROVE  t \in Good
  <2>1. t - 1 \in 1..NTensors /\ (t - 1) + 1 = t /\ t - 1 \in 1..(NTensors + 1)
    BY <1>1
  <2>2. /\ Offset(comp, t) = Offset(comp, t - 1) + Sizes[comp][t - 1]
        /\ Offset(FALSE, t) = Offset(FALSE, t - 1) + Sizes[FALSE][t - 1]
    BY <2>1, OffsetTypes
  <2>3. /\ Sizes[comp][t - 1] <= Sizes[FALSE][t - 1]
        /\ Sizes[comp][t - 1] \in Nat /\ Sizes[FALSE][t - 1] \in Nat
    BY <2>1, TensorSizes
  <2>4. Offset(comp, t - 1) \in Nat /\ Offset(FALSE, t - 1) \in Nat
    BY <2>1, OffsetTypes
  <2>5. Offset(comp, t - 1) <= Offset(FALSE, t - 1)
    BY <1>3
  <2>6. Offset(comp, t) <= Offset(FALSE, t)
    <3>1. \A a, b, c, d \in Nat : a <= b /\ c <= d => a + c <= b + d
      OBVIOUS
    <3>. QED BY Zenon, <2>2, <2>3, <2>4, <2>5, <3>1
  <2>7. t \in 1..(NTensors + 1)
    BY <1>1
  <2>. QED BY Zenon, <2>6, <2>7
<1>4. \A t \in 1..(NTensors + 1) : t \in Good
  <2>1. NTensors + 1 \in Nat
    BY <1>1
  <2>. HIDE DEF Good
  <2>. QED BY <1>2, <1>3, <2>1, UpTo
<1>5. NTensors + 1 \in Good
  BY <1>1, <1>4
<1>. QED BY <1>5 DEF Total

-----------------------------------------------------------------------------
(* Counting.                                                                *)

LEMMA CountType ==
  ASSUME NEW S, NEW s \in Seq(S), NEW e
  PROVE  /\ IsFiniteSet({k \in DOMAIN s : s[k] = e})
         /\ Count(s, e) \in Nat
<1>1. DOMAIN s = 1..Len(s) /\ Len(s) \in Nat
  BY LenProperties
<1>2. IsFiniteSet(1..Len(s))
  BY <1>1, FS_Interval
<1>3. {k \in DOMAIN s : s[k] = e} \in SUBSET (1..Len(s))
  BY <1>1
<1>4. IsFiniteSet({k \in DOMAIN s : s[k] = e})
  BY <1>2, <1>3, FS_Subset
<1>. QED BY <1>4, FS_CardinalityType DEF Count

LEMMA CountNone ==
  ASSUME NEW s, NEW e, \A k \in DOMAIN s : s[k] # e
  PROVE  Count(s, e) = 0
<1>1. {k \in DOMAIN s : s[k] = e} = {}
  OBVIOUS
<1>. QED BY <1>1, FS_EmptySet DEF Count

LEMMA CountOne ==
  ASSUME NEW x, NEW e
  PROVE  Count(<<x>>, e) = IF x = e THEN 1 ELSE 0
<1>1. DOMAIN <<x>> = {1} /\ <<x>>[1] = x
  OBVIOUS
<1>2. CASE x = e
  <2>1. {k \in DOMAIN <<x>> : <<x>>[k] = e} = {1}
    BY <1>1, <1>2
  <2>. QED BY <1>2, <2>1, FS_Singleton DEF Count
<1>3. CASE x # e
  BY <1>1, <1>3, CountNone
<1>. QED BY <1>2, <1>3

LEMMA CountConcat ==
  ASSUME NEW S, NEW u \in Seq(S), NEW v \in Seq(S), NEW e
  PROVE  Count(u \o v, e) = Count(u, e) + Count(v, e)
<1> DEFINE A == {k \in DOMAIN u : u[k] = e}
           B == {k \in DOMAIN v : v[k] = e}
           C == {k \in DOMAIN (u \o v) : (u \o v)[k] = e}
           D == {k \in (Len(u) + 1)..(Len(u) + Len(v)) : v[k - Len(u)] = e}
<1>1. /\ Len(u) \in Nat /\ Len(v) \in Nat
      /\ DOMAIN u = 1..Len(u) /\ DOMAIN v = 1..Len(v)
      /\ u \o v \in Seq(S) /\ Len(u \o v) = Len(u) + Len(v)
      /\ DOMAIN (u \o v) = 1..(Len(u) + Len(v))
      /\ \A i \in 1..(Len(u) + Len(v)) :
           (u \o v)[i] = IF i <= Len(u) THEN u[i] ELSE v[i - Len(u)]
  BY ConcatProperties, LenProperties
<1>2. C = A \union D
  BY <1>1
<1>3. A \cap D = {}
  BY <1>1
<1>4. IsFiniteSet(A) /\ IsFiniteSet(B) /\ Cardinality(A) = Count(u, e) /\ Cardinality(B) = Count(v, e)
  BY CountType DEF Count
<1>5. IsFiniteSet(D) /\ Cardinality(D) = Cardinality(B)
  <2> DEFINE g == [k \in B |-> k + Len(u)]
  <2>1. g \in [B -> D]
    BY <1>1
  <2>2. \A a, b \in B : g[a] = g[b] => a = b
    BY <1>1
  <2>3. \A d \in D : \E b \in B : g[b] = d
    <3> TAKE d \in D
    <3>1. d - Len(u) \in 1..Len(v) /\ (d - Len(u)) + Len(u) = d
      <4>1. Len(u) \in Nat /\ Len(v) \in Nat /\ d \in (Len(u) + 1)..(Len(u) + Len(v))
        BY <1>1
      <4>. HIDE DEF A, B, C, D, g
      <4>. QED BY <4>1
    <3>2. d - Len(u) \in B
      BY <1>1, <3>1
    <3>. QED BY <3>1, <3>2
  <2>4. g \in Bijection(B, D)
    <3>. HIDE DEF g, B, D
    <3>. QED BY <2>1, <2>2, <2>3 DEF Bijection, Injection, Surjection, IsInjective
  <2>. HIDE DEF B, D, g
  <2>5. ExistsBijection(B, D)
    BY <2>4 DEF ExistsBijection
  <2>. QED BY <1>4, <2>5, FS_Bijection
<1>6. Cardinality(A \union D) = Cardinality(A) + Cardinality(D) - Cardinality({})
  <2>. HIDE DEF A, D
  <2>. QED BY <1>3, <1>4, <1>5, FS_Union
<1>7. Cardinality(A) \in Nat /\ Cardinality(B) \in Nat /\ Cardinality({}) = 0
  <2>. HIDE DEF A, B
  <2>. QED BY <1>4, FS_CardinalityType, FS_EmptySet
<1>8. Count(u \o v, e) = Cardinality(C)
  BY DEF Count
<1>. QED
  <2>. HIDE DEF A, B, C, D
  <2>. QED BY <1>2, <1>4, <1>5, <1>6, <1>7, <1>8

LEMMA CountAppend ==
  ASSUME NEW S, NEW s \in Seq(S), NEW x \in S, NEW e
  PROVE  Count(Append(s, x), e) = Count(s, e) + (IF x = e THEN 1 ELSE 0)
<1>1. Append(s, x) = s \o <<x>> /\ <<x>> \in Seq(S)
  BY AppendIsConcat
<1>2. Count(s \o <<x>>, e) = Count(s, e) + Count(<<x>>, e)
  BY <1>1, CountConcat
<1>. QED BY <1>1, <1>2, CountOne

LEMMA CountTail ==
  ASSUME NEW S, NEW s \in Seq(S), s # << >>, NEW e
  PROVE  Count(s, e) = Count(Tail(s), e) + (IF Head(s) = e THEN 1 ELSE 0)
<1>1. Head(s) \in S /\ Tail(s) \in Seq(S) /\ <<Head(s)>> \in Seq(S)
  BY HeadTailProperties
<1>2. s = <<Head(s)>> \o Tail(s)
  BY <1>1
<1>3. Count(<<Head(s)>> \o Tail(s), e) = Count(<<Head(s)>>, e) + Count(Tail(s), e)
  BY <1>1, CountConcat
<1>4. Count(Tail(s), e) \in Nat
  BY <1>1, CountType
<1>5. Count(<<Head(s)>>, e) = IF Head(s) = e THEN 1 ELSE 0
  BY CountOne
<1>6. \A n \in Nat : 1 + n = n + 1 /\ 0 + n = n + 0
  OBVIOUS
<1>7. Count(s, e) = Count(<<Head(s)>>, e) + Count(Tail(s), e)
  BY Zenon, <1>2, <1>3
<1>. QED
  <2>1. CASE Head(s) = e
    BY Zenon, <1>4, <1>5, <1>6, <1>7, <2>1
  <2>2. CASE Head(s) # e
    BY Zenon, <1>4, <1>5, <1>6, <1>7, <2>2
  <2>. QED BY <2>1, <2>2
-----------------------------------------------------------------------------
(* The program of a block.                                                  *)

LEMMA PairCount == PerSegment \in Nat /\ PerSegment \div 2 \in 0..PerSegment
<1>1. \A p \in Nat : \A s \in Nat \ {0} : p \div s \in Nat
  OBVIOUS
<1>2. PerSegment \in Nat
  BY Zenon, <1>1, PairedAssumption DEF PerSegment
<1>. QED BY <1>2

Runs  == {Run(FALSE), Run(TRUE)}
Moves == Runs \union {Trial(FALSE), Trial(TRUE)}

LEMMA StepTypes ==
  /\ \A comp \in BOOLEAN : Run(comp) \in Runs /\ Run(comp) \in Moves /\ Trial(comp) \in Moves
  /\ Runs \subseteq Steps /\ Moves \subseteq Steps /\ Runs \subseteq Moves
  /\ \A x \in Moves : x.do \in {"run", "trial"}
  /\ \A x \in Runs : x.do = "run"
  /\ \A comp \in BOOLEAN : Check(comp) \in Steps /\ Compare(comp) \in Steps
  /\ End \in Steps
<1>1. \A comp \in BOOLEAN : Run(comp) \in Runs /\ Trial(comp) \in Moves
  BY DEF Runs, Moves
<1>2. Runs \subseteq Steps /\ Moves \subseteq Steps /\ Runs \subseteq Moves
  BY DEF Runs, Moves, Steps, Run, Trial
<1>3. (\A x \in Moves : x.do \in {"run", "trial"}) /\ (\A x \in Runs : x.do = "run")
  BY DEF Runs, Moves, Run, Trial
<1>4. End \in Steps /\ \A comp \in BOOLEAN : Check(comp) \in Steps /\ Compare(comp) \in Steps
  BY DEF End, Check, Compare, Steps
<1>. QED BY <1>1, <1>2, <1>3, <1>4

\* A stretch of a program in which every check is behind its own arm's run.
ChecksFollow(s) ==
  /\ s \in Seq(Steps)
  /\ \A k \in DOMAIN s :
       /\ s[k].do \in {"run", "check", "trial"}
       /\ s[k].do = "check" => k > 1 /\ s[k - 1] = Run(s[k].comp)

LEMMA FollowConcat ==
  ASSUME NEW u, NEW v, ChecksFollow(u), ChecksFollow(v)
  PROVE  ChecksFollow(u \o v)
<1>1. u \in Seq(Steps) /\ v \in Seq(Steps)
  BY DEF ChecksFollow
<1>2. /\ Len(u) \in Nat /\ Len(v) \in Nat
      /\ DOMAIN u = 1..Len(u) /\ DOMAIN v = 1..Len(v)
      /\ u \o v \in Seq(Steps) /\ DOMAIN (u \o v) = 1..(Len(u) + Len(v))
  BY <1>1, ConcatProperties, LenProperties
<1>3. \A i \in 1..(Len(u) + Len(v)) : (u \o v)[i] = IF i <= Len(u) THEN u[i] ELSE v[i - Len(u)]
  BY <1>1, ConcatProperties
<1>4. ASSUME NEW k \in 1..(Len(u) + Len(v))
      PROVE  /\ (u \o v)[k].do \in {"run", "check", "trial"}
             /\ (u \o v)[k].do = "check" => k > 1 /\ (u \o v)[k - 1] = Run((u \o v)[k].comp)
  <2>1. CASE k <= Len(u)
    <3>1. k \in DOMAIN u /\ (u \o v)[k] = u[k]
      BY <1>2, <1>3, <2>1
    <3>2. k > 1 => (u \o v)[k - 1] = u[k - 1]
      BY <1>2, <1>3, <2>1
    <3>. QED BY <3>1, <3>2 DEF ChecksFollow
  <2>2. CASE ~(k <= Len(u))
    <3>1. k - Len(u) \in DOMAIN v /\ (u \o v)[k] = v[k - Len(u)]
      BY <1>2, <1>3, <2>2
    <3>2. k - Len(u) > 1 => k > 1 /\ (u \o v)[k - 1] = v[(k - Len(u)) - 1]
      <4>1. k - Len(u) > 1 =>
              /\ k > 1 /\ k - 1 \in 1..(Len(u) + Len(v)) /\ ~(k - 1 <= Len(u))
              /\ (k - 1) - Len(u) = (k - Len(u)) - 1
        BY <1>2, <2>2
      <4>. QED BY <1>3, <4>1
    <3>. QED BY <3>1, <3>2 DEF ChecksFollow
  <2>. QED BY <2>1, <2>2
<1>. QED BY <1>2, <1>4 DEF ChecksFollow

LEMMA MovesFollow ==
  ASSUME NEW s \in Seq(Moves)
  PROVE  ChecksFollow(s)
<1>1. s \in Seq(Steps)
  BY StepTypes, SeqMonotonic
<1>2. \A k \in DOMAIN s : s[k] \in Moves
  BY ElementOfSeq, LenProperties
<1>. QED BY <1>1, <1>2, StepTypes DEF ChecksFollow

LEMMA VerifyFollows ==
  /\ ChecksFollow(VerifyBoth) /\ VerifyBoth[1] = Run(FALSE) /\ Len(VerifyBoth) = 4
  /\ \A r : Count(VerifyBoth, Trial(r)) = 0
<1>1. /\ VerifyBoth \in Seq(Steps) /\ Len(VerifyBoth) = 4 /\ DOMAIN VerifyBoth = 1..4
      /\ VerifyBoth[1] = Run(FALSE) /\ VerifyBoth[2] = Check(FALSE)
      /\ VerifyBoth[3] = Run(TRUE) /\ VerifyBoth[4] = Check(TRUE)
  <2>1. Run(FALSE) \in Steps /\ Run(TRUE) \in Steps /\ Check(FALSE) \in Steps /\ Check(TRUE) \in Steps
    BY StepTypes
  <2>2. \A a, b, c, d \in Steps : \A x :
          x = <<a, b, c, d>> =>
            /\ x \in Seq(Steps) /\ Len(x) = 4 /\ DOMAIN x = 1..4
            /\ x[1] = a /\ x[2] = b /\ x[3] = c /\ x[4] = d
    OBVIOUS
  <2>3. ASSUME NEW a, NEW b, NEW c, NEW d,
               a = Run(FALSE), b = Check(FALSE), c = Run(TRUE), d = Check(TRUE)
        PROVE  VerifyBoth = <<a, b, c, d>>
    BY <2>3 DEF VerifyBoth
  <2>4. PICK a, b, c, d :
          a = Run(FALSE) /\ b = Check(FALSE) /\ c = Run(TRUE) /\ d = Check(TRUE)
    OBVIOUS
  <2>5. a \in Steps /\ b \in Steps /\ c \in Steps /\ d \in Steps
    BY <2>1, <2>4
  <2>6. VerifyBoth = <<a, b, c, d>>
    BY <2>3, <2>4
  <2>7. /\ VerifyBoth \in Seq(Steps) /\ Len(VerifyBoth) = 4 /\ DOMAIN VerifyBoth = 1..4
        /\ VerifyBoth[1] = a /\ VerifyBoth[2] = b /\ VerifyBoth[3] = c /\ VerifyBoth[4] = d
    BY <2>2, <2>5, <2>6
  <2>. QED BY <2>4, <2>7
<1>2. \A k \in 1..4 : k = 1 \/ k = 2 \/ k = 3 \/ k = 4
  OBVIOUS
<1>3. ChecksFollow(VerifyBoth)
  <2>1. /\ \A c : Run(c).do = "run" /\ Run(c).comp = c
        /\ \A c : Check(c).do = "check" /\ Check(c).comp = c
    BY DEF Run, Check
  <2>2. 4 - 1 = 3 /\ 2 - 1 = 1 /\ 4 > 1 /\ 2 > 1
    OBVIOUS
  <2>3. ASSUME NEW k \in DOMAIN VerifyBoth
        PROVE  /\ VerifyBoth[k].do \in {"run", "check", "trial"}
               /\ VerifyBoth[k].do = "check" =>
                    k > 1 /\ VerifyBoth[k - 1] = Run(VerifyBoth[k].comp)
    <3>1. CASE k = 1
      <4>1. VerifyBoth[k].do = "run"
        BY Zenon, <1>1, <2>1, <3>1
      <4>. QED BY <4>1
    <3>2. CASE k = 2
      <4>1. VerifyBoth[k].do = "check" /\ VerifyBoth[k].comp = FALSE /\ VerifyBoth[k - 1] = Run(FALSE)
        BY Zenon, <1>1, <2>1, <2>2, <3>2
      <4>. QED BY Zenon, <2>2, <3>2, <4>1
    <3>3. CASE k = 3
      <4>1. VerifyBoth[k].do = "run"
        BY Zenon, <1>1, <2>1, <3>3
      <4>. QED BY <4>1
    <3>4. CASE k = 4
      <4>1. VerifyBoth[k].do = "check" /\ VerifyBoth[k].comp = TRUE /\ VerifyBoth[k - 1] = Run(TRUE)
        BY Zenon, <1>1, <2>1, <2>2, <3>4
      <4>. QED BY Zenon, <2>2, <3>4, <4>1
    <3>. QED BY Zenon, <1>1, <1>2, <3>1, <3>2, <3>3, <3>4
  <2>. QED BY Zenon, <1>1, <2>3 DEF ChecksFollow
<1>4. \A r : \A k \in DOMAIN VerifyBoth : VerifyBoth[k] # Trial(r)
  BY <1>1, <1>2 DEF Run, Check, Trial
<1>. QED BY <1>1, <1>3, <1>4, CountNone

LEMMA WarmUpFollows ==
  LET w == FlattenSeq([k \in 1..Warmup |-> <<Run(FALSE), Run(TRUE)>>])
  IN  /\ w \in Seq(Runs)
      /\ w # << >> => w[1] \in Runs
      /\ \A r : Count(w, Trial(r)) = 0
<1> DEFINE s == [k \in 1..Warmup |-> <<Run(FALSE), Run(TRUE)>>]
           o == [i \in 1..(Warmup + 1) |-> 2 * (i - 1)]
           w == FlattenSeq(s)
<1>1. Warmup \in Nat
  BY PairedAssumption
<1>2. <<Run(FALSE), Run(TRUE)>> \in Seq(Runs) /\ Len(<<Run(FALSE), Run(TRUE)>>) = 2
  <2>1. \A a, b \in Runs : <<a, b>> \in Seq(Runs) /\ Len(<<a, b>>) = 2
    OBVIOUS
  <2>2. Run(FALSE) \in Runs /\ Run(TRUE) \in Runs
    BY StepTypes
  <2>. QED BY Zenon, <2>1, <2>2
<1>3. s \in [1..Warmup -> Seq(Runs)] /\ \A i \in 1..Warmup : Len(s[i]) = 2
  BY <1>2
<1>4. /\ o \in [1..(Warmup + 1) -> Nat] /\ o[1] = 0
      /\ \A i \in 1..Warmup : o[i + 1] = o[i] + 2
  BY <1>1
<1>5. w \in Seq(Runs)
  <2>. HIDE DEF s, o
  <2>1. \A i \in 1..Warmup : o[i + 1] = o[i] + Len(s[i])
    BY <1>3, <1>4
  <2>2. Laid(Runs, Warmup, s, o)
    BY <1>1, <1>3, <1>4, <2>1, FlattenLaid
  <2>. QED BY <2>2 DEF Laid
<1>6. \A k \in DOMAIN w : w[k] \in Runs
  <2>. HIDE DEF w
  <2>. QED BY <1>5, ElementOfSeq, LenProperties
<1>7. w # << >> => 1 \in DOMAIN w
  <2>. HIDE DEF w
  <2>. QED BY <1>5, EmptySeq, LenProperties
<1>8. \A r : \A k \in DOMAIN w : w[k] # Trial(r)
  <2>1. \A r : Trial(r).do = "trial"
    BY DEF Trial
  <2>. HIDE DEF w
  <2>. QED BY <1>6, <2>1, StepTypes
<1>. QED
  <2>1. \A r : Count(w, Trial(r)) = 0
    <3>. HIDE DEF w
    <3>. QED BY <1>8, CountNone
  <2>. QED BY <1>5, <1>6, <1>7, <2>1
\* The pairs of a block, in any order: a trial recorded for each of them.
LEMMA PairsFollow ==
  ASSUME NEW orders \in [1..PerSegment -> BOOLEAN], NEW r \in BOOLEAN
  PROVE  LET p == FlattenSeq([k \in 1..PerSegment |-> Pair(orders[k])])
         IN  /\ p \in Seq(Moves)
             /\ Count(p, Trial(r)) = Cardinality({k \in 1..PerSegment : orders[k] = r})
<1> DEFINE n == PerSegment
           s == [k \in 1..n |-> Pair(orders[k])]
           o == [i \in 1..(n + 1) |-> 3 * (i - 1)]
           p == FlattenSeq(s)
           A == {k \in 1..n : orders[k] = r}
           B == {k \in DOMAIN p : p[k] = Trial(r)}
<1>1. n \in Nat
  BY PairCount
<1>2. ASSUME NEW i \in 1..n
      PROVE  /\ s[i] \in Seq(Moves) /\ Len(s[i]) = 3
             /\ s[i][1] \in Runs /\ s[i][2] \in Runs /\ s[i][3] = Trial(orders[i])
  <2>1. PICK a, b, c : a = Run(~orders[i]) /\ b = Run(orders[i]) /\ c = Trial(orders[i])
    OBVIOUS
  <2>2. orders[i] \in BOOLEAN /\ (~orders[i]) \in BOOLEAN
    OBVIOUS
  <2>3. a \in Runs /\ b \in Runs /\ a \in Moves /\ b \in Moves /\ c \in Moves
    BY <2>1, <2>2, StepTypes
  <2>4. s[i] = Pair(orders[i])
    OBVIOUS
  <2>5. Pair(orders[i]) = <<a, b, c>>
    BY <2>1 DEF Pair
  <2>6. \A x : x = <<a, b, c>> =>
          x \in Seq(Moves) /\ Len(x) = 3 /\ x[1] = a /\ x[2] = b /\ x[3] = c
    BY <2>3
  <2>. HIDE DEF s
  <2>7. s[i] \in Seq(Moves) /\ Len(s[i]) = 3 /\ s[i][1] = a /\ s[i][2] = b /\ s[i][3] = c
    BY Zenon, <2>4, <2>5, <2>6
  <2>. QED BY Zenon, <2>1, <2>3, <2>7
<1>3. /\ o \in [1..(n + 1) -> Nat] /\ o[1] = 0 /\ o[n + 1] = 3 * n
      /\ \A i \in 1..n : o[i] = 3 * (i - 1) /\ o[i + 1] = o[i] + 3
  <2>. HIDE DEF n
  <2>. QED BY <1>1
<1>4. /\ p \in Seq(Moves) /\ Len(p) = 3 * n /\ DOMAIN p = 1..(3 * n)
      /\ \A i \in 1..n : \A k \in 1..3 : p[3 * (i - 1) + k] = s[i][k]
  <2>1. s \in [1..n -> Seq(Moves)] /\ \A i \in 1..n : Len(s[i]) = 3
    <3>1. \A i \in 1..n : s[i] \in Seq(Moves) /\ Len(s[i]) = 3
      BY <1>2
    <3>2. s = [i \in 1..n |-> s[i]]
      OBVIOUS
    <3>. HIDE DEF s
    <3>. QED BY <3>1, <3>2
  <2>. HIDE DEF s, o, n
  <2>2. \A i \in 1..n : o[i + 1] = o[i] + Len(s[i])
    BY <1>3, <2>1
  <2>3. /\ p \in Seq(Moves) /\ Len(p) = o[n + 1]
        /\ \A i \in 1..n : \A k \in 1..Len(s[i]) : p[o[i] + k] = s[i][k]
    <3>1. /\ n \in Nat /\ s \in [1..n -> Seq(Moves)] /\ o \in [1..(n + 1) -> Nat] /\ o[1] = 0
          /\ \A i \in 1..n : o[i + 1] = o[i] + Len(s[i])
      BY <1>1, <1>3, <2>1, <2>2
    <3>2. /\ FlattenSeq(s) \in Seq(Moves) /\ Len(FlattenSeq(s)) = o[n + 1]
          /\ \A i \in 1..n : \A k \in 1..Len(s[i]) : FlattenSeq(s)[o[i] + k] = s[i][k]
      <4>1. Laid(Moves, n, s, o)
        BY <3>1, FlattenLaid
      <4>. QED BY <4>1 DEF Laid
    <3>. QED BY <3>2
  <2>4. DOMAIN p = 1..Len(p)
    <3>. HIDE DEF p
    <3>. QED BY <2>3, LenProperties
  <2>5. \A i \in 1..n : \A k \in 1..3 : p[3 * (i - 1) + k] = s[i][k]
    <3> TAKE i \in 1..n
    <3> TAKE k \in 1..3
    <3>1. k \in 1..Len(s[i]) /\ o[i] = 3 * (i - 1)
      BY <1>3, <2>1
    <3>2. p[o[i] + k] = s[i][k]
      BY <2>3, <3>1
    <3>. HIDE DEF p
    <3>. QED BY <3>1, <3>2
  <2>. HIDE DEF p
  <2>. QED BY <1>3, <2>3, <2>4, <2>5
<1>5. \A c, d \in BOOLEAN : Trial(c) = Trial(d) => c = d
  BY DEF Trial
<1>6. \A x \in Runs : x # Trial(r)
  BY StepTypes DEF Trial
<1>7. Cardinality(B) = Cardinality(A)
  <2> DEFINE g == [k \in A |-> 3 * (k - 1) + 3]
  <2>. HIDE DEF p, n, s
  <2>1. ASSUME NEW k \in A
        PROVE  3 * (k - 1) + 3 \in B
    <3>1. k \in 1..n /\ orders[k] = r
      OBVIOUS
    <3>2. 3 * (k - 1) + 3 \in DOMAIN p
      BY <1>1, <1>4, <3>1
    <3>3. p[3 * (k - 1) + 3] = Trial(orders[k])
      BY <1>2, <1>4, <3>1
    <3>. QED BY <3>1, <3>2, <3>3
  <2>2. \A a, b \in A : g[a] = g[b] => a = b
    BY <1>1
  <2>3. \A j \in B : \E k \in A : g[k] = j
    <3> TAKE j \in B
    <3> DEFINE i == (j - 1) \div 3 + 1
    <3>1. j \in 1..(3 * n) /\ p[j] = Trial(r)
      BY <1>4
    <3>2. i \in 1..n /\ j - 3 * (i - 1) \in 1..3 /\ j = 3 * (i - 1) + (j - 3 * (i - 1))
      BY <1>1, <3>1
    <3>. HIDE DEF i
    <3>3. p[j] = s[i][j - 3 * (i - 1)]
      BY <1>4, <3>2
    <3>4. j - 3 * (i - 1) \notin {1, 2}
      <4>1. s[i][1] # Trial(r) /\ s[i][2] # Trial(r)
        BY <1>2, <1>6, <3>2
      <4>. QED BY <3>1, <3>3, <4>1
    <3>5. j - 3 * (i - 1) = 3 /\ j = 3 * (i - 1) + 3
      BY <1>1, <3>1, <3>2, <3>4
    <3>6. Trial(orders[i]) = Trial(r) /\ orders[i] \in BOOLEAN
      BY <1>2, <3>1, <3>2, <3>3, <3>5 DEF n
    <3>7. i \in A
      BY <1>5, <3>2, <3>6
    <3>. QED BY <3>5, <3>7
  <2>4. g \in [A -> B]
    <3>. HIDE DEF A, B
    <3>. QED BY <2>1
  <2>5. g \in Bijection(A, B)
    <3>. HIDE DEF g, A, B
    <3>. QED BY <2>2, <2>3, <2>4 DEF Bijection, Injection, Surjection, IsInjective
  <2>6. IsFiniteSet(A)
    <3>1. IsFiniteSet(1..n) /\ A \in SUBSET (1..n)
      BY <1>1, FS_Interval
    <3>. HIDE DEF A
    <3>. QED BY <3>1, FS_Subset
  <2>. HIDE DEF A, B, g
  <2>. QED BY <2>5, <2>6, FS_Bijection DEF ExistsBijection
<1>. QED BY <1>4, <1>7 DEF Count

LEMMA OrdersDue ==
  ASSUME NEW orders \in Orders, NEW r \in BOOLEAN
  PROVE  /\ orders \in [1..PerSegment -> BOOLEAN]
         /\ Cardinality({k \in 1..PerSegment : orders[k] = r}) = Due(r)
<1> DEFINE A == {k \in 1..PerSegment : orders[k]}
           B == {k \in 1..PerSegment : ~orders[k]}
<1>1. orders \in [1..PerSegment -> BOOLEAN] /\ Cardinality(A) = PerSegment \div 2
  BY DEF Orders
<1>2. PerSegment \in Nat /\ PerSegment \div 2 \in 0..PerSegment
  BY PairCount
<1>3. IsFiniteSet(1..PerSegment) /\ Cardinality(1..PerSegment) = PerSegment
  <2>1. \A n \in Nat : IsFiniteSet(1..n) /\ Cardinality(1..n) = n
    <3> TAKE n \in Nat
    <3>1. Cardinality(1..n) = IF 1 > n THEN 0 ELSE n - 1 + 1
      BY FS_Interval
    <3>. QED BY <3>1, FS_Interval
  <2>. QED BY Zenon, <1>2, <2>1
<1>4. A \in SUBSET (1..PerSegment) /\ B \in SUBSET (1..PerSegment)
      /\ A \union B = 1..PerSegment /\ A \cap B = {}
  OBVIOUS
<1>5. IsFiniteSet(A) /\ IsFiniteSet(B) /\ Cardinality(B) \in Nat
  <2>. HIDE DEF A, B
  <2>. QED BY <1>3, <1>4, FS_Subset, FS_CardinalityType
<1>6. Cardinality(A \union B) = Cardinality(A) + Cardinality(B) - Cardinality({})
  <2>. HIDE DEF A, B
  <2>. QED BY <1>4, <1>5, FS_Union
<1>7. Cardinality(B) = PerSegment - PerSegment \div 2
  <2>. HIDE DEF A, B
  <2>1. PerSegment = PerSegment \div 2 + Cardinality(B) - 0
    BY Zenon, <1>1, <1>3, <1>4, <1>6, FS_EmptySet
  <2>2. \A n, h, b \in Nat : n = h + b - 0 => b = n - h
    OBVIOUS
  <2>3. PerSegment \div 2 \in Nat
    BY <1>2
  <2>. QED BY Zenon, <1>2, <1>5, <2>1, <2>2, <2>3
<1>8. CASE r = TRUE
  <2>1. {k \in 1..PerSegment : orders[k] = r} = A
    BY Zenon, <1>1, <1>8
  <2>. QED BY Zenon, <1>1, <1>8, <2>1 DEF Due
<1>9. CASE r = FALSE
  <2>1. {k \in 1..PerSegment : orders[k] = r} = B
    BY Zenon, <1>1, <1>9
  <2>. QED BY Zenon, <1>1, <1>7, <1>9, <2>1 DEF Due
<1>. QED BY Zenon, <1>8, <1>9

LEMMA ProgramFollows ==
  ASSUME NEW orders \in Orders
  PROVE  /\ ChecksFollow(Program(orders)) /\ Program(orders) # << >>
         /\ Program(orders)[1] \in Runs
         /\ \A r \in BOOLEAN : Count(Program(orders), Trial(r)) = Due(r)
<1> DEFINE w == FlattenSeq([k \in 1..Warmup |-> <<Run(FALSE), Run(TRUE)>>])
           p == FlattenSeq([k \in 1..PerSegment |-> Pair(orders[k])])
           wv  == w \o VerifyBoth
           wvp == wv \o p
<1>1. Program(orders) = wvp \o VerifyBoth
  BY DEF Program
<1>2. /\ w \in Seq(Runs) /\ w \in Seq(Moves) /\ (w # << >> => w[1] \in Runs)
      /\ \A r : Count(w, Trial(r)) = 0
  <2>1. w \in Seq(Runs) /\ (w # << >> => w[1] \in Runs) /\ \A r : Count(w, Trial(r)) = 0
    BY WarmUpFollows
  <2>. HIDE DEF w
  <2>. QED BY <2>1, StepTypes, SeqMonotonic
<1>3. /\ p \in Seq(Moves)
      /\ \A r \in BOOLEAN : Count(p, Trial(r)) = Due(r)
  <2>1. orders \in [1..PerSegment -> BOOLEAN]
    BY OrdersDue DEF Orders
  <2>2. \A r \in BOOLEAN :
          p \in Seq(Moves) /\ Count(p, Trial(r)) = Cardinality({k \in 1..PerSegment : orders[k] = r})
    BY <2>1, PairsFollow
  <2>. HIDE DEF p
  <2>. QED BY <2>2, OrdersDue
<1> HIDE DEF w, p
<1>4. ChecksFollow(w) /\ ChecksFollow(p) /\ ChecksFollow(VerifyBoth)
  BY <1>2, <1>3, MovesFollow, VerifyFollows
<1>5. ChecksFollow(wv)
  BY <1>4, FollowConcat
<1>6. ChecksFollow(wvp)
  <2>. HIDE DEF wv
  <2>. QED BY <1>4, <1>5, FollowConcat
<1>7. ChecksFollow(Program(orders))
  <2>. HIDE DEF wvp
  <2>. QED BY <1>1, <1>4, <1>6, FollowConcat
<1>8. /\ w \in Seq(Steps) /\ p \in Seq(Steps) /\ VerifyBoth \in Seq(Steps)
      /\ wv \in Seq(Steps) /\ wvp \in Seq(Steps) /\ Program(orders) \in Seq(Steps)
  BY <1>4, <1>5, <1>6, <1>7 DEF ChecksFollow
<1>9. \A r \in BOOLEAN : Count(Program(orders), Trial(r)) = Due(r)
  <2> TAKE r \in BOOLEAN
  <2>1. Count(wv, Trial(r)) = Count(w, Trial(r)) + Count(VerifyBoth, Trial(r))
    BY <1>8, CountConcat
  <2>2. Count(wvp, Trial(r)) = Count(wv, Trial(r)) + Count(p, Trial(r))
    <3>. HIDE DEF wv
    <3>. QED BY <1>8, CountConcat
  <2>3. Count(wvp \o VerifyBoth, Trial(r)) = Count(wvp, Trial(r)) + Count(VerifyBoth, Trial(r))
    <3>. HIDE DEF wvp
    <3>. QED BY <1>8, CountConcat
  <2>4. Count(w, Trial(r)) = 0 /\ Count(VerifyBoth, Trial(r)) = 0 /\ Count(p, Trial(r)) = Due(r)
    BY <1>2, <1>3, VerifyFollows
  <2>5. Due(r) \in Nat
    <3>1. Count(p, Trial(r)) \in Nat
      BY <1>8, CountType
    <3>. QED BY <2>4, <3>1
  <2>6. \A n \in Nat : ((0 + 0) + n) + 0 = n
    OBVIOUS
  <2>. QED BY Zenon, <1>1, <2>1, <2>2, <2>3, <2>4, <2>5, <2>6
<1>10. /\ Len(w) \in Nat /\ Len(VerifyBoth) = 4 /\ Len(wv) = Len(w) + 4 /\ Len(wvp) \in Nat
       /\ Len(wvp) >= Len(wv) /\ Len(Program(orders)) = Len(wvp) + 4
  <2>1. Len(w) \in Nat /\ Len(p) \in Nat /\ Len(VerifyBoth) = 4
    BY <1>8, LenProperties, VerifyFollows
  <2>2. Len(wv) = Len(w) + Len(VerifyBoth)
    BY <1>8, ConcatProperties
  <2>3. Len(wvp) = Len(wv) + Len(p)
    <3>. HIDE DEF wv
    <3>. QED BY <1>8, ConcatProperties
  <2>4. Len(Program(orders)) = Len(wvp) + Len(VerifyBoth)
    <3>. HIDE DEF wvp
    <3>. QED BY <1>1, <1>8, ConcatProperties
  <2>. HIDE DEF wv, wvp
  <2>. QED BY <2>1, <2>2, <2>3, <2>4
<1>11. Program(orders) # << >>
  BY <1>10, EmptySeq
<1>12. Program(orders)[1] \in Runs
  <2>1. Program(orders)[1] = wvp[1]
    <3>1. 1 \in 1..(Len(wvp) + Len(VerifyBoth)) /\ 1 <= Len(wvp)
      BY <1>10
    <3>. HIDE DEF wvp
    <3>. QED BY <1>1, <1>8, <3>1, ConcatProperties
  <2>2. wvp[1] = wv[1]
    <3>1. 1 \in 1..(Len(wv) + Len(p)) /\ 1 <= Len(wv) /\ Len(p) \in Nat
      BY <1>8, <1>10, LenProperties
    <3>. HIDE DEF wv
    <3>. QED BY <1>8, <3>1, ConcatProperties
  <2>3. wv[1] = IF 1 <= Len(w) THEN w[1] ELSE VerifyBoth[1 - Len(w)]
    <3>1. 1 \in 1..(Len(w) + Len(VerifyBoth))
      BY <1>10
    <3>. QED BY <1>8, <3>1, ConcatProperties
  <2>4. wv[1] \in Runs
    <3>1. CASE 1 <= Len(w)
      <4>1. w # << >>
        BY <3>1, EmptySeq
      <4>. QED BY <1>2, <2>3, <3>1, <4>1
    <3>2. CASE ~(1 <= Len(w))
      <4>1. 1 - Len(w) = 1
        BY <1>10, <3>2
      <4>2. VerifyBoth[1] \in Runs
        BY VerifyFollows, StepTypes
      <4>. QED BY <2>3, <3>2, <4>1, <4>2
    <3>. QED BY <3>1, <3>2
  <2>. QED BY <2>1, <2>2, <2>4
<1>. QED BY <1>7, <1>9, <1>11, <1>12

\* A block's program, as Begin writes it down.
LEMMA BlockProgram ==
  ASSUME NEW orders \in Orders
  PROVE  LET s == Append(Program(orders), End)
         IN  /\ s \in Seq(Steps) /\ s # << >> /\ ProgramShape(s, FALSE) /\ Head(s).do = "run"
             /\ \A r \in BOOLEAN : Count(s, Trial(r)) = Due(r)
<1> DEFINE p == Program(orders)
           s == Append(p, End)
<1>1. ChecksFollow(p) /\ p # << >> /\ p[1] \in Runs
  BY ProgramFollows
<1>2. p \in Seq(Steps) /\ End \in Steps
  BY <1>1, StepTypes DEF ChecksFollow
<1> HIDE DEF p
<1>3. /\ s \in Seq(Steps) /\ s # << >> /\ Len(p) \in Nat \ {0} /\ Len(s) = Len(p) + 1
      /\ DOMAIN s = 1..(Len(p) + 1) /\ DOMAIN p = 1..Len(p)
      /\ \A i \in 1..Len(p) : s[i] = p[i]
      /\ s[Len(p) + 1] = End
  BY <1>1, <1>2, AppendProperties, EmptySeq, LenProperties
<1>4. End.do = "end"
  BY DEF End
<1>5. ProgramShape(s, FALSE)
  <2>1. s[Len(s)] = End
    BY <1>3
  <2>2. ASSUME NEW k \in DOMAIN s
        PROVE  /\ s[k].do = "end" => k = Len(s)
               /\ k > 1 /\ s[k].do \in {"check", "compare"} => s[k - 1] = Run(s[k].comp)
               /\ s[k].do \in {"run", "check", "trial", "end"}
    <3>1. CASE k = Len(p) + 1
      BY <1>3, <1>4, <3>1
    <3>2. CASE k # Len(p) + 1
      <4>1. k \in 1..Len(p) /\ s[k] = p[k] /\ (k > 1 => s[k - 1] = p[k - 1])
        BY <1>3, <3>2
      <4>. QED BY <1>1, <1>3, <4>1 DEF ChecksFollow
    <3>. QED BY <3>1, <3>2
  <2>. QED BY <2>1, <2>2 DEF ProgramShape
<1>6. Head(s).do = "run"
  <2>1. Head(s) = s[1] /\ 1 \in 1..Len(p)
    BY <1>3
  <2>. QED BY <1>1, <1>3, <2>1, StepTypes
<1>7. \A r \in BOOLEAN : Count(s, Trial(r)) = Due(r)
  <2> TAKE r \in BOOLEAN
  <2>1. Count(s, Trial(r)) = Count(p, Trial(r)) + (IF End = Trial(r) THEN 1 ELSE 0)
    BY <1>2, CountAppend
  <2>2. End # Trial(r)
    BY DEF End, Trial
  <2>3. Count(p, Trial(r)) = Due(r)
    BY ProgramFollows DEF p
  <2>4. Count(p, Trial(r)) \in Nat
    BY <1>2, CountType
  <2>. QED BY <2>1, <2>2, <2>3, <2>4
<1>. QED BY <1>3, <1>5, <1>6, <1>7 DEF p

LEMMA AloneProgram ==
  LET s == Append(VerifyOnly, End)
  IN  s \in Seq(Steps) /\ s # << >> /\ ProgramShape(s, TRUE) /\ Head(s).do = "run"
<1> DEFINE s == Append(VerifyOnly, End)
<1>1. PICK a, b, c, d, e :
        a = Run(FALSE) /\ b = Compare(FALSE) /\ c = Run(TRUE) /\ d = Compare(TRUE) /\ e = End
  OBVIOUS
<1>2. a \in Steps /\ b \in Steps /\ c \in Steps /\ d \in Steps /\ e \in Steps
  BY <1>1, StepTypes
<1>3. s = Append(<<a, b, c, d>>, e)
  BY <1>1 DEF VerifyOnly
<1> HIDE DEF s
<1>4. /\ s \in Seq(Steps) /\ Len(s) = 5 /\ DOMAIN s = 1..5 /\ s # << >> /\ Head(s) = s[1]
      /\ s[1] = a /\ s[2] = b /\ s[3] = c /\ s[4] = d /\ s[5] = e
  BY <1>2, <1>3
<1>5. /\ a.do = "run" /\ b.do = "compare" /\ c.do = "run" /\ d.do = "compare" /\ e.do = "end"
      /\ a = Run(b.comp) /\ c = Run(d.comp)
  <2>1. \A x : Run(x).do = "run" /\ Compare(x).do = "compare" /\ Compare(x).comp = x /\ End.do = "end"
    BY DEF Run, Compare, End
  <2>. QED BY Zenon, <1>1, <2>1
<1>6. \A k \in 1..5 : k = 1 \/ k = 2 \/ k = 3 \/ k = 4 \/ k = 5
  OBVIOUS
<1>7. ProgramShape(s, TRUE)
  <2>1. ASSUME NEW k \in 1..5
        PROVE  /\ s[k].do = "end" => k = 5
               /\ k > 1 /\ s[k].do \in {"check", "compare"} => s[k - 1] = Run(s[k].comp)
               /\ s[k].do \notin {"check", "trial"}
    <3>1. CASE k = 1
      BY <1>4, <1>5, <3>1
    <3>2. CASE k = 2
      <4>1. s[k] = b /\ s[k - 1] = a
        BY <1>4, <3>2
      <4>. QED BY <1>5, <3>2, <4>1
    <3>3. CASE k = 3
      BY <1>4, <1>5, <3>3
    <3>4. CASE k = 4
      <4>1. s[k] = d /\ s[k - 1] = c
        BY <1>4, <3>4
      <4>. QED BY <1>5, <3>4, <4>1
    <3>5. CASE k = 5
      BY <1>4, <1>5, <3>5
    <3>. QED BY <1>6, <3>1, <3>2, <3>3, <3>4, <3>5
  <2>. QED BY <1>1, <1>4, <2>1 DEF ProgramShape
<1>. QED BY <1>4, <1>5, <1>7 DEF s

\* What is left behind the first step of what is left.
LEMMA ShapeTail ==
  ASSUME NEW s \in Seq(Steps), NEW alone, s # << >>, ProgramShape(s, alone)
  PROVE  /\ Head(s) \in Steps /\ Tail(s) \in Seq(Steps) /\ ProgramShape(Tail(s), alone)
         /\ Tail(s) = << >> <=> Head(s).do = "end"
         /\ Tail(s) # << >> =>
              /\ Head(Tail(s)) \in Steps
              /\ Head(Tail(s)).do \in {"check", "compare"} => Head(s) = Run(Head(Tail(s)).comp)
         /\ Head(s).do \in {"check", "trial"} => ~alone
         /\ Head(s).do = "compare" => alone
<1> DEFINE t == Tail(s)
<1>1. /\ Len(s) \in Nat \ {0} /\ DOMAIN s = 1..Len(s) /\ Head(s) = s[1] /\ Head(s) \in Steps
      /\ t \in Seq(Steps) /\ Len(t) = Len(s) - 1 /\ DOMAIN t = 1..(Len(s) - 1)
      /\ \A i \in 1..(Len(s) - 1) : t[i] = s[i + 1]
  BY HeadTailProperties, EmptySeq, LenProperties
<1>2. s[Len(s)] = End /\ End.do = "end"
  BY DEF ProgramShape, End
<1>3. \A k \in 1..Len(s) :
        /\ s[k].do = "end" => k = Len(s)
        /\ k > 1 /\ s[k].do \in {"check", "compare"} => s[k - 1] = Run(s[k].comp)
        /\ s[k].do \in {"check", "trial"} => ~alone
        /\ s[k].do = "compare" => alone
  BY <1>1 DEF ProgramShape
<1> HIDE DEF t
<1>4. t = << >> <=> Len(s) = 1
  BY <1>1, EmptySeq
<1>5. t = << >> <=> Head(s).do = "end"
  <2>1. 1 \in 1..Len(s)
    BY <1>1
  <2>. QED BY <1>1, <1>2, <1>3, <1>4, <2>1
<1>6. ProgramShape(t, alone)
  <2>1. t # << >> => t[Len(t)] = End
    <3>1. t # << >> => Len(s) - 1 \in 1..(Len(s) - 1) /\ (Len(s) - 1) + 1 = Len(s)
      BY <1>1, <1>4
    <3>. QED BY <1>1, <1>2, <3>1
  <2>2. ASSUME NEW k \in DOMAIN t
        PROVE  /\ t[k].do = "end" => k = Len(t)
               /\ k > 1 /\ t[k].do \in {"check", "compare"} => t[k - 1] = Run(t[k].comp)
               /\ t[k].do \in {"check", "trial"} => ~alone
               /\ t[k].do = "compare" => alone
    <3>1. k + 1 \in 1..Len(s) /\ k + 1 > 1 /\ t[k] = s[k + 1] /\ (k + 1) - 1 = k
      BY <1>1
    <3>2. k > 1 => t[k - 1] = s[k]
      <4>1. k > 1 => k - 1 \in 1..(Len(s) - 1) /\ (k - 1) + 1 = k
        BY <1>1
      <4>. QED BY <1>1, <4>1
    <3>3. k + 1 = Len(s) => k = Len(t)
      BY <1>1
    <3>. QED BY <1>3, <3>1, <3>2, <3>3
  <2>. QED BY <2>1, <2>2 DEF ProgramShape
<1>7. t # << >> => /\ Head(t) \in Steps
                   /\ Head(t).do \in {"check", "compare"} => Head(s) = Run(Head(t).comp)
  <2>1. t # << >> => Head(t) = t[1] /\ Head(t) \in Steps /\ t[1] = s[2] /\ 2 \in 1..Len(s)
    <3>1. t # << >> => 1 \in 1..(Len(s) - 1) /\ 2 \in 1..Len(s) /\ 1 + 1 = 2
      BY <1>1, <1>4
    <3>2. t # << >> => Head(t) = t[1] /\ Head(t) \in Steps
      BY <1>1, HeadTailProperties
    <3>. QED BY <1>1, <3>1, <3>2
  <2>2. 2 > 1 /\ 2 - 1 = 1
    OBVIOUS
  <2>. QED BY <1>1, <1>3, <2>1, <2>2
<1>8. /\ Head(s).do \in {"check", "trial"} => ~alone
      /\ Head(s).do = "compare" => alone
  <2>1. 1 \in 1..Len(s)
    BY <1>1
  <2>. QED BY <1>1, <1>3, <2>1
<1>. QED BY <1>1, <1>5, <1>6, <1>7, <1>8 DEF t

-----------------------------------------------------------------------------
(* The invariant holds initially, and every step keeps it.                  *)

LEMMA ShippedTypes ==
  ASSUME NEW comp \in BOOLEAN, NEW t \in Tensors
  PROVE  Shipped(comp, t) \in Payloads /\ Shipped(comp, t) # Nothing
<1>1. NTensors \in Nat \ {0} /\ t \in 1..NTensors
  BY SomeTensors
<1>2. t \in 1..(2 * NTensors) /\ NTensors + t \in 1..(2 * NTensors) /\ t # 0 /\ NTensors + t # 0
  BY <1>1
<1>3. CASE comp = TRUE
  BY Zenon, <1>2, <1>3 DEF Shipped, Payloads, Nothing
<1>4. CASE comp = FALSE
  BY Zenon, <1>2, <1>4 DEF Shipped, Payloads, Nothing
<1>. QED BY Zenon, <1>3, <1>4

LEMMA AloneMoves ==
  ASSUME block \in Nat \ {0}, verifyOnly = TRUE
  PROVE  PathOf(block) # "fsync"
<1>1. Paths = <<"serial", "pipeline">> /\ Len(Paths) = 2
  BY DEF Paths
<1>2. (block - 1) % 2 \in 0..1
  OBVIOUS
<1>3. PathOf(block) = Paths[((block - 1) % 2) + 1]
  BY <1>1 DEF PathOf
<1>4. ((block - 1) % 2) + 1 = 1 \/ ((block - 1) % 2) + 1 = 2
  BY <1>2
<1>. QED BY <1>1, <1>3, <1>4

-----------------------------------------------------------------------------
(* The two threads' pass is a pass of the relay.                            *)

LEMMA RelayAssumptions == RawP!ConstantsAssumption /\ CmpP!ConstantsAssumption
<1>1. /\ NTensors \in Nat \ {0} /\ Depth \in Nat \ {0} /\ 1 \in Nat \ {0}
      /\ Failures \in BOOLEAN /\ FillLandsFirst \in BOOLEAN
  BY SomeTensors, PairedAssumption
<1>2. Payloads \subseteq Nat \ {0}
  BY <1>1 DEF Payloads
<1>3. ASSUME NEW comp \in BOOLEAN
      PROVE  /\ Sizes[comp] \in [1..NTensors -> Nat \ {0}]
             /\ [t \in Tensors |-> Shipped(comp, t)] \in [1..NTensors -> Payloads]
  <2>1. \A t \in Tensors : Shipped(comp, t) \in Payloads
    BY ShippedTypes
  <2>. QED BY <2>1, SomeTensors
<1>4. RawP!Tensors = 1..NTensors /\ CmpP!Tensors = 1..NTensors
  BY DEF RawP!Tensors, CmpP!Tensors
<1>5. RawP!ConstantsAssumption
  BY <1>1, <1>2, <1>3, <1>4 DEF RawP!ConstantsAssumption
<1>6. CmpP!ConstantsAssumption
  BY <1>1, <1>2, <1>3, <1>4 DEF CmpP!ConstantsAssumption
<1>. QED BY <1>5, <1>6

\* What the threads' state may be does not depend on the arm.
LEMMA SameTypes == CmpP!TypeOK <=> RawP!TypeOK
BY DEF CmpP!TypeOK, RawP!TypeOK, CmpP!Tensors, RawP!Tensors, CmpP!Slots, RawP!Slots,
   CmpP!Stop, RawP!Stop, CmpP!Items, RawP!Items, CmpP!NoItem, RawP!NoItem,
   CmpP!DeviceOps, RawP!DeviceOps, CmpP!Contents, RawP!Contents, CmpP!Nothing, RawP!Nothing,
   CmpP!Torn, RawP!Torn

LEMMA SameFresh == CmpP!FreshPass <=> RawP!FreshPass
BY DEF CmpP!FreshPass, RawP!FreshPass, CmpP!Tensors, RawP!Tensors, CmpP!Stop, RawP!Stop,
   CmpP!NoItem, RawP!NoItem, CmpP!FreshQueue, RawP!FreshQueue, CmpP!Nothing, RawP!Nothing

LEMMA SameTypesNext == CmpP!TypeOK' <=> RawP!TypeOK'
BY SameTypes, PTL

LEMMA SlotTypes ==
  ASSUME RawP!TypeOK
  PROVE  /\ scr \in [Slots -> Payloads \union {Nothing, Torn}]
         /\ host \in [Slots -> Payloads \union {Nothing, Torn}]
         /\ dec \in [Slots -> Payloads \union {Nothing, Torn}]
         /\ recv \in [Slots -> Contents(Payloads)]
         /\ out \in [Tensors -> Payloads \union {Nothing, Torn}]
BY DEF RawP!TypeOK, RawP!Slots, Slots, RawP!Tensors, Tensors, RawP!Contents, Contents,
   RawP!Nothing, Nothing, RawP!Torn, Torn

\* The threads' own state keeps its type while only the buffers change.
LEMMA TypesKept ==
  ASSUME RawP!TypeOK, UNCHANGED call,
         scr' \in [Slots -> Payloads \union {Nothing, Torn}],
         host' \in [Slots -> Payloads \union {Nothing, Torn}],
         dec' \in [Slots -> Payloads \union {Nothing, Torn}],
         recv' \in [Slots -> Contents(Payloads)],
         out' \in [Tensors -> Payloads \union {Nothing, Torn}]
  PROVE  RawP!TypeOK'
BY DEF RawP!TypeOK, RawP!Slots, Slots, RawP!Tensors, Tensors, RawP!Contents, Contents,
   RawP!Nothing, Nothing, RawP!Torn, Torn, call

LEMMA SameBuffers ==
  ASSUME RawP!TypeOK, UNCHANGED <<scr, host, recv, dec, out, call>>
  PROVE  RawP!TypeOK'
BY SlotTypes, TypesKept

LEMMA FirstSlot == 0 \in Slots
BY PairedAssumption DEF Slots

\* No thread runs, or none has taken a step: the state's type is the buffers'.
AtRest ==
  /\ scr \in [Slots -> Payloads \union {Nothing, Torn}]
  /\ host \in [Slots -> Payloads \union {Nothing, Torn}]
  /\ dec \in [Slots -> Payloads \union {Nothing, Torn}]
  /\ recv \in [Slots -> Contents(Payloads)]
  /\ out \in [Tensors -> Payloads \union {Nothing, Torn}]
  /\ pPc \in {"get", "done"} /\ pItem = FirstItem
  /\ cPc \in {"get", "done"} /\ cItem = Raw!NoItem
  /\ free \in {<< >>, Raw!FreshQueue} /\ ready = << >> /\ err = << >>
  /\ copy0 = << >> /\ copy1 = << >> /\ default1 = << >>

LEMMA BufferTypes == AtRest => RawP!TypeOK
<1> SUFFICES ASSUME AtRest PROVE RawP!TypeOK
  OBVIOUS
<1>1. FirstItem \in [tensor : RawP!Tensors, slot : RawP!Slots \union {RawP!Stop}]
  BY SomeTensors DEF FirstItem, RawP!Tensors, Raw!Stop, RawP!Stop
<1>2. free \in Seq(RawP!Slots \union {RawP!Stop})
  <2>1. RawP!FreshQueue \in Seq(RawP!Slots \union {RawP!Stop})
    BY RelayAssumptions, RawP!FreshQueueType
  <2>2. Raw!FreshQueue = RawP!FreshQueue
    BY DEF Raw!FreshQueue, RawP!FreshQueue
  <2>3. << >> \in Seq(RawP!Slots \union {RawP!Stop})
    OBVIOUS
  <2>4. free = << >> \/ free = Raw!FreshQueue
    BY DEF AtRest
  <2>. QED BY <2>1, <2>2, <2>3, <2>4
<1>3. cItem = RawP!NoItem
  BY DEF AtRest, Raw!NoItem, RawP!NoItem, Raw!Stop, RawP!Stop
<1>4. [s \in Slots |-> Zeroed] \in [RawP!Slots -> RawP!Contents(Payloads)]
  BY DEF Slots, RawP!Slots, Zeroed, Nothing, RawP!Nothing, RawP!Contents
<1>5. /\ scr \in [RawP!Slots -> Payloads \union {RawP!Nothing, RawP!Torn}]
      /\ host \in [RawP!Slots -> Payloads \union {RawP!Nothing, RawP!Torn}]
      /\ dec \in [RawP!Slots -> Payloads \union {RawP!Nothing, RawP!Torn}]
      /\ recv \in [RawP!Slots -> RawP!Contents(Payloads)]
      /\ out \in [RawP!Tensors -> Payloads \union {RawP!Nothing, RawP!Torn}]
  BY DEF AtRest, RawP!Slots, Slots, RawP!Tensors, Tensors, RawP!Contents, Contents,
     RawP!Nothing, Nothing, RawP!Torn, Torn
<1>. QED BY <1>1, <1>2, <1>3, <1>4, <1>5 DEF AtRest, RawP!TypeOK

LEMMA BufferTypesNext == AtRest' => RawP!TypeOK'
BY BufferTypes, PTL

LEMMA InitTypes == Init => RawP!TypeOK
<1> SUFFICES ASSUME Init PROVE RawP!TypeOK
  OBVIOUS
<1>1. Shipped(TRUE, NTensors) \in Payloads
  <2>1. NTensors \in Tensors
    BY SomeTensors
  <2>. QED BY <2>1, ShippedTypes
<1>2. /\ scr \in [Slots -> Payloads \union {Nothing, Torn}]
      /\ host \in [Slots -> Payloads \union {Nothing, Torn}]
      /\ dec \in [Slots -> Payloads \union {Nothing, Torn}]
      /\ recv \in [Slots -> Contents(Payloads)]
      /\ out \in [Tensors -> Payloads \union {Nothing, Torn}]
  BY <1>1 DEF Init, Probed, Zeroed, Contents
<1>. QED BY <1>2, BufferTypes DEF AtRest, Init, NoCall

LEMMA RawProducer == Raw!Producer <=> RawP!Producer
BY DEF Raw!Producer, Raw!ProducerStep, Raw!PGet, Raw!PEncode, Raw!PShip, Raw!PFlush,
   Raw!PAnnounce, Raw!PFinish, Raw!PFail, Raw!consumerVars, Raw!queues, Raw!streams,
   Raw!buffers, Raw!mainVars, Raw!Stop, Raw!NoItem, Raw!BytesInHost, Raw!Zeroed,
   Raw!CopiedInto, Raw!ShortWritten, Raw!Further, Raw!Nothing, Raw!Torn, RawP!Producer,
   RawP!ProducerStep, RawP!PGet, RawP!PEncode, RawP!PShip, RawP!PFlush, RawP!PAnnounce,
   RawP!PFinish, RawP!PFail, RawP!consumerVars, RawP!queues, RawP!streams, RawP!buffers,
   RawP!mainVars, RawP!Stop, RawP!NoItem, RawP!BytesInHost, RawP!Zeroed, RawP!CopiedInto,
   RawP!ShortWritten, RawP!Further, RawP!Nothing, RawP!Torn

LEMMA RawConsumer == Raw!Consumer <=> RawP!Consumer
BY DEF Raw!Consumer, Raw!ConsumerStep, Raw!CGet, Raw!CSync, Raw!CFetch, Raw!CLanded,
   Raw!CDecode, Raw!CAwait, Raw!CFree, Raw!CShortRead, Raw!CFail, Raw!ConsumerRaises,
   Raw!producerVars, Raw!streams, Raw!queues, Raw!buffers, Raw!mainVars, Raw!NoItem,
   Raw!IsNone, Raw!EventComplete, Raw!ReceiveOps, Raw!DeliverOps, Raw!Issue, Raw!Readable,
   Raw!PayloadLanded, Raw!DeliveryDone, Raw!Stops, Raw!Stop, RawP!Consumer, RawP!ConsumerStep,
   RawP!CGet, RawP!CSync, RawP!CFetch, RawP!CLanded, RawP!CDecode, RawP!CAwait, RawP!CFree,
   RawP!CShortRead, RawP!CFail, RawP!ConsumerRaises, RawP!producerVars, RawP!streams,
   RawP!queues, RawP!buffers, RawP!mainVars, RawP!NoItem, RawP!IsNone, RawP!EventComplete,
   RawP!ReceiveOps, RawP!DeliverOps, RawP!Issue, RawP!Readable, RawP!PayloadLanded,
   RawP!DeliveryDone, RawP!Stops, RawP!Stop

LEMMA RawDevice == Raw!Device <=> RawP!Device
BY DEF Raw!Device, Raw!RunCopy0, Raw!RunCopy1, Raw!RunDefault1, Raw!producerVars,
   Raw!consumerVars, Raw!queues, Raw!mainVars, Raw!FillPending, Raw!CopiedInto, Raw!Further,
   Raw!ZeroRecv, Raw!ZeroDst, Raw!Decode, Raw!Deliver, Raw!Zeroed, Raw!Nothing, Raw!Torn,
   Raw!Decoded, RawP!Device, RawP!RunCopy0, RawP!RunCopy1, RawP!RunDefault1, RawP!producerVars,
   RawP!consumerVars, RawP!queues, RawP!mainVars, RawP!FillPending, RawP!CopiedInto,
   RawP!Further, RawP!ZeroRecv, RawP!ZeroDst, RawP!Decode, RawP!Deliver, RawP!Zeroed,
   RawP!Nothing, RawP!Torn, RawP!Decoded

\* A step of either thread or of a device keeps what holds of a pass.
LEMMA RawSteps ==
  ASSUME RawP!TypeOK,
         \/ Raw!Producer \/ Raw!Consumer \/ Raw!Device
         \/ UNCHANGED <<scr, host, recv, dec, out, call>>
  PROVE  /\ RawP!TypeOK'
         /\ FillLandsFirst /\ RawP!DeliveryInv => RawP!DeliveryInv'
<1>1. RawP!ConstantsAssumption /\ RawP!TypeOK
  BY RelayAssumptions, SameTypes
<1>2. \/ RawP!Producer \/ RawP!Consumer \/ RawP!Device
      \/ UNCHANGED <<scr, host, recv, dec, out, call>>
  BY RawProducer, RawConsumer, RawDevice
<1>3. RawP!TypeOK'
  BY <1>1, <1>2, RawP!ProducerTypeOK, RawP!ConsumerTypeOK, RawP!DeviceTypeOK, SameBuffers,
     SameTypesNext
<1>4. ASSUME FillLandsFirst, RawP!DeliveryInv PROVE RawP!DeliveryInv'
  <2>1. RawP!SoundTransport
    BY <1>4 DEF RawP!SoundTransport
  <2>2. [RawP!Next]_RawP!vars
    BY <1>2 DEF RawP!Next, RawP!vars, RawP!producerVars, RawP!consumerVars, RawP!queues, RawP!streams,
       RawP!buffers, RawP!mainVars, call
  <2>. QED BY <1>1, <1>4, <2>1, <2>2, RawP!DeliveryInvNext
<1>. QED BY <1>3, <1>4, SameTypesNext

LEMMA RawFresh == RawP!TypeOK /\ RawP!FreshPass => RawP!DeliveryInv
<1> SUFFICES ASSUME RawP!TypeOK, RawP!FreshPass PROVE RawP!DeliveryInv
  OBVIOUS
<1>1. RawP!ConstantsAssumption /\ RawP!TypeOK /\ RawP!FreshPass
  BY RelayAssumptions, SameTypes, SameFresh
<1>. QED BY <1>1, RawP!FreshDelivery

LEMMA RawArrived ==
  ASSUME RawP!DeliveryInv, Raw!Joined, err = << >>, NEW t \in Tensors
  PROVE  out[t] = Shipped(FALSE, t)
<1>1. RawP!ConstantsAssumption /\ t \in RawP!Tensors
  BY RelayAssumptions DEF Tensors, RawP!Tensors
<1>2. RawP!Joined
  BY DEF Raw!Joined, RawP!Joined
<1>. QED BY <1>1, <1>2, RawP!JoinedMeansAll

LEMMA RawNeverWrong ==
  ASSUME RawP!DeliveryInv, NEW t \in Tensors
  PROVE  out[t] \in {Nothing, Shipped(FALSE, t)}
<1>1. t \in RawP!Tensors
  BY DEF Tensors, RawP!Tensors
<1>. QED BY <1>1 DEF RawP!DeliveryInv, RawP!OrderInv, RawP!OrderFrom, RawP!DeliveredUpTo, RawP!Nothing,
                     Nothing

LEMMA CmpProducer == Cmp!Producer <=> CmpP!Producer
BY DEF Cmp!Producer, Cmp!ProducerStep, Cmp!PGet, Cmp!PEncode, Cmp!PShip, Cmp!PFlush,
   Cmp!PAnnounce, Cmp!PFinish, Cmp!PFail, Cmp!consumerVars, Cmp!queues, Cmp!streams,
   Cmp!buffers, Cmp!mainVars, Cmp!Stop, Cmp!NoItem, Cmp!BytesInHost, Cmp!Zeroed,
   Cmp!CopiedInto, Cmp!ShortWritten, Cmp!Further, Cmp!Nothing, Cmp!Torn, CmpP!Producer,
   CmpP!ProducerStep, CmpP!PGet, CmpP!PEncode, CmpP!PShip, CmpP!PFlush, CmpP!PAnnounce,
   CmpP!PFinish, CmpP!PFail, CmpP!consumerVars, CmpP!queues, CmpP!streams, CmpP!buffers,
   CmpP!mainVars, CmpP!Stop, CmpP!NoItem, CmpP!BytesInHost, CmpP!Zeroed, CmpP!CopiedInto,
   CmpP!ShortWritten, CmpP!Further, CmpP!Nothing, CmpP!Torn

LEMMA CmpConsumer == Cmp!Consumer <=> CmpP!Consumer
BY DEF Cmp!Consumer, Cmp!ConsumerStep, Cmp!CGet, Cmp!CSync, Cmp!CFetch, Cmp!CLanded,
   Cmp!CDecode, Cmp!CAwait, Cmp!CFree, Cmp!CShortRead, Cmp!CFail, Cmp!ConsumerRaises,
   Cmp!producerVars, Cmp!streams, Cmp!queues, Cmp!buffers, Cmp!mainVars, Cmp!NoItem,
   Cmp!IsNone, Cmp!EventComplete, Cmp!ReceiveOps, Cmp!DeliverOps, Cmp!Issue, Cmp!Readable,
   Cmp!PayloadLanded, Cmp!DeliveryDone, Cmp!Stops, Cmp!Stop, CmpP!Consumer, CmpP!ConsumerStep,
   CmpP!CGet, CmpP!CSync, CmpP!CFetch, CmpP!CLanded, CmpP!CDecode, CmpP!CAwait, CmpP!CFree,
   CmpP!CShortRead, CmpP!CFail, CmpP!ConsumerRaises, CmpP!producerVars, CmpP!streams,
   CmpP!queues, CmpP!buffers, CmpP!mainVars, CmpP!NoItem, CmpP!IsNone, CmpP!EventComplete,
   CmpP!ReceiveOps, CmpP!DeliverOps, CmpP!Issue, CmpP!Readable, CmpP!PayloadLanded,
   CmpP!DeliveryDone, CmpP!Stops, CmpP!Stop

LEMMA CmpDevice == Cmp!Device <=> CmpP!Device
BY DEF Cmp!Device, Cmp!RunCopy0, Cmp!RunCopy1, Cmp!RunDefault1, Cmp!producerVars,
   Cmp!consumerVars, Cmp!queues, Cmp!mainVars, Cmp!FillPending, Cmp!CopiedInto, Cmp!Further,
   Cmp!ZeroRecv, Cmp!ZeroDst, Cmp!Decode, Cmp!Deliver, Cmp!Zeroed, Cmp!Nothing, Cmp!Torn,
   Cmp!Decoded, CmpP!Device, CmpP!RunCopy0, CmpP!RunCopy1, CmpP!RunDefault1, CmpP!producerVars,
   CmpP!consumerVars, CmpP!queues, CmpP!mainVars, CmpP!FillPending, CmpP!CopiedInto,
   CmpP!Further, CmpP!ZeroRecv, CmpP!ZeroDst, CmpP!Decode, CmpP!Deliver, CmpP!Zeroed,
   CmpP!Nothing, CmpP!Torn, CmpP!Decoded

\* A step of either thread or of a device keeps what holds of a pass.
LEMMA CmpSteps ==
  ASSUME RawP!TypeOK,
         \/ Cmp!Producer \/ Cmp!Consumer \/ Cmp!Device
         \/ UNCHANGED <<scr, host, recv, dec, out, call>>
  PROVE  /\ RawP!TypeOK'
         /\ FillLandsFirst /\ CmpP!DeliveryInv => CmpP!DeliveryInv'
<1>1. CmpP!ConstantsAssumption /\ CmpP!TypeOK
  BY RelayAssumptions, SameTypes
<1>2. \/ CmpP!Producer \/ CmpP!Consumer \/ CmpP!Device
      \/ UNCHANGED <<scr, host, recv, dec, out, call>>
  BY CmpProducer, CmpConsumer, CmpDevice
<1>3. CmpP!TypeOK'
  BY <1>1, <1>2, CmpP!ProducerTypeOK, CmpP!ConsumerTypeOK, CmpP!DeviceTypeOK, SameBuffers,
     SameTypesNext
<1>4. ASSUME FillLandsFirst, CmpP!DeliveryInv PROVE CmpP!DeliveryInv'
  <2>1. CmpP!SoundTransport
    BY <1>4 DEF CmpP!SoundTransport
  <2>2. [CmpP!Next]_CmpP!vars
    BY <1>2 DEF CmpP!Next, CmpP!vars, CmpP!producerVars, CmpP!consumerVars, CmpP!queues, CmpP!streams,
       CmpP!buffers, CmpP!mainVars, call
  <2>. QED BY <1>1, <1>4, <2>1, <2>2, CmpP!DeliveryInvNext
<1>. QED BY <1>3, <1>4, SameTypesNext

LEMMA CmpFresh == RawP!TypeOK /\ RawP!FreshPass => CmpP!DeliveryInv
<1> SUFFICES ASSUME RawP!TypeOK, RawP!FreshPass PROVE CmpP!DeliveryInv
  OBVIOUS
<1>1. CmpP!ConstantsAssumption /\ CmpP!TypeOK /\ CmpP!FreshPass
  BY RelayAssumptions, SameTypes, SameFresh
<1>. QED BY <1>1, CmpP!FreshDelivery

LEMMA CmpArrived ==
  ASSUME CmpP!DeliveryInv, Raw!Joined, err = << >>, NEW t \in Tensors
  PROVE  out[t] = Shipped(TRUE, t)
<1>1. CmpP!ConstantsAssumption /\ t \in CmpP!Tensors
  BY RelayAssumptions DEF Tensors, CmpP!Tensors
<1>2. CmpP!Joined
  BY DEF Raw!Joined, CmpP!Joined
<1>. QED BY <1>1, <1>2, CmpP!JoinedMeansAll

LEMMA CmpNeverWrong ==
  ASSUME CmpP!DeliveryInv, NEW t \in Tensors
  PROVE  out[t] \in {Nothing, Shipped(TRUE, t)}
<1>1. t \in CmpP!Tensors
  BY DEF Tensors, CmpP!Tensors
<1>. QED BY <1>1 DEF CmpP!DeliveryInv, CmpP!OrderInv, CmpP!OrderFrom, CmpP!DeliveredUpTo, CmpP!Nothing,
                     Nothing

LEMMA FreshNext == RawP!TypeOK' /\ RawP!FreshPass' => RawP!DeliveryInv' /\ CmpP!DeliveryInv'
BY RawFresh, CmpFresh, PTL

LEMMA InitMainInv == Init => MainInv
<1> SUFFICES ASSUME Init PROVE MainInv
  OBVIOUS
<1>1. todo = << >> /\ at = 0 /\ block = 1 /\ checks = << >> /\ trials = << >> /\ file = << >>
  BY DEF Init, Gone
<1>2. TypeInv
  <2>1. RawP!TypeOK
    BY InitTypes
  <2>2. hostFlat \in [1..Total(FALSE) -> Payloads \union {Nothing}]
    BY DEF Init
  <2>4. at \in 0..(NTensors + 1)
    BY <1>1, SomeTensors
  <2>5. verifyOnly \in BOOLEAN
    BY DEF Init
  <2>6. todo \in Seq(Steps)
    BY <1>1
  <2>7. file \in Seq(Payloads \union {Nothing})
    BY <1>1
  <2>8. trials \in Seq([block : Nat \ {0}, rawFirst : BOOLEAN])
    BY <1>1
  <2>9. block \in Nat \ {0}
    BY <1>1
  <2>. QED BY <2>1, <2>2, <2>4, <2>5, <2>6, <2>7, <2>8, <2>9 DEF TypeInv
<1>3. ProgramInv
  <2>1. DOMAIN todo = {} /\ ~(at > 0)
    BY <1>1
  <2>. QED BY <1>1, <2>1 DEF ProgramInv, ProgramShape
<1>4. RunInv /\ StagedInv /\ HeldInv
  BY <1>1 DEF RunInv, StagedInv, HeldInv
<1>5. ChecksInv
  BY <1>1, EmptySeq DEF ChecksInv
<1>6. OrderInv
  <2>1. \A b \in Nat \ {0} : \A r \in BOOLEAN : Recorded(b, r) = 0
    BY <1>1, CountNone DEF Recorded
  <2>2. \A b \in Nat \ {0} : ~(b < block)
    BY <1>1
  <2>. QED BY <1>1, <2>1, <2>2 DEF OrderInv
<1>. QED BY <1>2, <1>3, <1>4, <1>5, <1>6 DEF MainInv

\* What is known while a run is under way, or about to be.
LEMMA AtRun ==
  ASSUME MainInv, Now("run")
  PROVE  /\ todo # << >> /\ Comp \in BOOLEAN /\ Head(todo) \in Steps /\ Head(todo).do = "run"
         /\ at \in 0..(NTensors + 1)
<1>1. todo \in Seq(Steps) /\ todo # << >> /\ at \in 0..(NTensors + 1)
  BY DEF MainInv, TypeInv, Now
<1>2. Head(todo) \in Steps
  BY <1>1, HeadTailProperties
<1>. QED BY <1>1, <1>2 DEF Now, Comp, Steps

\* A step of a run that does not end it leaves the program and the records alone.
LEMMA WhileRunning ==
  ASSUME MainInv, Now("run"), at' \in 1..(NTensors + 1),
         UNCHANGED <<verifyOnly, block, todo, checks, trials>>
  PROVE  /\ ProgramInv' /\ HeldInv' /\ ChecksInv' /\ OrderInv'
         /\ Comp' = Comp /\ PathOf(block)' = PathOf(block)
<1>1. todo # << >> /\ Head(todo).do = "run" /\ at' > 0
  BY AtRun, SomeTensors
<1>2. ProgramInv'
  BY <1>1 DEF MainInv, ProgramInv
<1>3. HeldInv'
  BY <1>1 DEF HeldInv
<1>4. ChecksInv'
  BY DEF MainInv, ChecksInv
<1>5. OrderInv'
  BY DEF MainInv, OrderInv, Recorded
<1>6. Comp' = Comp /\ PathOf(block)' = PathOf(block)
  BY DEF Comp, PathOf, Paths
<1>. QED BY <1>2, <1>3, <1>4, <1>5, <1>6

LEMMA StartSerialStep == MainInv /\ StartSerial => MainInv'
<1> SUFFICES ASSUME MainInv, StartSerial PROVE MainInv'
  OBVIOUS
<1>1. Now("run") /\ at' = 1 /\ at' \in 1..(NTensors + 1)
      /\ UNCHANGED <<verifyOnly, block, todo, checks, trials>>
  BY SomeTensors DEF StartSerial
<1>2. /\ ProgramInv' /\ HeldInv' /\ ChecksInv' /\ OrderInv'
      /\ Comp' = Comp /\ PathOf(block)' = PathOf(block)
  BY <1>1, WhileRunning
<1>3. out' = [t \in Tensors |-> Nothing]
  BY SlotTypes DEF StartSerial, Armed, MainInv, TypeInv
<1>4. TypeInv'
  <2>1. RawP!TypeOK'
    <3>1. UNCHANGED <<scr, host, recv, dec, call>>
      BY DEF StartSerial
    <3>2. out' \in [Tensors -> Payloads \union {Nothing, Torn}]
      BY <1>3
    <3>. QED BY <3>1, <3>2, TypesKept, SlotTypes DEF MainInv, TypeInv
  <2>2. at' \in 0..(NTensors + 1)
    BY <1>1, SomeTensors
  <2>. QED BY <2>1, <2>2 DEF StartSerial, MainInv, TypeInv
<1>5. RunInv'
  <2>1. \A t \in Tensors : ~(t < at')
    BY <1>1, SomeTensors
  <2>. QED BY <1>3, <2>1 DEF RunInv
<1>6. StagedInv'
  <2>1. \A t \in Tensors : ~(t < at')
    BY <1>1, SomeTensors
  <2>. QED BY <2>1 DEF StagedInv
<1>. QED BY <1>2, <1>4, <1>5, <1>6 DEF MainInv

LEMMA StartWriteStep == MainInv /\ StartWrite => MainInv'
<1> SUFFICES ASSUME MainInv, StartWrite PROVE MainInv'
  OBVIOUS
<1>1. Now("run") /\ at' = 1 /\ at' \in 1..(NTensors + 1) /\ PathOf(block) = "fsync"
      /\ UNCHANGED <<verifyOnly, block, todo, checks, trials>>
  BY SomeTensors DEF StartWrite
<1>2. /\ ProgramInv' /\ HeldInv' /\ ChecksInv' /\ OrderInv'
      /\ Comp' = Comp /\ PathOf(block)' = PathOf(block)
  BY <1>1, WhileRunning
<1>3. TypeInv'
  <2>1. Total(Comp) \in Nat
    BY <1>1, AtRun, OffsetTypes
  <2>2. file' \in Seq(Payloads \union {Nothing})
    <3>1. \A n \in Nat : [p \in 1..n |-> Nothing] \in Seq(Payloads \union {Nothing})
      OBVIOUS
    <3>2. file' = [p \in 1..Total(Comp) |-> Nothing]
      BY DEF StartWrite
    <3>. QED BY <2>1, <3>1, <3>2
  <2>3. at' \in 0..(NTensors + 1)
    BY <1>1, SomeTensors
  <2>4. RawP!TypeOK'
    BY SameBuffers DEF StartWrite, MainInv, TypeInv
  <2>. QED BY <2>2, <2>3, <2>4 DEF StartWrite, MainInv, TypeInv
<1>4. RunInv'
  BY <1>1, <1>2 DEF RunInv
<1>5. StagedInv'
  <2>1. \A t \in Tensors : ~(t < at')
    BY <1>1, SomeTensors
  <2>. QED BY <2>1 DEF StagedInv
<1>. QED BY <1>2, <1>3, <1>4, <1>5 DEF MainInv
\* What is copied into a cleared buffer is all it holds, and decodes.
LEMMA Arrives ==
  ASSUME NEW buf \in Contents(Payloads), NEW id \in Payloads, NEW n \in Nat \ {0}
  PROVE  LET got == CopiedInto(Cleared(buf), id, n)
         IN  got \in Contents(Payloads) /\ got.of = id /\ Decoded(got, id, n, Nothing) = id
<1>1. Cleared(buf) = [of |-> Nothing, extent |-> 0]
  BY DEF Cleared, Zeroed
<1>2. Further(0, n) = n
  BY DEF Further
<1>3. CopiedInto(Cleared(buf), id, n) = [of |-> id, extent |-> n]
  BY <1>1, <1>2 DEF CopiedInto
<1>. QED BY <1>3 DEF Contents, Decoded

LEMMA SerialTensorStep == MainInv /\ SerialTensor => MainInv'
<1> SUFFICES ASSUME MainInv, SerialTensor PROVE MainInv'
  OBVIOUS
<1> DEFINE id == Shipped(Comp, at)
           n  == Sizes[Comp][at]
           got == CopiedInto(Cleared(recv[0]), id, n)
<1>1. /\ Now("run") /\ PathOf(block) = "serial" /\ at \in Tensors /\ at' = at + 1
      /\ UNCHANGED <<verifyOnly, block, todo, hostFlat, file, checks, trials, call>>
  BY DEF SerialTensor
<1>2. at \in 1..NTensors /\ at' \in 1..(NTensors + 1) /\ at' \in 0..(NTensors + 1)
      /\ at > 0 /\ PathOf(block) # "fsync"
  <2>1. at \in 1..NTensors /\ NTensors \in Nat
    BY <1>1, SomeTensors
  <2>. QED BY <1>1, <2>1
<1>3. /\ ProgramInv' /\ HeldInv' /\ ChecksInv' /\ OrderInv'
      /\ Comp' = Comp /\ PathOf(block)' = PathOf(block)
  BY <1>1, <1>2, WhileRunning
<1>4. Comp \in BOOLEAN
  BY <1>1, AtRun
<1>5. id \in Payloads /\ n \in Nat \ {0}
  BY <1>1, <1>2, <1>4, ShippedTypes, TensorSizes
<1>6. got \in Contents(Payloads) /\ got.of = id /\ Decoded(got, id, n, Nothing) = id
  <2>1. recv[0] \in Contents(Payloads)
    BY FirstSlot, SlotTypes DEF MainInv, TypeInv
  <2>. HIDE DEF id, n
  <2>. QED BY <1>5, <2>1, Arrives
<1>7. /\ recv' = [recv EXCEPT ![0] = got] /\ host' = [host EXCEPT ![0] = id]
      /\ scr' = IF Comp THEN [scr EXCEPT ![0] = id] ELSE scr
      /\ dec' = IF Comp THEN [dec EXCEPT ![0] = Decoded(got, id, n, Nothing)] ELSE dec
  BY DEF SerialTensor
<1>8. out' = [out EXCEPT ![at] = id]
  <2>1. out' = [out EXCEPT ![at] = IF Comp THEN dec'[0] ELSE got.of]
    BY DEF SerialTensor
  <2>. HIDE DEF got, id, n
  <2>2. Comp => dec'[0] = id
    BY <1>6, <1>7, FirstSlot, SlotTypes DEF MainInv, TypeInv
  <2>3. (IF Comp THEN dec'[0] ELSE got.of) = id
    BY Zenon, <1>4, <1>6, <2>2
  <2>. QED BY Zenon, <2>1, <2>3
<1> HIDE DEF got, id, n
<1>9. TypeInv'
  <2> DEFINE Values == Payloads \union {Nothing, Torn}
  <2>1. /\ scr \in [Slots -> Values] /\ host \in [Slots -> Values] /\ dec \in [Slots -> Values]
        /\ recv \in [Slots -> Contents(Payloads)] /\ out \in [Tensors -> Values]
    BY SlotTypes DEF MainInv, TypeInv
  <2>2. id \in Values /\ Decoded(got, id, n, Nothing) \in Values
    BY <1>5, <1>6
  <2>. HIDE DEF Values
  <2>3. /\ scr' \in [Slots -> Values] /\ host' \in [Slots -> Values] /\ dec' \in [Slots -> Values]
        /\ recv' \in [Slots -> Contents(Payloads)] /\ out' \in [Tensors -> Values]
    BY <1>1, <1>6, <1>7, <1>8, <2>1, <2>2, FirstSlot
  <2>4. RawP!TypeOK'
    BY <1>1, <2>3, TypesKept DEF Values, MainInv, TypeInv
  <2>. QED BY <1>1, <1>2, <2>4 DEF MainInv, TypeInv
<1>10. RunInv'
  <2>1. ASSUME NEW t \in Tensors
        PROVE  out'[t] = IF t < at' THEN Shipped(Comp, t) ELSE Nothing
    <3>1. out[t] = IF t < at THEN Shipped(Comp, t) ELSE Nothing
      BY <1>1, <1>2 DEF MainInv, RunInv, Settled
    <3>2. out \in [Tensors -> Payloads \union {Nothing, Torn}]
      BY SlotTypes DEF MainInv, TypeInv
    <3>3. t \in 1..NTensors
      BY SomeTensors
    <3>4. CASE t = at
      <4>1. t < at' /\ out'[t] = id
        BY <1>1, <1>2, <1>8, <3>2, <3>4
      <4>. QED BY <3>4, <4>1 DEF id
    <3>5. CASE t # at
      <4>1. (t < at' <=> t < at) /\ out'[t] = out[t]
        BY <1>1, <1>2, <1>8, <3>2, <3>3, <3>5
      <4>. QED BY <3>1, <4>1
    <3>. QED BY <3>4, <3>5
  <2>. QED BY <1>3, <2>1 DEF RunInv
<1>11. StagedInv'
  BY <1>2, <1>3 DEF StagedInv
<1>. QED BY <1>3, <1>9, <1>10, <1>11 DEF MainInv

\* Once started: nothing delivered, every slot free, and both threads at their beginning.
LEMMA StartPipelineStep == IInv /\ StartPipeline => IInv'
<1> SUFFICES ASSUME IInv, StartPipeline PROVE IInv'
  OBVIOUS
<1>1. /\ MainInv /\ Now("run") /\ at = 0 /\ at' = 1 /\ at' \in 1..(NTensors + 1)
      /\ PathOf(block) = "pipeline"
      /\ UNCHANGED <<verifyOnly, block, todo, scr, host, recv, dec, hostFlat, file, checks, trials,
                     outcome, copy0, copy1, default1>>
  BY SomeTensors DEF StartPipeline, IInv
<1>2. /\ ProgramInv' /\ HeldInv' /\ ChecksInv' /\ OrderInv'
      /\ Comp' = Comp /\ PathOf(block)' = PathOf(block)
  BY <1>1, WhileRunning
<1>3. /\ scr \in [Slots -> Payloads \union {Nothing, Torn}]
      /\ host \in [Slots -> Payloads \union {Nothing, Torn}]
      /\ dec \in [Slots -> Payloads \union {Nothing, Torn}]
      /\ recv \in [Slots -> Contents(Payloads)]
      /\ out \in [Tensors -> Payloads \union {Nothing, Torn}]
  BY <1>1, SlotTypes DEF MainInv, TypeInv
<1>4. /\ pPc' = "get" /\ pItem' = FirstItem /\ cPc' = "get" /\ cItem' = Raw!NoItem
      /\ free' = Raw!FreshQueue /\ ready' = << >> /\ err' = << >>
      /\ copy0' = << >> /\ copy1' = << >> /\ default1' = << >>
      /\ out' = [t \in Tensors |-> Nothing]
  <2>1. copy0 = << >> /\ copy1 = << >> /\ default1 = << >>
    BY <1>1 DEF IInv, StreamsInv, Pipelining
  <2>. QED BY <1>1, <1>3, <2>1 DEF StartPipeline, Armed
<1>5. RawP!TypeOK'
  <2>1. out' \in [Tensors -> Payloads \union {Nothing, Torn}]
    BY <1>4
  <2>. QED BY <1>1, <1>3, <1>4, <2>1, BufferTypesNext DEF AtRest
<1>6. RawP!FreshPass'
  BY <1>4 DEF RawP!FreshPass, FirstItem, Raw!Stop, RawP!Stop, Raw!NoItem, RawP!NoItem,
     Raw!FreshQueue, RawP!FreshQueue, RawP!Tensors, Tensors, RawP!Nothing, Nothing
<1>7. TypeInv'
  <2>1. at' \in 0..(NTensors + 1)
    BY <1>1, SomeTensors
  <2>. QED BY <1>1, <1>5, <2>1 DEF MainInv, TypeInv
<1>8. RunInv'
  BY <1>1, <1>2 DEF RunInv, Settled
<1>9. StagedInv'
  BY <1>1, <1>2 DEF StagedInv
<1>10. PipeInv'
  <2>1. RawP!DeliveryInv' /\ CmpP!DeliveryInv'
    BY <1>5, <1>6, FreshNext
  <2>. QED BY <2>1 DEF PipeInv
<1>11. StreamsInv'
  BY <1>4 DEF StreamsInv
<1>. QED BY <1>2, <1>7, <1>8, <1>9, <1>10, <1>11 DEF IInv, MainInv

\* The threads and the devices move one pass of the arm's relay.
LEMMA ThreadsStep ==
  IInv /\ (PipelineProducer \/ PipelineConsumer \/ PipelineDevice) => IInv'
<1> SUFFICES ASSUME IInv, PipelineProducer \/ PipelineConsumer \/ PipelineDevice PROVE IInv'
  OBVIOUS
<1>1. /\ MainInv /\ Pipelining /\ Now("run") /\ at = 1 /\ PathOf(block) = "pipeline"
      /\ UNCHANGED <<verifyOnly, block, todo, at, hostFlat, file, checks, trials, outcome>>
  BY DEF PipelineProducer, PipelineConsumer, PipelineDevice, Pipelining, Joining, IInv
<1>2. /\ Comp => Cmp!Producer \/ Cmp!Consumer \/ Cmp!Device
      /\ ~Comp => Raw!Producer \/ Raw!Consumer \/ Raw!Device
  BY DEF PipelineProducer, PipelineConsumer, PipelineDevice
<1>3. at' \in 1..(NTensors + 1)
  BY <1>1, SomeTensors
<1>4. /\ ProgramInv' /\ HeldInv' /\ ChecksInv' /\ OrderInv'
      /\ Comp' = Comp /\ PathOf(block)' = PathOf(block)
  BY <1>1, <1>3, WhileRunning
<1>5. RawP!TypeOK
  BY <1>1 DEF MainInv, TypeInv
<1>6. RawP!TypeOK' /\ PipeInv'
  <2>1. CASE Comp
    <3>1. RawP!TypeOK' /\ (FillLandsFirst /\ CmpP!DeliveryInv => CmpP!DeliveryInv')
      BY <1>2, <1>5, <2>1, CmpSteps
    <3>. QED BY <1>1, <1>4, <2>1, <3>1 DEF IInv, PipeInv
  <2>2. CASE ~Comp
    <3>1. RawP!TypeOK' /\ (FillLandsFirst /\ RawP!DeliveryInv => RawP!DeliveryInv')
      BY <1>2, <1>5, <2>2, RawSteps
    <3>. QED BY <1>1, <1>4, <2>2, <3>1 DEF IInv, PipeInv
  <2>. QED BY <2>1, <2>2
<1>7. TypeInv'
  BY <1>1, <1>6 DEF MainInv, TypeInv
<1>8. RunInv'
  BY <1>1, <1>4 DEF RunInv, Settled
<1>9. StagedInv'
  BY <1>1, <1>4 DEF StagedInv
<1>10. StreamsInv'
  <2>1. Now("run")'
    BY <1>1 DEF Now
  <2>. QED BY <1>1, <1>4, <2>1 DEF StreamsInv, Pipelining
<1>. QED BY <1>4, <1>6, <1>7, <1>8, <1>9, <1>10 DEF IInv, MainInv

\* What the threads leave behind when both are joined and nobody has raised.
LEMMA JoinPipelineStep == IInv /\ JoinPipeline => IInv'
<1> SUFFICES ASSUME IInv, JoinPipeline PROVE IInv'
  OBVIOUS
<1>1. /\ MainInv /\ Pipelining /\ Raw!Joined /\ Now("run") /\ at = 1
      /\ PathOf(block) = "pipeline"
      /\ UNCHANGED <<verifyOnly, block, todo, buffers, checks, trials, pPc, cPc, copy0, copy1,
                     default1>>
      /\ pItem' = FirstItem /\ cItem' = Raw!NoItem
      /\ free' = << >> /\ ready' = << >> /\ err' = << >>
  BY DEF JoinPipeline, Pipelining, IInv
<1>2. \/ err = << >> /\ at' = NTensors + 1 /\ outcome' = outcome
      \/ at' = at /\ outcome' = "raised"
  BY DEF JoinPipeline
<1>3. at' \in 1..(NTensors + 1) /\ at' \in 0..(NTensors + 1) /\ NTensors + 1 # 1
  BY <1>1, <1>2, SomeTensors
<1>4. /\ ProgramInv' /\ HeldInv' /\ ChecksInv' /\ OrderInv'
      /\ Comp' = Comp /\ PathOf(block)' = PathOf(block)
  BY <1>1, <1>3, WhileRunning
<1>5. /\ pPc = "done" /\ cPc = "done" /\ copy0 = << >> /\ copy1 = << >> /\ default1 = << >>
  BY <1>1 DEF Raw!Joined
<1>6. RawP!TypeOK'
  <2>1. RawP!TypeOK
    BY <1>1 DEF MainInv, TypeInv
  <2>2. /\ UNCHANGED <<scr, host, recv, dec, out>>
        /\ scr \in [Slots -> Payloads \union {Nothing, Torn}]
        /\ host \in [Slots -> Payloads \union {Nothing, Torn}]
        /\ dec \in [Slots -> Payloads \union {Nothing, Torn}]
        /\ recv \in [Slots -> Contents(Payloads)]
        /\ out \in [Tensors -> Payloads \union {Nothing, Torn}]
    BY <1>1, <2>1, SlotTypes DEF buffers
  <2>. QED BY <1>1, <1>5, <2>2, BufferTypesNext DEF AtRest
<1>7. TypeInv'
  BY <1>1, <1>3, <1>6 DEF buffers, MainInv, TypeInv
<1>8. RunInv'
  <2> SUFFICES ASSUME Settled', NEW t \in Tensors
               PROVE  out'[t] = IF t < at' THEN Shipped(Comp, t) ELSE Nothing
    BY <1>4 DEF RunInv
  <2>1. FillLandsFirst /\ at' # 1
    BY <1>1, <1>4 DEF Settled
  <2>2. err = << >> /\ at' = NTensors + 1
    BY <1>1, <1>2, <2>1
  <2>3. t < at'
    BY <2>2, SomeTensors
  <2>4. Comp \in BOOLEAN
    BY <1>1, AtRun
  <2>5. out[t] = Shipped(Comp, t)
    <3>1. CASE Comp = TRUE
      <4>1. CmpP!DeliveryInv
        BY <1>1, <2>1, <3>1 DEF IInv, PipeInv
      <4>. QED BY <1>1, <2>2, <3>1, <4>1, CmpArrived
    <3>2. CASE Comp = FALSE
      <4>1. RawP!DeliveryInv
        BY <1>1, <2>1, <3>2 DEF IInv, PipeInv
      <4>. QED BY <1>1, <2>2, <3>2, <4>1, RawArrived
    <3>. QED BY <2>4, <3>1, <3>2
  <2>. QED BY <1>1, <2>3, <2>5 DEF buffers
<1>9. StagedInv'
  BY <1>1, <1>4 DEF StagedInv
<1>10. PipeInv'
  BY <1>1, <1>2, <1>3 DEF PipeInv, Pipelining, Now
<1>11. StreamsInv'
  BY <1>1, <1>5 DEF StreamsInv
<1>. QED BY <1>4, <1>7, <1>8, <1>9, <1>10, <1>11 DEF IInv, MainInv

LEMMA StageTensorStep == MainInv /\ StageTensor => MainInv'
<1> SUFFICES ASSUME MainInv, StageTensor PROVE MainInv'
  OBVIOUS
<1> DEFINE id == Shipped(Comp, at)
           n  == Sizes[Comp][at]
           o  == Offset(Comp, at)
<1>1. /\ Now("run") /\ PathOf(block) = "fsync" /\ at \in Tensors /\ at' = at + 1
      /\ UNCHANGED <<verifyOnly, block, todo, host, recv, dec, out, file, checks, trials, call>>
      /\ scr' = IF Comp THEN [scr EXCEPT ![0] = Shipped(Comp, at)] ELSE scr
  BY DEF StageTensor
<1>2. at \in 1..NTensors /\ at' \in 1..(NTensors + 1) /\ at' \in 0..(NTensors + 1) /\ at > 0
  <2>1. at \in 1..NTensors /\ NTensors \in Nat
    BY <1>1, SomeTensors
  <2>. QED BY <1>1, <2>1
<1>3. /\ ProgramInv' /\ HeldInv' /\ ChecksInv' /\ OrderInv'
      /\ Comp' = Comp /\ PathOf(block)' = PathOf(block)
  BY <1>1, <1>2, WhileRunning
<1>4. Comp \in BOOLEAN
  BY <1>1, AtRun
<1>5. id \in Payloads /\ n \in Nat \ {0} /\ o \in Nat
  <2>1. at \in 1..(NTensors + 1)
    BY <1>2, SomeTensors
  <2>. QED BY <1>1, <1>2, <1>4, <2>1, ShippedTypes, TensorSizes, OffsetTypes
<1>6. hostFlat \in [1..Total(FALSE) -> Payloads \union {Nothing}]
  BY DEF MainInv, TypeInv
<1>7. hostFlat' = [p \in 1..Total(FALSE) |-> IF p \in (o + 1)..(o + n) THEN id ELSE hostFlat[p]]
  BY <1>6 DEF StageTensor
<1> HIDE DEF id, n, o
<1>8. TypeInv'
  <2>1. hostFlat' \in [1..Total(FALSE) -> Payloads \union {Nothing}]
    BY <1>5, <1>6, <1>7
  <2>2. RawP!TypeOK'
    <3>1. scr' \in [Slots -> Payloads \union {Nothing, Torn}]
      BY <1>1, <1>5, SlotTypes DEF id, MainInv, TypeInv
    <3>. QED BY <1>1, <3>1, TypesKept, SlotTypes DEF MainInv, TypeInv
  <2>. QED BY <1>1, <1>2, <2>1, <2>2 DEF MainInv, TypeInv
<1>9. RunInv'
  BY <1>1, <1>3 DEF RunInv
<1>10. StagedInv'
  <2>1. ASSUME NEW t \in Tensors, t < at', NEW k \in 1..Sizes[Comp][t]
        PROVE  hostFlat'[Offset(Comp, t) + k] = Shipped(Comp, t)
    <3>1. t \in 1..NTensors /\ t \in 1..(NTensors + 1)
      BY SomeTensors
    <3>2. Offset(Comp, t) + k \in 1..Total(FALSE)
      <4>1. Offset(Comp, t) + k \in 1..Total(Comp)
        BY <1>4, <3>1, RegionInside
      <4>2. Total(Comp) <= Total(FALSE) /\ Total(Comp) \in Nat /\ Total(FALSE) \in Nat
        BY <1>4, StagingHasRoom, OffsetTypes
      <4>3. \A m, l \in Nat : m <= l => \A p \in 1..m : p \in 1..l
        OBVIOUS
      <4>. QED BY Zenon, <4>1, <4>2, <4>3
    <3>3. Sizes[Comp][t] \in Nat /\ Offset(Comp, t) \in Nat
      BY <1>4, <3>1, TensorSizes, OffsetTypes
    <3>4. CASE t = at
      <4>1. Offset(Comp, t) + k \in (o + 1)..(o + n)
        <5>1. Offset(Comp, t) = o /\ Sizes[Comp][t] = n
          BY <3>4 DEF o, n
        <5>. QED BY <1>5, <5>1
      <4>. QED BY <1>7, <3>2, <3>4, <4>1 DEF id
    <3>5. CASE t # at
      <4>1. t < at
        BY <1>1, <1>2, <2>1, <3>1, <3>5
      <4>2. Offset(Comp, t) + Sizes[Comp][t] <= o
        <5>1. at \in 1..(NTensors + 1)
          BY <1>2, SomeTensors
        <5>. QED BY <1>4, <3>1, <4>1, <5>1, RegionsApart DEF o
      <4>3. Offset(Comp, t) + k \notin (o + 1)..(o + n)
        BY <1>5, <3>3, <4>2
      <4>4. hostFlat[Offset(Comp, t) + k] = Shipped(Comp, t)
        BY <1>1, <1>2, <4>1 DEF MainInv, StagedInv
      <4>. QED BY <1>7, <3>2, <4>3, <4>4
    <3>. QED BY <3>4, <3>5
  <2>. QED BY <1>3, <2>1 DEF StagedInv
<1>. QED BY <1>3, <1>8, <1>9, <1>10 DEF MainInv
\* A step that gives up the head of the program leaves a program.
LEMMA StepDone ==
  ASSUME MainInv, todo # << >>, todo' = Tail(todo), at' = 0, verifyOnly' = verifyOnly
  PROVE  /\ todo' \in Seq(Steps) /\ at' \in 0..(NTensors + 1)
         /\ ProgramInv' /\ RunInv' /\ StagedInv'
         /\ Head(todo).do # "run" => HeldInv'
         /\ Head(todo) \in Steps /\ (todo' = << >> <=> Head(todo).do = "end")
<1>1. todo \in Seq(Steps) /\ ProgramShape(todo, verifyOnly)
  BY DEF MainInv, TypeInv, ProgramInv
<1>2. /\ Head(todo) \in Steps /\ todo' \in Seq(Steps) /\ ProgramShape(todo', verifyOnly')
      /\ todo' = << >> <=> Head(todo).do = "end"
      /\ todo' # << >> /\ Head(todo').do \in {"check", "compare"}
           => Head(todo) = Run(Head(todo').comp)
  BY <1>1, ShapeTail
<1>3. ~(at' > 0) /\ at' \in 0..(NTensors + 1)
  BY SomeTensors
<1>4. Head(todo).do # "run" => HeldInv'
  BY <1>2, StepTypes DEF HeldInv, Run
<1>. QED BY <1>2, <1>3, <1>4 DEF ProgramInv, RunInv, StagedInv

\* One that is neither a trial nor the block's end leaves the balance as it is.
LEMMA OrderKept ==
  ASSUME MainInv, todo # << >>, todo' = Tail(todo), Head(todo).do \notin {"trial", "end"},
         UNCHANGED <<verifyOnly, block, trials>>
  PROVE  OrderInv'
<1>1. todo \in Seq(Steps) /\ ProgramShape(todo, verifyOnly)
  BY DEF MainInv, TypeInv, ProgramInv
<1>2. todo' # << >> /\ todo' \in Seq(Steps)
  BY <1>1, ShapeTail
<1>3. \A r \in BOOLEAN : Count(todo, Trial(r)) = Count(todo', Trial(r))
  <2> TAKE r \in BOOLEAN
  <2>1. Head(todo) # Trial(r)
    BY DEF Trial
  <2>2. Count(todo, Trial(r)) = Count(Tail(todo), Trial(r)) + 0
    BY <1>1, <2>1, CountTail
  <2>3. Count(Tail(todo), Trial(r)) \in Nat
    BY <1>2, CountType
  <2>4. \A n \in Nat : n + 0 = n
    OBVIOUS
  <2>. QED BY Zenon, <2>2, <2>3, <2>4
<1>. QED BY <1>2, <1>3 DEF MainInv, OrderInv, Recorded

\* What the run that ends has produced is there for the check behind it.
LEMMA EndRunStep == MainInv /\ EndRun => MainInv'
<1> SUFFICES ASSUME MainInv, EndRun PROVE MainInv'
  OBVIOUS
<1>1. /\ Now("run") /\ at = NTensors + 1 /\ at' = 0 /\ todo' = Tail(todo)
      /\ UNCHANGED <<verifyOnly, block, scr, host, recv, dec, hostFlat, out, checks, trials, call>>
      /\ file' = IF PathOf(block) = "fsync" THEN SubSeq(hostFlat, 1, Total(Comp)) ELSE file
  BY DEF EndRun
<1>2. todo # << >> /\ Comp \in BOOLEAN /\ Head(todo).do = "run" /\ at > 0
  BY <1>1, AtRun, SomeTensors
<1>3. /\ todo' \in Seq(Steps) /\ at' \in 0..(NTensors + 1)
      /\ ProgramInv' /\ RunInv' /\ StagedInv'
  BY <1>1, <1>2, StepDone
<1>4. OrderInv'
  BY <1>1, <1>2, OrderKept
<1>5. /\ Total(Comp) \in Nat /\ Total(FALSE) \in Nat /\ Total(Comp) <= Total(FALSE)
  BY <1>2, OffsetTypes, StagingHasRoom
<1>6. /\ hostFlat \in Seq(Payloads \union {Nothing}) /\ Len(hostFlat) = Total(FALSE)
  <2>1. hostFlat \in [1..Total(FALSE) -> Payloads \union {Nothing}]
    BY DEF MainInv, TypeInv
  <2>2. \A S : \A n \in Nat : \A f \in [1..n -> S] : f \in Seq(S) /\ Len(f) = n
    OBVIOUS
  <2>. QED BY Zenon, <1>5, <2>1, <2>2
<1> DEFINE written == SubSeq(hostFlat, 1, Total(Comp))
<1>7. /\ written \in Seq(Payloads \union {Nothing}) /\ Len(written) = Total(Comp)
      /\ \A p \in 1..Total(Comp) : written[p] = hostFlat[p]
  <2>1. \A m \in Nat : \A s \in Seq(Payloads \union {Nothing}) :
          m <= Len(s) => /\ SubSeq(s, 1, m) \in Seq(Payloads \union {Nothing})
                         /\ Len(SubSeq(s, 1, m)) = m
                         /\ \A p \in 1..m : SubSeq(s, 1, m)[p] = s[p]
    OBVIOUS
  <2>. QED BY Zenon, <1>5, <1>6, <2>1
<1> HIDE DEF written
<1>8. TypeInv'
  <2>1. file' \in Seq(Payloads \union {Nothing})
    BY <1>1, <1>7 DEF written, MainInv, TypeInv
  <2>2. RawP!TypeOK'
    BY <1>1, SameBuffers DEF MainInv, TypeInv
  <2>. QED BY <1>1, <1>3, <2>1, <2>2 DEF MainInv, TypeInv
<1>9. HeldInv'
  <2> SUFFICES ASSUME todo' # << >>, Head(todo').do \in {"check", "compare"}, Settled'
               PROVE  Held(Comp)'
    BY DEF HeldInv
  <2>1. Comp' = Comp
    <3>1. todo \in Seq(Steps) /\ ProgramShape(todo, verifyOnly)
      BY DEF MainInv, TypeInv, ProgramInv
    <3>2. Head(todo) = Run(Head(todo').comp)
      BY <1>1, <1>2, <3>1, ShapeTail
    <3>3. \A x : Run(x).comp = x
      BY DEF Run
    <3>. QED BY Zenon, <3>2, <3>3 DEF Comp
  <2>2. PathOf(block)' = PathOf(block)
    BY <1>1 DEF PathOf, Paths
  <2>3. CASE PathOf(block) = "fsync"
    <3>1. ASSUME NEW t \in Tensors, NEW k \in 1..Sizes[Comp][t]
          PROVE  file'[Offset(Comp, t) + k] = Shipped(Comp, t)
      <4>1. t \in 1..NTensors /\ t < at
        BY <1>1, SomeTensors
      <4>2. hostFlat[Offset(Comp, t) + k] = Shipped(Comp, t)
        BY <1>2, <2>3, <4>1 DEF MainInv, StagedInv
      <4>3. Offset(Comp, t) + k \in 1..Total(Comp)
        BY <1>2, <4>1, RegionInside
      <4>. QED BY <1>1, <1>7, <2>3, <4>2, <4>3 DEF written
    <3>2. Len(file') = Total(Comp)
      BY <1>1, <1>7, <2>3 DEF written
    <3>. QED BY <2>1, <2>2, <2>3, <3>1, <3>2 DEF Held
  <2>4. CASE PathOf(block) # "fsync"
    <3>1. ASSUME NEW t \in Tensors
          PROVE  out'[t] = Shipped(Comp, t)
      <4>1. t \in 1..NTensors /\ t < at
        BY <1>1, SomeTensors
      <4>2. Settled
        BY <1>1, <2>2, SomeTensors DEF Settled
      <4>. QED BY <1>1, <1>2, <2>4, <4>1, <4>2 DEF MainInv, RunInv
    <3>. QED BY <2>1, <2>2, <2>4, <3>1 DEF Held
  <2>. QED BY <2>3, <2>4
<1>10. ChecksInv'
  BY <1>1 DEF MainInv, ChecksInv
<1>. QED BY <1>3, <1>4, <1>8, <1>9, <1>10 DEF MainInv

LEMMA OutcomeStep ==
  ASSUME MainInv, UNCHANGED <<verifyOnly, block, todo, at, buffers, checks, trials, call>>
  PROVE  MainInv'
<1>1. TypeInv'
  <2>1. RawP!TypeOK'
    BY SameBuffers DEF MainInv, TypeInv, buffers
  <2>. QED BY <2>1 DEF MainInv, TypeInv, buffers
<1>2. Comp' = Comp /\ PathOf(block)' = PathOf(block) /\ Settled' = Settled
  BY DEF Comp, PathOf, Paths, Settled
<1>3. ProgramInv'
  BY DEF MainInv, ProgramInv
<1>4. RunInv' /\ StagedInv'
  BY <1>2 DEF MainInv, RunInv, StagedInv, buffers
<1>5. HeldInv'
  BY <1>2 DEF MainInv, HeldInv, Held, buffers
<1>6. ChecksInv' /\ OrderInv'
  BY DEF MainInv, ChecksInv, OrderInv, Recorded
<1>. QED BY <1>1, <1>3, <1>4, <1>5, <1>6 DEF MainInv

\* What a check finds while it stands at the head of the program.
LEMMA AtCheck ==
  ASSUME MainInv, todo # << >>, Head(todo).do \in {"check", "compare"}
  PROVE  /\ FillLandsFirst => Held(Comp) /\ checks \in Seq({"ok"})
         /\ Comp \in BOOLEAN /\ at = 0
         /\ Head(todo).do = "compare" => PathOf(block) # "fsync"
<1>1. todo \in Seq(Steps) /\ at \in 0..(NTensors + 1) /\ ProgramShape(todo, verifyOnly)
      /\ block \in Nat \ {0} /\ verifyOnly \in BOOLEAN
  BY DEF MainInv, TypeInv, ProgramInv
<1>3. at = 0
  <2>1. ~(at > 0)
    BY DEF MainInv, ProgramInv
  <2>. QED BY <1>1, <2>1, SomeTensors
<1>2. FillLandsFirst => Held(Comp)
  BY <1>3 DEF MainInv, HeldInv, Settled
<1>4. Head(todo) \in Steps
  BY <1>1, ShapeTail
<1>5. Head(todo).do = "compare" => PathOf(block) # "fsync"
  <2>1. Head(todo).do = "compare" => verifyOnly = TRUE
    BY <1>1, ShapeTail
  <2>. QED BY <1>1, <2>1, AloneMoves
<1>. QED BY <1>2, <1>3, <1>4, <1>5 DEF Comp, Steps, MainInv, ChecksInv
\* A verdict "ok" more is one more of the same.
LEMMA OneMoreOk == ASSUME checks \in Seq({"ok"}) PROVE Append(checks, "ok") \in Seq({"ok"})
OBVIOUS

LEMMA CheckMovedStep == MainInv /\ CheckMoved => MainInv'
<1> SUFFICES ASSUME MainInv, CheckMoved PROVE MainInv'
  OBVIOUS
<1>1. /\ todo # << >> /\ Head(todo).do = "check" /\ PathOf(block) # "fsync" /\ todo' = Tail(todo)
      /\ checks' = Append(checks, IF Moved(Comp) THEN "ok" ELSE "mismatch")
      /\ UNCHANGED <<verifyOnly, block, at, buffers, trials, call>>
  BY DEF CheckMoved, Now
<1>2. (FillLandsFirst => Held(Comp) /\ checks \in Seq({"ok"})) /\ at' = 0
  BY <1>1, AtCheck
<1>3. /\ todo' \in Seq(Steps) /\ at' \in 0..(NTensors + 1)
      /\ ProgramInv' /\ RunInv' /\ StagedInv' /\ HeldInv'
  BY <1>1, <1>2, StepDone
<1>4. OrderInv'
  BY <1>1, OrderKept
<1>5. FillLandsFirst => Moved(Comp)
  BY <1>1, <1>2 DEF Held, Moved
<1>6. ChecksInv'
  BY <1>1, <1>2, <1>5, OneMoreOk DEF ChecksInv
<1>7. TypeInv'
  <2>1. RawP!TypeOK'
    BY <1>1, SameBuffers DEF buffers, MainInv, TypeInv
  <2>. QED BY <1>1, <1>3, <2>1 DEF buffers, MainInv, TypeInv
<1>. QED BY <1>3, <1>4, <1>6, <1>7 DEF MainInv

LEMMA CheckWrittenStep == MainInv /\ CheckWritten => MainInv'
<1> SUFFICES ASSUME MainInv, CheckWritten PROVE MainInv'
  OBVIOUS
<1>1. /\ todo # << >> /\ Head(todo).do = "check" /\ PathOf(block) = "fsync" /\ todo' = Tail(todo)
      /\ checks' = Append(checks, Written(Comp))
      /\ UNCHANGED <<verifyOnly, block, at, host, recv, dec, hostFlat, out, file, trials, call>>
      /\ scr' = IF Comp /\ Written(TRUE) # "shortRead"
                THEN [scr EXCEPT ![0] = Shipped(TRUE, NTensors)] ELSE scr
  BY DEF CheckWritten, Now
<1>2. /\ FillLandsFirst => Held(Comp) /\ checks \in Seq({"ok"})
      /\ at' = 0 /\ Comp \in BOOLEAN
  BY <1>1, AtCheck
<1>3. /\ todo' \in Seq(Steps) /\ at' \in 0..(NTensors + 1)
      /\ ProgramInv' /\ RunInv' /\ StagedInv' /\ HeldInv'
  BY <1>1, <1>2, StepDone
<1>4. OrderInv'
  BY <1>1, OrderKept
<1>5. ASSUME FillLandsFirst PROVE Written(Comp) = "ok"
  <2>5. /\ Len(file) = Total(Comp)
        /\ \A t \in Tensors : \A k \in 1..Sizes[Comp][t] :
             file[Offset(Comp, t) + k] = Shipped(Comp, t)
    BY <1>1, <1>2, FillLandsFirst DEF Held
  <2>6. ASSUME NEW t \in Tensors PROVE RegionHolds(Comp, t)
    <3>1. t \in 1..NTensors /\ t \in 1..(NTensors + 1) /\ t < NTensors + 1
          /\ NTensors + 1 \in 1..(NTensors + 1)
      BY SomeTensors
    <3> DEFINE o == Offset(Comp, t)
               n == Sizes[Comp][t]
    <3>2. o \in Nat /\ n \in Nat /\ Total(Comp) \in Nat /\ o + n <= Total(Comp)
      <4>1. o \in Nat /\ Total(Comp) \in Nat
        BY <1>2, <3>1, OffsetTypes
      <4>2. n \in Nat
        BY <1>2, <3>1, TensorSizes
      <4>3. o + n <= Offset(Comp, NTensors + 1)
        BY <1>2, <3>1, RegionsApart
      <4>. QED BY <4>1, <4>2, <4>3 DEF Total
    <3>3. file \in Seq(Payloads \union {Nothing})
      BY DEF MainInv, TypeInv
    <3> DEFINE region == SubSeq(file, o + 1, o + n)
    <3>4. DOMAIN region = 1..n /\ \A k \in 1..n : region[k] = file[o + k]
      <4>1. \A S : \A s \in Seq(S) : \A a, b \in Nat :
              a + b <= Len(s) => /\ DOMAIN SubSeq(s, a + 1, a + b) = 1..b
                                 /\ \A k \in 1..b : SubSeq(s, a + 1, a + b)[k] = s[a + k]
        <5> TAKE S
        <5> TAKE s \in Seq(S)
        <5> TAKE a, b \in Nat
        <5> HAVE a + b <= Len(s)
        <5>1. Len(s) \in Nat /\ a + 1 \in Int /\ a + b \in Int
          OBVIOUS
        <5>2. (a + b) - (a + 1) + 1 = b
          OBVIOUS
        <5>3. SubSeq(s, a + 1, a + b) = [i \in 1..b |-> s[(a + 1) + i - 1]]
          BY <5>1, <5>2
        <5>4. \A k \in 1..b : (a + 1) + k - 1 = a + k
          OBVIOUS
        <5>. QED BY <5>3, <5>4
      <4>. HIDE DEF o, n
      <4>. QED BY Zenon, <2>5, <3>2, <3>3, <4>1
    <3>5. Region(Comp, t) = region
      BY DEF Region
    <3>6. \A k \in 1..n : file[o + k] = Shipped(Comp, t)
      BY <2>5
    <3>. HIDE DEF region, o, n
    <3>. QED BY <3>4, <3>5, <3>6 DEF RegionHolds
  <2>. QED BY <2>5, <2>6 DEF Written
<1>8. ChecksInv'
  BY <1>1, <1>2, <1>5, OneMoreOk DEF ChecksInv
<1>9. TypeInv'
  <2>1. scr' \in [Slots -> Payloads \union {Nothing, Torn}]
    <3>1. NTensors \in Tensors
      BY SomeTensors
    <3>2. Shipped(TRUE, NTensors) \in Payloads
      BY <3>1, ShippedTypes
    <3>. QED BY <1>1, <3>2, SlotTypes DEF MainInv, TypeInv
  <2>2. RawP!TypeOK'
    BY <1>1, <2>1, TypesKept, SlotTypes DEF MainInv, TypeInv
  <2>. QED BY <1>1, <1>3, <2>2 DEF MainInv, TypeInv
<1>. QED BY <1>3, <1>4, <1>8, <1>9 DEF MainInv

LEMMA ComparePerTensorStep == MainInv /\ ComparePerTensor => MainInv'
<1> SUFFICES ASSUME MainInv, ComparePerTensor PROVE MainInv'
  OBVIOUS
<1> DEFINE verdicts == [t \in Tensors |-> IF out[t] = Wanted(Comp, t) THEN "ok" ELSE "mismatch"]
<1>1. /\ todo # << >> /\ Head(todo).do = "compare" /\ todo' = Tail(todo)
      /\ checks' = checks \o verdicts
      /\ UNCHANGED <<verifyOnly, block, at, buffers, trials, call>>
  BY DEF ComparePerTensor, Now
<1>2. /\ FillLandsFirst => Held(Comp) /\ checks \in Seq({"ok"})
      /\ at' = 0 /\ Comp \in BOOLEAN /\ PathOf(block) # "fsync"
  BY <1>1, AtCheck
<1>3. /\ todo' \in Seq(Steps) /\ at' \in 0..(NTensors + 1)
      /\ ProgramInv' /\ RunInv' /\ StagedInv' /\ HeldInv'
  BY <1>1, <1>2, StepDone
<1>4. OrderInv'
  BY <1>1, OrderKept
<1>5. ASSUME NEW t \in Tensors PROVE Wanted(Comp, t) = Shipped(Comp, t)
  <2>1. Shipped(TRUE, t) \in Payloads /\ Sizes[TRUE][t] \in Nat \ {0}
    BY ShippedTypes, TensorSizes, SomeTensors
  <2>2. Zeroed \in Contents(Payloads) /\ Cleared(Zeroed) = Zeroed
    BY DEF Zeroed, Contents, Cleared
  <2>3. Fresh(t) = Shipped(TRUE, t)
    <3>1. Decoded(CopiedInto(Cleared(Zeroed), Shipped(TRUE, t), Sizes[TRUE][t]),
                  Shipped(TRUE, t), Sizes[TRUE][t], Nothing) = Shipped(TRUE, t)
      BY <2>1, <2>2, Arrives
    <3>. QED BY <2>2, <3>1 DEF Fresh
  <2>4. CASE Comp = TRUE
    BY Zenon, <2>3, <2>4 DEF Wanted
  <2>5. CASE Comp = FALSE
    BY Zenon, <2>5 DEF Wanted
  <2>. QED BY <1>2, <2>4, <2>5
<1>6. FillLandsFirst => \A t \in Tensors : out[t] = Shipped(Comp, t)
  BY <1>2 DEF Held
<1>7. ASSUME FillLandsFirst PROVE verdicts \in Seq({"ok"})
  <2>1. verdicts \in [Tensors -> {"ok"}]
    BY <1>5, <1>6, <1>7
  <2>2. Tensors = 1..NTensors /\ NTensors \in Nat
    BY SomeTensors
  <2>3. \A S : \A n \in Nat : \A f \in [1..n -> S] : f \in Seq(S)
    OBVIOUS
  <2>. HIDE DEF verdicts
  <2>. QED BY Zenon, <2>1, <2>2, <2>3
<1>8. ChecksInv'
  <2>. HIDE DEF verdicts
  <2>. QED BY <1>1, <1>2, <1>7, ConcatProperties DEF ChecksInv
<1>9. TypeInv'
  <2>1. RawP!TypeOK'
    BY <1>1, SameBuffers DEF buffers, MainInv, TypeInv
  <2>. QED BY <1>1, <1>3, <2>1 DEF buffers, MainInv, TypeInv
<1>. QED BY <1>3, <1>4, <1>8, <1>9 DEF MainInv
\* A pair on record is one the program no longer has.
LEMMA RecordTrialStep == MainInv /\ RecordTrial => MainInv'
<1> SUFFICES ASSUME MainInv, RecordTrial PROVE MainInv'
  OBVIOUS
<1> DEFINE entry == [block |-> block, rawFirst |-> Comp]
<1>1. /\ todo # << >> /\ Head(todo).do = "trial" /\ todo' = Tail(todo)
      /\ trials' = Append(trials, entry)
      /\ UNCHANGED <<verifyOnly, block, at, buffers, checks, call>>
  BY DEF RecordTrial, Now
<1>2. /\ todo \in Seq(Steps) /\ block \in Nat \ {0} /\ at \in 0..(NTensors + 1)
      /\ trials \in Seq([block : Nat \ {0}, rawFirst : BOOLEAN])
  BY DEF MainInv, TypeInv
<1>3. at' = 0
  <2>1. ~(at > 0)
    BY <1>1 DEF MainInv, ProgramInv
  <2>. QED BY <1>1, <1>2, <2>1, SomeTensors
<1>4. /\ todo' \in Seq(Steps) /\ at' \in 0..(NTensors + 1) /\ Head(todo) \in Steps
      /\ ProgramInv' /\ RunInv' /\ StagedInv' /\ HeldInv' /\ todo' # << >>
  BY <1>1, <1>3, StepDone
<1>5. Comp \in BOOLEAN /\ Head(todo) = Trial(Comp)
  BY <1>1, <1>4 DEF Comp, Trial, Steps
<1>6. entry \in [block : Nat \ {0}, rawFirst : BOOLEAN]
  BY <1>2, <1>5
<1>7. TypeInv'
  <2>1. trials' \in Seq([block : Nat \ {0}, rawFirst : BOOLEAN])
    <3>. HIDE DEF entry
    <3>. QED BY <1>1, <1>2, <1>6, AppendProperties
  <2>2. RawP!TypeOK'
    BY <1>1, SameBuffers DEF buffers, MainInv, TypeInv
  <2>. QED BY <1>1, <1>4, <2>1, <2>2 DEF buffers, MainInv, TypeInv
<1>8. ChecksInv'
  BY <1>1 DEF MainInv, ChecksInv
<1>9. ASSUME NEW b \in Nat \ {0}, NEW r \in BOOLEAN
      PROVE  Recorded(b, r)' = Recorded(b, r) + (IF b = block /\ r = Comp THEN 1 ELSE 0)
  <2> DEFINE e == [block |-> b, rawFirst |-> r]
  <2>1. Count(Append(trials, entry), e) = Count(trials, e) + (IF entry = e THEN 1 ELSE 0)
    <3> DEFINE Entries == [block : Nat \ {0}, rawFirst : BOOLEAN]
    <3>1. trials \in Seq(Entries) /\ entry \in Entries
      BY <1>2, <1>6
    <3>. HIDE DEF entry, e, Entries
    <3>. QED BY <3>1, CountAppend
  <2>2. entry = e <=> b = block /\ r = Comp
    OBVIOUS
  <2>. HIDE DEF entry, e
  <2>3. Count(trials', e) = Count(trials, e) + (IF b = block /\ r = Comp THEN 1 ELSE 0)
    BY Zenon, <1>1, <2>1, <2>2
  <2>. QED BY Zenon, <2>3 DEF Recorded, e
<1>10. ASSUME NEW r \in BOOLEAN
       PROVE  Count(todo, Trial(r)) = Count(todo', Trial(r)) + (IF r = Comp THEN 1 ELSE 0)
  <2>1. Count(todo, Trial(r)) = Count(Tail(todo), Trial(r)) + (IF Head(todo) = Trial(r) THEN 1 ELSE 0)
    BY <1>1, <1>2, CountTail
  <2>2. \A x, y : Trial(x) = Trial(y) <=> x = y
    BY DEF Trial
  <2>. QED BY Zenon, <1>1, <1>5, <2>1, <2>2
<1>11. \A r \in BOOLEAN : Count(todo', Trial(r)) \in Nat
  BY <1>4, CountType
<1>12. \A b, r : Recorded(b, r) \in Nat
  BY <1>2, CountType DEF Recorded
<1>13. OrderInv'
  <2> SUFFICES ASSUME ~verifyOnly, NEW b \in Nat \ {0}, NEW r \in BOOLEAN
               PROVE  /\ b < block => Recorded(b, r)' = Due(r)
                      /\ b = block => Recorded(b, r)' + Count(todo', Trial(r)) = Due(r)
                      /\ b > block => Recorded(b, r)' = 0
    BY <1>1, <1>4 DEF OrderInv, Due, PerSegment
  <2>1. /\ b < block => Recorded(b, r) = Due(r)
        /\ b = block => Recorded(b, r) + Count(todo, Trial(r)) = Due(r)
        /\ b > block => Recorded(b, r) = 0
    BY <1>1 DEF MainInv, OrderInv
  <2>2. b < block \/ b > block => b # block
    BY <1>2
  <2>3. \A n \in Nat : n + 0 = n
    OBVIOUS
  <2>4. \A n, m \in Nat : n + (m + 1) = (n + 1) + m /\ n + (m + 0) = (n + 0) + m
    OBVIOUS
  <2>5. b < block => Recorded(b, r)' = Due(r)
    BY Zenon, <1>9, <1>12, <2>1, <2>2, <2>3
  <2>6. b > block => Recorded(b, r)' = 0
    <3>1. 0 + 0 = 0
      OBVIOUS
    <3>. QED BY Zenon, <1>9, <2>1, <2>2, <3>1
  <2>7. b = block => Recorded(b, r)' + Count(todo', Trial(r)) = Due(r)
    <3> SUFFICES ASSUME b = block PROVE Recorded(b, r)' + Count(todo', Trial(r)) = Due(r)
      OBVIOUS
    <3>1. Recorded(b, r) \in Nat /\ Count(todo', Trial(r)) \in Nat
      BY <1>11, <1>12
    <3>2. CASE r = Comp
      <4>1. Recorded(b, r)' = Recorded(b, r) + 1
        BY Zenon, <1>9, <3>2
      <4>2. Count(todo, Trial(r)) = Count(todo', Trial(r)) + 1
        BY Zenon, <1>10, <3>2
      <4>3. Recorded(b, r) + (Count(todo', Trial(r)) + 1) = Due(r)
        BY Zenon, <2>1, <4>2
      <4>4. Recorded(b, r) + (Count(todo', Trial(r)) + 1) = (Recorded(b, r) + 1) + Count(todo', Trial(r))
        BY Zenon, <2>4, <3>1
      <4>. QED BY Zenon, <4>1, <4>3, <4>4
    <3>3. CASE r # Comp
      <4>1. Recorded(b, r)' = Recorded(b, r) + 0
        BY Zenon, <1>9, <3>3
      <4>2. Count(todo, Trial(r)) = Count(todo', Trial(r)) + 0
        BY Zenon, <1>10, <3>3
      <4>3. Recorded(b, r) + (Count(todo', Trial(r)) + 0) = Due(r)
        BY Zenon, <2>1, <4>2
      <4>4. Recorded(b, r) + (Count(todo', Trial(r)) + 0) = (Recorded(b, r) + 0) + Count(todo', Trial(r))
        BY Zenon, <2>4, <3>1
      <4>. QED BY Zenon, <4>1, <4>3, <4>4
    <3>. QED BY <3>2, <3>3
  <2>. QED BY <2>5, <2>6, <2>7
<1>. QED BY <1>4, <1>7, <1>8, <1>13 DEF MainInv

LEMMA EndBlockStep == MainInv /\ EndBlock => MainInv'
<1> SUFFICES ASSUME MainInv, EndBlock PROVE MainInv'
  OBVIOUS
<1>1. /\ todo # << >> /\ Head(todo).do = "end" /\ todo' = Tail(todo) /\ block' = block + 1
      /\ UNCHANGED <<verifyOnly, at, scr, host, recv, dec, hostFlat, out, checks, trials, call>>
      /\ file' = IF PathOf(block) = "fsync" THEN Gone ELSE file
  BY DEF EndBlock, Now
<1>2. /\ todo \in Seq(Steps) /\ block \in Nat \ {0} /\ at \in 0..(NTensors + 1)
      /\ trials \in Seq([block : Nat \ {0}, rawFirst : BOOLEAN])
  BY DEF MainInv, TypeInv
<1>3. at' = 0
  <2>1. ~(at > 0)
    BY <1>1 DEF MainInv, ProgramInv
  <2>. QED BY <1>1, <1>2, <2>1, SomeTensors
<1>4. /\ todo' \in Seq(Steps) /\ at' \in 0..(NTensors + 1)
      /\ ProgramInv' /\ RunInv' /\ StagedInv' /\ HeldInv' /\ todo' = << >>
  BY <1>1, <1>3, StepDone
<1>5. TypeInv'
  <2>1. file' \in Seq(Payloads \union {Nothing})
    <3>1. Gone \in Seq(Payloads \union {Nothing})
      BY DEF Gone
    <3>2. file \in Seq(Payloads \union {Nothing})
      BY DEF MainInv, TypeInv
    <3>. QED BY Zenon, <1>1, <3>1, <3>2
  <2>2. block' \in Nat \ {0}
    BY <1>1, <1>2
  <2>3. RawP!TypeOK'
    BY <1>1, SameBuffers DEF MainInv, TypeInv
  <2>. QED BY <1>1, <1>4, <2>1, <2>2, <2>3 DEF MainInv, TypeInv
<1>6. ChecksInv'
  BY <1>1 DEF MainInv, ChecksInv
<1>7. OrderInv'
  <2> SUFFICES ASSUME ~verifyOnly, NEW b \in Nat \ {0}, NEW r \in BOOLEAN
               PROVE  /\ b < block + 1 => Recorded(b, r) = Due(r)
                      /\ b >= block + 1 => Recorded(b, r) = 0
    <3>1. \A b \in Nat \ {0} : \A r \in BOOLEAN : Recorded(b, r)' = Recorded(b, r)
      BY <1>1 DEF Recorded
    <3>2. \A b \in Nat \ {0} : b = block + 1 \/ b > block + 1 => b >= block + 1
      BY <1>2
    <3>. QED BY Zenon, <1>1, <1>4, <3>1, <3>2 DEF OrderInv, Due, PerSegment
  <2>1. /\ b < block => Recorded(b, r) = Due(r)
        /\ b = block => Recorded(b, r) + Count(todo, Trial(r)) = Due(r)
        /\ b > block => Recorded(b, r) = 0
    BY <1>1 DEF MainInv, OrderInv
  <2>2. /\ b < block + 1 => b < block \/ b = block
        /\ b >= block + 1 => b > block
    BY <1>2
  <2>3. b = block => Recorded(b, r) = Due(r)
    <3>1. Count(todo, Trial(r)) = Count(Tail(todo), Trial(r)) + (IF Head(todo) = Trial(r) THEN 1 ELSE 0)
      BY <1>1, <1>2, CountTail
    <3>2. Head(todo) # Trial(r)
      BY <1>1 DEF Trial
    <3>3. Count(Tail(todo), Trial(r)) = 0
      <4>1. Tail(todo) = << >>
        BY <1>1, <1>4
      <4>2. DOMAIN Tail(todo) = {}
        BY <4>1
      <4>. QED BY <4>2, CountNone
    <3>4. Recorded(b, r) \in Nat
      BY <1>2, CountType DEF Recorded
    <3>5. 0 + 0 = 0 /\ \A n \in Nat : n + 0 = n
      OBVIOUS
    <3>. QED BY Zenon, <2>1, <3>1, <3>2, <3>3, <3>4, <3>5
  <2>. QED BY <2>1, <2>2, <2>3
<1>. QED BY <1>4, <1>5, <1>6, <1>7 DEF MainInv

LEMMA BeginStep == MainInv /\ Begin => MainInv'
<1> SUFFICES ASSUME MainInv, Begin PROVE MainInv'
  OBVIOUS
<1>1. /\ todo = << >>
      /\ UNCHANGED <<verifyOnly, block, at, buffers, checks, trials, call>>
  BY DEF Begin
<1>2. /\ block \in Nat \ {0} /\ verifyOnly \in BOOLEAN /\ at \in 0..(NTensors + 1)
      /\ trials \in Seq([block : Nat \ {0}, rawFirst : BOOLEAN])
  BY DEF MainInv, TypeInv
<1>3. ~(at' > 0)
  BY <1>1 DEF MainInv, ProgramInv
<1>4. /\ todo' \in Seq(Steps) /\ todo' # << >> /\ ProgramShape(todo', verifyOnly)
      /\ Head(todo').do = "run"
      /\ ~verifyOnly => \A r \in BOOLEAN : Count(todo', Trial(r)) = Due(r)
  <2>1. CASE verifyOnly = TRUE
    <3>1. todo' = Append(VerifyOnly, End)
      BY <2>1 DEF Begin
    <3>. QED BY Zenon, <2>1, <3>1, AloneProgram
  <2>2. CASE verifyOnly = FALSE
    <3>1. PICK orders \in Orders : todo' = Append(Program(orders), End)
      BY <2>2 DEF Begin
    <3>. QED BY Zenon, <2>2, <3>1, BlockProgram
  <2>. QED BY <1>2, <2>1, <2>2
<1>5. TypeInv'
  <2>1. RawP!TypeOK'
    BY <1>1, SameBuffers DEF buffers, MainInv, TypeInv
  <2>. QED BY <1>1, <1>4, <2>1 DEF buffers, MainInv, TypeInv
<1>6. ProgramInv' /\ RunInv' /\ StagedInv' /\ HeldInv'
  BY <1>1, <1>3, <1>4 DEF ProgramInv, RunInv, StagedInv, HeldInv
<1>7. ChecksInv'
  BY <1>1 DEF MainInv, ChecksInv
<1>8. OrderInv'
  <2> SUFFICES ASSUME ~verifyOnly, NEW b \in Nat \ {0}, NEW r \in BOOLEAN
               PROVE  /\ b < block => Recorded(b, r) = Due(r)
                      /\ b = block => Recorded(b, r) + Count(todo', Trial(r)) = Due(r)
                      /\ b > block => Recorded(b, r) = 0
    <3>1. \A b, r : Recorded(b, r)' = Recorded(b, r)
      BY <1>1 DEF Recorded
    <3>. QED BY Zenon, <1>1, <1>4, <3>1 DEF OrderInv, Due, PerSegment
  <2>1. /\ b < block => Recorded(b, r) = Due(r)
        /\ b = block => Recorded(b, r) = 0
        /\ b > block => Recorded(b, r) = 0
    BY <1>1 DEF MainInv, OrderInv
  <2>2. b = block => Recorded(b, r) + Count(todo', Trial(r)) = Due(r)
    <3>1. Count(todo', Trial(r)) \in Nat
      BY <1>4, CountType
    <3>2. \A n \in Nat : 0 + n = n
      OBVIOUS
    <3>. QED BY Zenon, <1>4, <2>1, <3>1, <3>2
  <2>. QED BY <2>1, <2>2
<1>. QED BY <1>5, <1>6, <1>7, <1>8 DEF MainInv

\* Every other action finds no pipelined run in its threads' hands, and leaves none.
LEMMA OthersQuiet ==
  ASSUME MainInv, ~Pipelining, ~Pipelining', StreamsInv, UNCHANGED call
  PROVE  PipeInv' /\ StreamsInv'
<1>1. UNCHANGED <<copy0, copy1, default1>>
  BY DEF call
<1>. QED BY <1>1 DEF PipeInv, StreamsInv

LEMMA RunsQuiet ==
  ASSUME IInv, StartSerial \/ SerialTensor \/ StartWrite \/ StageTensor \/ EndRun
  PROVE  PipeInv' /\ StreamsInv'
<1>1. MainInv /\ StreamsInv /\ UNCHANGED call /\ UNCHANGED <<verifyOnly, block>>
  BY DEF IInv, StartSerial, SerialTensor, StartWrite, StageTensor, EndRun
<1>2. PathOf(block)' = PathOf(block)
  BY <1>1 DEF PathOf, Paths
<1>3. ~Pipelining /\ ~Pipelining'
  <2>1. CASE EndRun
    BY <2>1, SomeTensors DEF EndRun, Pipelining
  <2>2. CASE StartSerial \/ SerialTensor \/ StartWrite \/ StageTensor
    BY <1>2, <2>2 DEF StartSerial, SerialTensor, StartWrite, StageTensor, Pipelining
  <2>. QED BY <2>1, <2>2
<1>. QED BY <1>1, <1>3, OthersQuiet

LEMMA StepsQuiet ==
  ASSUME IInv, Begin \/ CheckMoved \/ CheckWritten \/ ComparePerTensor \/ RecordTrial \/ EndBlock
  PROVE  PipeInv' /\ StreamsInv'
<1>1. MainInv /\ StreamsInv /\ UNCHANGED <<at, call>>
  BY DEF IInv, Begin, CheckMoved, CheckWritten, ComparePerTensor, RecordTrial, EndBlock
<1>2. todo = << >> \/ Head(todo).do # "run"
  BY DEF Begin, CheckMoved, CheckWritten, ComparePerTensor, RecordTrial, EndBlock, Now
<1>3. ~(at > 0)
  BY <1>1, <1>2 DEF MainInv, ProgramInv
<1>4. ~Pipelining /\ ~Pipelining'
  BY <1>1, <1>3 DEF Pipelining
<1>. QED BY <1>1, <1>4, OthersQuiet

LEMMA OutcomesQuiet ==
  ASSUME IInv, RunRaises \/ Summarise \/ Verdict \/ Ended
  PROVE  PipeInv' /\ StreamsInv'
<1>1. MainInv /\ StreamsInv /\ UNCHANGED call
  BY DEF IInv, RunRaises, Summarise, Verdict, Ended, vars
<1>2. outcome' # "running"
  <2>1. CASE Ended
    BY <2>1 DEF Ended, vars
  <2>2. CASE RunRaises \/ Summarise \/ Verdict
    BY <2>2 DEF RunRaises, Summarise, Verdict
  <2>. QED BY <2>1, <2>2
<1>3. ~Pipelining
  <2>1. CASE RunRaises
    BY <2>1 DEF RunRaises
  <2>2. CASE Summarise \/ Verdict
    BY <2>2 DEF Summarise, Verdict, Pipelining, Now
  <2>3. CASE Ended
    BY <2>3 DEF Ended, Pipelining, Now
  <2>. QED BY <2>1, <2>2, <2>3
<1>4. ~Pipelining'
  BY <1>2 DEF Pipelining, Now
<1>. QED BY <1>1, <1>3, <1>4, OthersQuiet

LEMMA StutterIInv == ASSUME IInv, UNCHANGED vars PROVE IInv'
<1>1. MainInv /\ MainInv' /\ UNCHANGED <<scr, host, recv, dec, out, call>>
  BY OutcomeStep DEF IInv, vars, buffers
<1>2. RawP!TypeOK
  BY <1>1 DEF MainInv, TypeInv
<1>3. /\ FillLandsFirst /\ RawP!DeliveryInv => RawP!DeliveryInv'
      /\ FillLandsFirst /\ CmpP!DeliveryInv => CmpP!DeliveryInv'
  BY <1>1, <1>2, RawSteps, CmpSteps
<1>4. (Pipelining <=> Pipelining') /\ Comp' = Comp
  BY DEF Pipelining, Now, Comp, PathOf, Paths, vars
<1>5. PipeInv'
  BY <1>3, <1>4 DEF IInv, PipeInv
<1>6. StreamsInv'
  BY <1>4 DEF IInv, StreamsInv, vars, call
<1>. QED BY <1>1, <1>5, <1>6 DEF IInv

LEMMA MainOf == IInv => MainInv
BY DEF IInv

LEMMA InitIInv == Init => IInv
<1>1. Init => ~Pipelining /\ StreamsInv
  BY DEF Init, NoCall, Pipelining, StreamsInv
<1>. QED BY <1>1, InitMainInv DEF IInv, PipeInv

LEMMA NextIInv == IInv /\ [Next]_vars => IInv'
<1> SUFFICES ASSUME IInv, [Next]_vars PROVE IInv'
  OBVIOUS
<1>1. MainInv
  BY DEF IInv
<1>2. CASE StartPipeline
  BY <1>2, StartPipelineStep
<1>3. CASE PipelineProducer \/ PipelineConsumer \/ PipelineDevice
  BY <1>3, ThreadsStep
<1>4. CASE JoinPipeline
  BY <1>4, JoinPipelineStep
<1>5. CASE StartSerial \/ SerialTensor \/ StartWrite \/ StageTensor \/ EndRun
  <2>1. MainInv'
    BY <1>1, <1>5, StartSerialStep, SerialTensorStep, StartWriteStep, StageTensorStep, EndRunStep
  <2>. QED BY <1>5, <2>1, RunsQuiet DEF IInv
<1>6. CASE Begin \/ CheckMoved \/ CheckWritten \/ ComparePerTensor \/ RecordTrial \/ EndBlock
  <2>1. MainInv'
    BY <1>1, <1>6, BeginStep, CheckMovedStep, CheckWrittenStep, ComparePerTensorStep,
       RecordTrialStep, EndBlockStep
  <2>. QED BY <1>6, <2>1, StepsQuiet DEF IInv
<1>7. CASE RunRaises \/ Summarise \/ Verdict \/ Ended
  <2>1. MainInv'
    BY <1>1, <1>7, OutcomeStep DEF RunRaises, Summarise, Verdict, Ended, vars
  <2>. QED BY <1>7, <2>1, OutcomesQuiet DEF IInv
<1>8. CASE UNCHANGED vars
  BY <1>8, StutterIInv
<1>. QED BY <1>2, <1>3, <1>4, <1>5, <1>6, <1>7, <1>8 DEF Next
-----------------------------------------------------------------------------
(* What the runs' invariants say follows.                                   *)

\* No check of a run ever meets the other arm's outputs, file or staging, and none
\* finds an output that differs from the reconstruction of its own arm: of every
\* cache, shuffle, warm-up and number of segments (verify, verify_only), if fills
\* land before the copies issued after them.
THEOREM EveryRunIsChecked ==
  ASSUME FillLandsFirst
  PROVE  Spec => []EveryCheckPasses
<1>1. IInv => EveryCheckPasses
  BY ElementOfSeq DEF IInv, MainInv, ChecksInv, EveryCheckPasses
<1>. QED BY <1>1, InitIInv, NextIInv, PTL DEF Spec

\* A run of a moving path ends with its own arm's result for every tensor on GPU1,
\* and before that holds nothing of an earlier run: Bench.serial, and every
\* interleaving of Bench.pipeline's two threads and their streams, raising or not, if
\* a fill on GPU1's default stream lands before the copy issued after it.
THEOREM EveryRunDelivers ==
  ASSUME FillLandsFirst
  PROVE  Spec => []RunsDeliver
<1>1. IInv => RunsDeliver
  <2> SUFFICES ASSUME IInv, Now("run"), PathOf(block) # "fsync", at > 0, NEW t \in Tensors
               PROVE  /\ out[t] \in {Nothing, Shipped(Comp, t)}
                      /\ at = NTensors + 1 => out[t] # Nothing
    BY DEF RunsDeliver
  <2>1. MainInv /\ Comp \in BOOLEAN
    BY AtRun DEF IInv
  <2>2. CASE Pipelining
    <3>1. at # NTensors + 1
      BY <2>2, SomeTensors DEF Pipelining
    <3>2. CASE Comp = TRUE
      <4>1. CmpP!DeliveryInv
        BY <2>2, <3>2 DEF IInv, PipeInv
      <4>. QED BY <3>1, <3>2, <4>1, CmpNeverWrong
    <3>3. CASE Comp = FALSE
      <4>1. RawP!DeliveryInv
        BY <2>2, <3>3 DEF IInv, PipeInv
      <4>. QED BY <3>1, <3>3, <4>1, RawNeverWrong
    <3>. QED BY <2>1, <3>2, <3>3
  <2>3. CASE ~Pipelining
    <3>1. Settled
      BY <2>3 DEF Settled, Pipelining
    <3>2. out[t] = IF t < at THEN Shipped(Comp, t) ELSE Nothing
      BY <2>1, <3>1 DEF MainInv, RunInv
    <3>3. Shipped(Comp, t) # Nothing
      BY <2>1, ShippedTypes
    <3>4. at = NTensors + 1 => t < at
      BY SomeTensors
    <3>. QED BY <3>2, <3>3, <3>4
  <2>. QED BY <2>2, <2>3
<1>. QED BY <1>1, InitIInv, NextIInv, PTL DEF Spec

\* Whatever the arm before left in the staging, at its own layout, what this run has
\* staged so far is exactly the beginning of its own file (Bench.fsync_write).
THEOREM StagingIsOwn == Spec => []StagedPrefix
<1>1. MainInv => StagedPrefix
  <2> DEFINE n == at - 1
             s == [t \in 1..(at - 1) |-> [p \in 1..Sizes[Comp][t] |-> Shipped(Comp, t)]]
             o == [t \in 1..((at - 1) + 1) |-> Offset(Comp, t)]
             z == [t \in 1..(at - 1) |-> Sizes[Comp][t]]
             laid == FlattenSeq(s)
  <2> SUFFICES ASSUME MainInv, Now("run"), PathOf(block) = "fsync", at > 0
               PROVE  SubSeq(hostFlat, 1, Len(laid)) = laid
    BY DEF StagedPrefix
  <2>1. /\ Comp \in BOOLEAN /\ NTensors \in Nat
        /\ n \in Nat /\ n + 1 = at /\ at \in 1..(NTensors + 1) /\ n + 1 \in 1..(n + 1)
        /\ \A t \in 1..n : t \in 1..NTensors /\ t < at
        /\ \A t \in 1..(n + 1) : t \in 1..(NTensors + 1)
    <3>1. at \in 0..(NTensors + 1) /\ Comp \in BOOLEAN
      BY AtRun
    <3>. QED BY <3>1, SomeTensors
  <2>2. /\ o \in [1..(n + 1) -> Nat] /\ o[1] = 0 /\ \A t \in 1..(n + 1) : o[t] = Offset(Comp, t)
    <3>1. \A t \in 1..(n + 1) : Offset(Comp, t) \in Nat
      BY <2>1, OffsetTypes
    <3>2. Offset(Comp, 1) = 0 /\ 1 \in 1..(n + 1)
      BY <2>1, OffsetsLaid DEF Offset
    <3>. QED BY <3>1, <3>2
  <2>3. /\ z \in [1..n -> Nat] /\ \A t \in 1..n : z[t] = Sizes[Comp][t]
    BY <2>1, TensorSizes
  <2>4. \A t \in 1..n : o[t + 1] = o[t] + z[t]
    <3> TAKE t \in 1..n
    <3>1. t \in 1..(n + 1) /\ t + 1 \in 1..(n + 1) /\ t \in 1..NTensors
      BY <2>1
    <3>2. Offset(Comp, t + 1) = Offset(Comp, t) + Sizes[Comp][t]
      BY <2>1, <3>1, OffsetTypes
    <3>. QED BY <2>2, <2>3, <3>1, <3>2
  <2>5. /\ s \in [1..n -> Seq(Payloads)]
        /\ \A t \in 1..n : /\ Len(s[t]) = z[t]
                           /\ \A k \in 1..Len(s[t]) : s[t][k] = Shipped(Comp, t)
    <3>1. ASSUME NEW t \in 1..n
          PROVE  /\ s[t] \in Seq(Payloads) /\ Len(s[t]) = z[t]
                 /\ \A k \in 1..Len(s[t]) : s[t][k] = Shipped(Comp, t)
      <4>1. s[t] = [p \in 1..Sizes[Comp][t] |-> Shipped(Comp, t)]
        OBVIOUS
      <4>2. Sizes[Comp][t] \in Nat /\ Shipped(Comp, t) \in Payloads
        BY <2>1, TensorSizes, ShippedTypes, SomeTensors
      <4>3. \A S : \A m \in Nat : \A x \in S :
              [p \in 1..m |-> x] \in Seq(S) /\ Len([p \in 1..m |-> x]) = m
        OBVIOUS
      <4>4. s[t] \in Seq(Payloads) /\ Len(s[t]) = Sizes[Comp][t]
        BY Zenon, <4>1, <4>2, <4>3
      <4>5. \A k \in 1..Sizes[Comp][t] : s[t][k] = Shipped(Comp, t)
        BY <4>1
      <4>6. z[t] = Sizes[Comp][t]
        BY <2>3
      <4>. HIDE DEF s, z
      <4>. QED BY <4>4, <4>5, <4>6
    <3>2. s = [t \in 1..n |-> s[t]]
      OBVIOUS
    <3>. HIDE DEF s, z
    <3>. QED BY <3>1, <3>2
  <2>6. Laid(Payloads, n, s, o)
    <3>1. \A t \in 1..n : o[t + 1] = o[t] + Len(s[t])
      BY <2>4, <2>5
    <3>. HIDE DEF n, s, o, z
    <3>. QED BY <2>1, <2>2, <2>5, <3>1, FlattenLaid
  <2>7. laid \in Seq(Payloads) /\ Len(laid) = o[n + 1]
        /\ \A t \in 1..n : \A k \in 1..z[t] : laid[o[t] + k] = Shipped(Comp, t)
    <3>. HIDE DEF n, s, o, z
    <3>1. /\ FlattenSeq(s) \in Seq(Payloads) /\ Len(FlattenSeq(s)) = o[n + 1]
          /\ \A t \in 1..n : \A k \in 1..Len(s[t]) : FlattenSeq(s)[o[t] + k] = s[t][k]
      BY <2>6 DEF Laid
    <3>2. ASSUME NEW t \in 1..n, NEW k \in 1..z[t]
          PROVE  FlattenSeq(s)[o[t] + k] = Shipped(Comp, t)
      <4>1. k \in 1..Len(s[t])
        BY <2>5
      <4>. QED BY <2>5, <3>1, <4>1
    <3>. QED BY <3>1, <3>2
  <2> HIDE DEF s, z, laid
  <2>8. ASSUME NEW p \in 1..Len(laid) PROVE hostFlat[p] = laid[p]
    <3>1. PICK t \in 1..n : t < n + 1 /\ \E k \in 1..z[t] : p = o[t] + k
      <4>1. p \in 1..o[n + 1]
        BY <2>7
      <4>. HIDE DEF n, o
      <4>. QED BY <2>1, <2>2, <2>3, <2>4, <4>1, SumsCover
    <3>2. PICK k \in 1..z[t] : p = o[t] + k
      BY <3>1
    <3>3. laid[p] = Shipped(Comp, t)
      BY <2>7, <3>2
    <3>4. t \in Tensors /\ t < at /\ k \in 1..Sizes[Comp][t] /\ p = Offset(Comp, t) + k
      <4>1. t \in 1..(n + 1)
        BY <2>1
      <4>. QED BY <2>1, <2>2, <2>3, <3>2, <4>1, SomeTensors
    <3>5. hostFlat[Offset(Comp, t) + k] = Shipped(Comp, t)
      BY <3>4 DEF MainInv, StagedInv
    <3>. QED BY <3>3, <3>4, <3>5
  <2>9. /\ Len(laid) \in Nat
        /\ hostFlat \in Seq(Payloads \union {Nothing}) /\ Len(laid) <= Len(hostFlat)
    <3>1. hostFlat \in [1..Total(FALSE) -> Payloads \union {Nothing}]
      BY DEF MainInv, TypeInv
    <3>2. Total(FALSE) \in Nat /\ Total(Comp) \in Nat /\ Total(Comp) <= Total(FALSE)
      BY <2>1, OffsetTypes, StagingHasRoom
    <3>3. Len(laid) \in Nat /\ Len(laid) <= Total(Comp)
      <4>1. Len(laid) = Offset(Comp, at) /\ Len(laid) \in Nat
        BY <2>1, <2>2, <2>7
      <4>2. CASE at = NTensors + 1
        BY <3>2, <4>1, <4>2 DEF Total
      <4>3. CASE at # NTensors + 1
        <5>1. at \in 1..NTensors /\ at < NTensors + 1 /\ NTensors + 1 \in 1..(NTensors + 1)
          BY <2>1, <4>3
        <5>2. Offset(Comp, at) + Sizes[Comp][at] <= Total(Comp)
          BY <2>1, <5>1, RegionsApart DEF Total
        <5>3. Sizes[Comp][at] \in Nat
          BY <2>1, <5>1, TensorSizes
        <5>4. \A a, b, c \in Nat : a + b <= c => a <= c
          OBVIOUS
        <5>. QED BY Zenon, <3>2, <4>1, <5>2, <5>3, <5>4
      <4>. QED BY <4>2, <4>3
    <3>4. \A S : \A m \in Nat : \A f \in [1..m -> S] : f \in Seq(S) /\ Len(f) = m
      OBVIOUS
    <3>5. \A a, b, c \in Nat : a <= b /\ b <= c => a <= c
      OBVIOUS
    <3>6. hostFlat \in Seq(Payloads \union {Nothing}) /\ Len(hostFlat) = Total(FALSE)
      BY Zenon, <3>1, <3>2, <3>4
    <3>7. Len(laid) <= Total(FALSE)
      BY Zenon, <3>2, <3>3, <3>5
    <3>. QED BY <3>3, <3>6, <3>7
  <2>10. SubSeq(hostFlat, 1, Len(laid)) = [p \in 1..Len(laid) |-> hostFlat[p]]
    <3>1. \A S : \A q \in Seq(S) : \A m \in Nat :
            m <= Len(q) => SubSeq(q, 1, m) = [p \in 1..m |-> q[p]]
      OBVIOUS
    <3>. QED BY Zenon, <2>9, <3>1
  <2>11. laid = [p \in 1..Len(laid) |-> laid[p]]
    <3>1. \A S : \A q \in Seq(S) : q = [p \in 1..Len(q) |-> q[p]]
      OBVIOUS
    <3>. QED BY Zenon, <2>7, <3>1
  <2>. QED BY <2>8, <2>10, <2>11
<1>. QED BY <1>1, InitIInv, NextIInv, MainOf, PTL DEF Spec

\* Half of every block's pairs lead with either arm, to within the odd one, and none
\* is missing or recorded twice: however often the shuffle, whatever raises (main).
THEOREM OrdersAreBalanced == Spec => []OrdersBalanced
<1>1. MainInv => OrdersBalanced
  <2> SUFFICES ASSUME MainInv, ~verifyOnly, NEW b \in 1..(block - 1)
               PROVE  /\ Recorded(b, FALSE) - Recorded(b, TRUE) \in 0..1
                      /\ Recorded(b, FALSE) + Recorded(b, TRUE) = PerSegment
    BY DEF OrdersBalanced, Recorded, Count
  <2>1. b \in Nat \ {0} /\ b < block
    BY DEF MainInv, TypeInv
  <2>2. \A r \in BOOLEAN : Recorded(b, r) = Due(r)
    BY Zenon, <2>1 DEF MainInv, OrderInv
  <2>3. Recorded(b, FALSE) = PerSegment - PerSegment \div 2 /\ Recorded(b, TRUE) = PerSegment \div 2
    BY Zenon, <2>2 DEF Due
  <2>4. PerSegment \in Nat
    BY PairCount
  <2>5. \A n \in Nat : /\ (n - n \div 2) - n \div 2 \in 0..1
                       /\ (n - n \div 2) + n \div 2 = n
    OBVIOUS
  <2>. QED BY Zenon, <2>3, <2>4, <2>5
<1>. QED BY <1>1, InitIInv, NextIInv, MainOf, PTL DEF Spec
=============================================================================
