----------------------------- MODULE CodecProofs ------------------------------
(***************************************************************************)
(* What contract.py, allocation.py and the equivalence tests promise of    *)
(* the codec, for every set of inputs: every tensor, configuration, grid   *)
(* and scale resolution, either encoder, and any damage on the way.        *)
(*                                                                         *)
(* Two hypotheses, each a property of the inputs that the run checks of    *)
(* its own.  WholeBytes: a block's codes fill whole bytes, since _assemble *)
(* cuts by the byte.  NoOverflow: no reconstruction leaves the finite      *)
(* numbers, since an error that is not finite is read as none; only the    *)
(* bound and the statistics rest on it.                                    *)
(*                                                                         *)
(* The argument.  A buffer Carries a tensor when its widths, body and      *)
(* header are what its groups' codes make them; Starts then finds each     *)
(* group again and unpacking undoes packing (DecodeCarried).  It is Sent   *)
(* when every group is besides raw, or finite and within the bound.  Both  *)
(* encoders write such buffers (ReferenceSends, GpuSends), a changed byte  *)
(* does not pass the checksum (DamageShows), and so LinkInv, which says    *)
(* what each variable of the link stands for, is inductive.                *)
(***************************************************************************)
EXTENDS CodecLink, LayoutProofs

-----------------------------------------------------------------------------
(* Groups of elements: places in the stable sort.                           *)

GroupSet(G, g) == {i \in DOMAIN G : G[i] = g}

LEMMA GroupFinite ==
  ASSUME NEW n \in Nat, NEW G \in [1..n -> Nat], NEW g
  PROVE  IsFiniteSet(GroupSet(G, g)) /\ Size(G, g) = Cardinality(GroupSet(G, g))
         /\ Size(G, g) \in Nat
<1>1. IsFiniteSet(1..n)
  BY FS_Interval
<1>2. GroupSet(G, g) \in SUBSET (1..n)
  BY DEF GroupSet
<1>3. IsFiniteSet(GroupSet(G, g))
  BY <1>1, <1>2, FS_Subset
<1>. QED BY <1>3, FS_CardinalityType DEF Size, GroupSet

\* An element's place is one of its group's.
LEMMA PlaceType ==
  ASSUME NEW n \in Nat, NEW G \in [1..n -> Nat], NEW i \in 1..n
  PROVE  Place(G, i) \in 1..Size(G, G[i])
<1> DEFINE T == {j \in 1..i : G[j] = G[i]}
           S == GroupSet(G, G[i])
<1>1. IsFiniteSet(S) /\ Size(G, G[i]) = Cardinality(S)
  BY GroupFinite
<1>2. T \in SUBSET S
  BY DEF GroupSet
<1>3. i \in T
  OBVIOUS
<1>4. Place(G, i) = Cardinality(T)
  BY DEF Place
<1>. HIDE DEF T, S
<1>5. IsFiniteSet(T) /\ Cardinality(T) <= Cardinality(S)
  BY <1>1, <1>2, FS_Subset
<1>6. Cardinality(T) \in Nat /\ Cardinality(S) \in Nat
  BY <1>1, <1>5, FS_CardinalityType
<1>7. Cardinality(T) # 0
  BY <1>3, <1>5, FS_EmptySet
<1>. QED BY <1>1, <1>4, <1>5, <1>6, <1>7

\* Places follow the order of the elements.
LEMMA PlaceOrders ==
  ASSUME NEW n \in Nat, NEW G \in [1..n -> Nat], NEW i \in 1..n, NEW j \in 1..n,
         i < j, G[i] = G[j]
  PROVE  Place(G, i) < Place(G, j)
<1> DEFINE T == {h \in 1..i : G[h] = G[i]}
           S == {h \in 1..j : G[h] = G[j]}
<1>1. IsFiniteSet(S)
  <2>1. IsFiniteSet(1..j)
    BY FS_Interval
  <2>2. S \in SUBSET (1..j)
    OBVIOUS
  <2>. HIDE DEF S
  <2>. QED BY <2>1, <2>2, FS_Subset
<1>2. T \in SUBSET S /\ j \in S /\ j \notin T
  OBVIOUS
<1>3. Place(G, i) = Cardinality(T) /\ Place(G, j) = Cardinality(S)
  BY DEF Place
<1>. HIDE DEF T, S
<1>4. IsFiniteSet(T) /\ Cardinality(T) <= Cardinality(S) /\ Cardinality(S) # Cardinality(T)
  BY <1>1, <1>2, FS_Subset
<1>5. Cardinality(T) \in Nat /\ Cardinality(S) \in Nat
  BY <1>1, <1>4, FS_CardinalityType
<1>. QED BY <1>3, <1>4, <1>5

LEMMA PlaceTells ==
  ASSUME NEW n \in Nat, NEW G \in [1..n -> Nat], NEW i \in 1..n, NEW j \in 1..n,
         G[i] = G[j], Place(G, i) = Place(G, j)
  PROVE  i = j
<1>1. Place(G, i) \in Int /\ Place(G, j) \in Int
  BY PlaceType
<1>2. CASE i < j
  <2>1. Place(G, i) < Place(G, j)
    BY <1>2, PlaceOrders
  <2>. QED BY <1>1, <2>1
<1>3. CASE j < i
  <2>1. Place(G, j) < Place(G, i)
    BY <1>3, PlaceOrders
  <2>. QED BY <1>1, <2>1
<1>. QED BY <1>2, <1>3

\* The sort puts an element where the inverse permutation finds it.
LEMMA MemberAtPlace ==
  ASSUME NEW n \in Nat, NEW G \in [1..n -> Nat], NEW i \in 1..n
  PROVE  Member(G, G[i], Place(G, i)) = i
<1> DEFINE P(j) == j \in DOMAIN G /\ G[j] = G[i] /\ Place(G, j) = Place(G, i)
<1>1. P(i)
  OBVIOUS
<1>2. \A j : P(j) => j = i
  BY PlaceTells
<1>3. Member(G, G[i], Place(G, i)) = CHOOSE j : P(j)
  BY DEF Member
<1>. HIDE DEF P
<1>. QED BY <1>1, <1>2, <1>3

\* Every place of a group is some element's.
LEMMA PlaceFilled ==
  ASSUME NEW n \in Nat, NEW G \in [1..n -> Nat], NEW g, NEW p \in 1..Size(G, g)
  PROVE  \E i \in 1..n : G[i] = g /\ Place(G, i) = p
<1> DEFINE S == GroupSet(G, g)
           f == [i \in S |-> Place(G, i)]
           m == Size(G, g)
<1>1. IsFiniteSet(S) /\ m = Cardinality(S) /\ m \in Nat
  BY GroupFinite
<1>2. \A i \in S : i \in 1..n /\ G[i] = g
  BY DEF GroupSet
<1>3. f \in Injection(S, 1..m)
  <2>1. \A i \in S : Place(G, i) \in 1..m
    BY <1>2, PlaceType
  <2>2. \A i, j \in S : Place(G, i) = Place(G, j) => i = j
    BY <1>2, PlaceTells
  <2>. HIDE DEF S, m
  <2>3. f \in [S -> 1..m]
    BY <2>1
  <2>. QED BY <2>2, <2>3 DEF Injection, IsInjective
<1>4. IsFiniteSet(1..m) /\ Cardinality(1..m) = m
  BY <1>1, FS_Interval
<1>. HIDE DEF S, m
<1>5. f \in Surjection(S, 1..m)
  <2>. HIDE DEF f
  <2>. QED BY <1>1, <1>3, <1>4, FS_Injection
<1>6. \E i \in S : f[i] = p
  <2>1. p \in 1..m
    BY DEF m
  <2>. HIDE DEF f
  <2>. QED BY <1>5, <2>1 DEF Surjection
<1>. QED BY <1>2, <1>6

LEMMA MemberType ==
  ASSUME NEW n \in Nat, NEW G \in [1..n -> Nat], NEW g, NEW p \in 1..Size(G, g)
  PROVE  Member(G, g, p) \in 1..n /\ G[Member(G, g, p)] = g /\ Place(G, Member(G, g, p)) = p
<1>1. \E i \in DOMAIN G : G[i] = g /\ Place(G, i) = p
  BY PlaceFilled
<1>. QED BY <1>1 DEF Member

\* G says which group each element of x is in.
Grouped(x, G) == x.data \in Seq(Int) /\ G \in [1..Len(x.data) -> Nat]

\* A group's run of the sorted data.
LEMMA SegmentType ==
  ASSUME NEW x, NEW G, Grouped(x, G), NEW g
  PROVE  /\ Segment(x, G, g) \in Seq(Int) /\ Len(Segment(x, G, g)) = Size(G, g)
         /\ DOMAIN Segment(x, G, g) = 1..Size(G, g) /\ Size(G, g) \in Nat
         /\ \A p \in 1..Size(G, g) : \E i \in 1..Len(x.data) :
              G[i] = g /\ Place(G, i) = p /\ Segment(x, G, g)[p] = x.data[i]
<1> DEFINE n == Len(x.data)
<1>0. n \in Nat /\ G \in [1..n -> Nat] /\ x.data \in Seq(Int)
  BY DEF Grouped
<1>3. \A i \in 1..n : x.data[i] \in Int
  BY <1>0
<1>. HIDE DEF n
<1>1. Size(G, g) \in Nat
  BY <1>0, GroupFinite
<1>2. \A p \in 1..Size(G, g) :
        Segment(x, G, g)[p] = x.data[Member(G, g, p)] /\ Member(G, g, p) \in 1..n
        /\ G[Member(G, g, p)] = g /\ Place(G, Member(G, g, p)) = p
  BY <1>0, MemberType DEF Segment
<1>4. DOMAIN Segment(x, G, g) = 1..Size(G, g)
  BY DEF Segment
<1>5. Segment(x, G, g) = [p \in 1..Size(G, g) |-> x.data[Member(G, g, p)]]
  BY DEF Segment
<1>6. \A p \in 1..Size(G, g) : x.data[Member(G, g, p)] \in Int
  BY <1>2, <1>3
<1>7. Segment(x, G, g) \in [1..Size(G, g) -> Int]
  BY <1>5, <1>6
<1>8. \A m \in Nat : \A f \in [1..m -> Int] : f \in Seq(Int) /\ Len(f) = m
  OBVIOUS
<1>. QED BY <1>1, <1>2, <1>4, <1>7, <1>8 DEF n

\* The place q of a group's run is some element's.
Filled(x, G, g, q) ==
  \E j \in 1..Len(x.data) : G[j] = g /\ Place(G, j) = q /\ Segment(x, G, g)[q] = x.data[j]

LEMMA SegmentFilled ==
  ASSUME NEW x, NEW G, Grouped(x, G), NEW g, NEW q \in 1..Len(Segment(x, G, g))
  PROVE  Filled(x, G, g, q)
<1>1. /\ Len(Segment(x, G, g)) = Size(G, g)
      /\ \A p \in 1..Size(G, g) : \E i \in 1..Len(x.data) :
           G[i] = g /\ Place(G, i) = p /\ Segment(x, G, g)[p] = x.data[i]
  BY SegmentType
<1>. QED BY Zenon, <1>1 DEF Filled

LEMMA SegmentAt ==
  ASSUME NEW x, NEW G, Grouped(x, G), NEW i \in 1..Len(x.data)
  PROVE  Segment(x, G, G[i])[Place(G, i)] = x.data[i] /\ Place(G, i) \in 1..Size(G, G[i])
<1>1. Len(x.data) \in Nat /\ G \in [1..Len(x.data) -> Nat]
  BY DEF Grouped
<1>. QED BY <1>1, PlaceType, MemberAtPlace DEF Segment
-----------------------------------------------------------------------------
(* Numbers: every one the encoders form is an integer in its range.          *)

LEMMA PowerType ==
  ASSUME NEW e \in 0..8
  PROVE  Power(e) \in Nat /\ Power(e) >= 1
<1>1. e \in {0, 1, 2, 3, 4, 5, 6, 7, 8}
  OBVIOUS
<1>. QED BY <1>1, Powers

LEMMA AbsType ==
  ASSUME NEW v \in Int
  PROVE  Abs(v) \in Nat
BY DEF Abs

LEMMA Divides ==
  \A a \in Int : \A b \in Nat \ {0} : a \div b \in Int /\ a % b \in Int
OBVIOUS

LEMMA RoundDivType ==
  ASSUME NEW a \in Int, NEW b \in Nat \ {0}
  PROVE  RoundDiv(a, b) \in Int
<1> DEFINE q == a \div b
<1>1. q \in Int /\ q + 1 \in Int
  BY Divides
<1>2. RoundDiv(a, b) = q \/ RoundDiv(a, b) = q + 1
  BY DEF RoundDiv
<1>. HIDE DEF q
<1>. QED BY <1>1, <1>2

LEMMA SpacingType ==
  ASSUME NEW m \in Nat, NEW dtype
  PROVE  Spacing(m, dtype) \in Nat
<1> DEFINE S == {e \in 0..8 : Power(e) <= m}
<1> DEFINE k == Mantissa(dtype)
<1>1. k \in 0..8
  BY CodecAssumption DEF Mantissa
<1>4. Spacing(m, dtype) = IF dtype = "fp32" \/ m < Power(k) THEN 0 ELSE Power(Max(S) - k)
  BY DEF Spacing
<1>. HIDE DEF k
<1>2. CASE dtype = "fp32" \/ m < Power(k)
  BY <1>2, <1>4
<1>3. CASE ~(dtype = "fp32" \/ m < Power(k))
  <2>1. k \in S
    BY <1>1, <1>3, PowerType
  <2>2. IsFiniteSet(S)
    <3>1. IsFiniteSet(0..8)
      <4>1. 0 \in Int /\ 8 \in Int
        OBVIOUS
      <4>. QED BY ONLY <4>1, FS_Interval
    <3>2. S \in SUBSET (0..8)
      OBVIOUS
    <3>. HIDE DEF S
    <3>. QED BY <3>1, <3>2, FS_Subset
  <2>3. S \subseteq Int /\ S \subseteq 0..8
    OBVIOUS
  <2>4. Spacing(m, dtype) = Power(Max(S) - k)
    BY <1>3, <1>4
  <2>. HIDE DEF S
  <2>5. Max(S) \in S /\ k <= Max(S)
    BY <2>1, <2>2, <2>3, FiniteMax
  <2>6. Max(S) - k \in 0..8
    <3>1. Max(S) \in 0..8
      BY <2>3, <2>5
    <3>2. \A a, b \in 0..8 : b <= a => a - b \in 0..8
      OBVIOUS
    <3>. QED BY Zenon, <1>1, <2>5, <3>1, <3>2
  <2>. QED BY <2>4, <2>6, PowerType
<1>. QED BY <1>2, <1>3

LEMMA CastType ==
  ASSUME NEW v \in Int, NEW dtype
  PROVE  Cast(v, dtype) \in Int
<1> DEFINE s == Spacing(Abs(v), dtype)
<1>1. s \in Nat
  BY AbsType, SpacingType
<1>2. CASE s <= 1
  BY <1>2 DEF Cast
<1>3. CASE ~(s <= 1)
  <2>1. Cast(v, dtype) = s * RoundDiv(v, s)
    BY <1>3 DEF Cast
  <2>. HIDE DEF s
  <2>2. s \in Nat \ {0}
    BY <1>1, <1>3
  <2>3. RoundDiv(v, s) \in Int
    BY <2>2, RoundDivType
  <2>4. \A a, b \in Int : a * b \in Int
    OBVIOUS
  <2>. QED BY <1>1, <2>1, <2>3, <2>4
<1>. QED BY <1>2, <1>3

\* A group's minimum and maximum, where it has a value at all.
LEMMA GroupBoundsType ==
  ASSUME NEW seg \in Seq(Int), Len(seg) > 0
  PROVE  LET b == GroupBounds(seg)
         IN  b.min \in Int /\ b.max \in Int /\ b.min <= b.max
             /\ \A p \in DOMAIN seg : Finite(seg[p]) => b.min <= seg[p] /\ seg[p] <= b.max
<1> DEFINE f == [p \in DOMAIN seg |-> IF Finite(seg[p]) THEN seg[p] ELSE 0]
           S == {f[p] : p \in 1..Len(seg)}
<1>1. Len(seg) \in Nat /\ DOMAIN seg = 1..Len(seg) /\ 1 \in 1..Len(seg)
  OBVIOUS
<1>2. \A p \in 1..Len(seg) : f[p] = (IF Finite(seg[p]) THEN seg[p] ELSE 0) /\ f[p] \in Int
  BY <1>1
<1>3. DOMAIN f = 1..Len(seg)
  BY <1>1
<1>4. GroupBounds(seg) = [min |-> Min(S), max |-> Max(S)]
  BY <1>1, <1>2 DEF GroupBounds
<1>. HIDE DEF f
<1>5. IsFiniteSet(S)
  BY <1>1, <1>3, ValuesFinite
<1>6. S \subseteq Int /\ f[1] \in S
  BY <1>1, <1>2
<1>7. \A p \in 1..Len(seg) : f[p] \in S
  OBVIOUS
<1>. HIDE DEF S
<1>8. /\ Max(S) \in S /\ \A y \in S : y <= Max(S)
  BY <1>5, <1>6, FiniteMax
<1>9. /\ Min(S) \in S /\ \A y \in S : Min(S) <= y
  BY <1>5, <1>6, FiniteMin
<1>10. Min(S) \in Int /\ Max(S) \in Int /\ Min(S) <= Max(S)
  BY <1>6, <1>8, <1>9
<1>11. \A p \in 1..Len(seg) : Finite(seg[p]) => Min(S) <= seg[p] /\ seg[p] <= Max(S)
  BY <1>2, <1>7, <1>8, <1>9
<1>. QED BY <1>1, <1>4, <1>10, <1>11

LEMMA ScaleType ==
  ASSUME NEW range \in Nat, NEW w \in Widths, NEW d \in Int
  PROVE  Scale(range, w, d) \in Nat
<1>1. w # Raw /\ w \in 0..8 /\ Power(w) \in Nat /\ Power(w) - 1 \in Nat \ {0} /\ Res \in Nat
  BY Powers, CodecAssumption DEF Widths, Raw
<1>2. CASE range = 0
  BY <1>2 DEF Scale
<1>3. CASE range # 0
  <2> DEFINE r == RoundDiv(range * Res, Power(w) - 1) + d
  <2>1. range * Res \in Int
    BY <1>1
  <2>2. r \in Int
    <3>1. RoundDiv(range * Res, Power(w) - 1) \in Int
      BY <1>1, <2>1, RoundDivType
    <3>. QED BY <3>1
  <2>3. Scale(range, w, d) = Max({0, r})
    BY <1>1, <1>3 DEF Scale
  <2>. HIDE DEF r
  <2>4. Max({0, r}) \in {0, r} /\ 0 <= Max({0, r})
    <3>1. 0 \in Int
      OBVIOUS
    <3>. QED BY ONLY <2>2, <3>1, PairExtremes
  <2>. QED BY <2>2, <2>3, <2>4
<1>. QED BY <1>2, <1>3

LEMMA QuantiseType ==
  ASSUME NEW v \in Int, NEW lo \in Int, NEW scale \in Nat, NEW w \in Widths
  PROVE  Quantise(v, lo, scale, w) \in Codes(w)
<1>1. Power(w) - 1 \in Nat /\ Res \in Nat
  BY Powers, CodecAssumption DEF Widths
<1>2. CASE scale = 0
  BY <1>1, <1>2 DEF Quantise, Codes
<1>3. CASE scale # 0
  <2> DEFINE r == RoundDiv((v - lo) * Res, scale)
             m == Max({0, r})
             q == Min({Power(w) - 1, m})
  <2>1. (v - lo) * Res \in Int
    BY <1>1
  <2>2. r \in Int
    BY <1>3, <2>1, RoundDivType
  <2>3. Quantise(v, lo, scale, w) = q
    BY <1>3 DEF Quantise
  <2>. HIDE DEF r
  <2>4. m \in {0, r} /\ 0 <= m
    <3>1. 0 \in Int
      OBVIOUS
    <3>. QED BY ONLY <2>2, <3>1, PairExtremes DEF m
  <2>. HIDE DEF m
  <2>5. m \in Nat
    BY <2>2, <2>4
  <2>6. q \in {Power(w) - 1, m} /\ q <= Power(w) - 1
    BY <1>1, <2>5, PairExtremes
  <2>. HIDE DEF q
  <2>7. q \in 0..(Power(w) - 1)
    BY <1>1, <2>5, <2>6
  <2>. QED BY <2>3, <2>7 DEF Codes
<1>. QED BY <1>2, <1>3

LEMMA DequantiseType ==
  ASSUME NEW lo \in Int, NEW code \in Nat, NEW scale \in Nat, NEW dtype
  PROVE  Dequantise(lo, code, scale, dtype) \in Int
<1>1. Res \in Nat \ {0}
  BY CodecAssumption
<1>2. code * scale \in Int
  OBVIOUS
<1>3. RoundDiv(code * scale, Res) \in Int
  BY <1>1, <1>2, RoundDivType
<1>4. lo + RoundDiv(code * scale, Res) \in Int
  BY <1>3
<1>5. Cast(lo + RoundDiv(code * scale, Res), dtype) \in Int
  BY <1>4, CastType
<1>6. Truncated(lo * Res + code * scale, Res) \in Int
  <2>1. lo * Res \in Int
    <3>1. \A a, b \in Int : a * b \in Int
      OBVIOUS
    <3>. QED BY <1>1, <3>1
  <2>2. PICK a \in Int : a = lo * Res + code * scale
    BY <1>2, <2>1
  <2>3. Truncated(a, Res) \in Int
    <3>1. a \div Res \in Int /\ (-a) \div Res \in Int /\ -((-a) \div Res) \in Int
      BY <1>1, Divides
    <3>. QED BY <3>1 DEF Truncated
  <2>. QED BY Zenon, <2>2, <2>3
<1>. QED BY Zenon, <1>5, <1>6 DEF Dequantise

\* The error of a group bounds the error of each of its values.
LEMMA WorstErrorBounds ==
  ASSUME NEW seg \in Seq(Int), NEW r \in Seq(Int), Len(r) = Len(seg), NEW p \in 1..Len(seg)
  PROVE  /\ WorstError(seg, r) \in Nat
         /\ Finite(seg[p]) /\ Finite(r[p]) => Abs(seg[p] - r[p]) <= WorstError(seg, r)
         /\ \E q \in 1..Len(seg) : WorstError(seg, r) =
              IF Finite(seg[q]) /\ Finite(r[q]) THEN Abs(seg[q] - r[q]) ELSE 0
<1> DEFINE f == [q \in DOMAIN seg |->
                   IF Finite(seg[q]) /\ Finite(r[q]) THEN Abs(seg[q] - r[q]) ELSE 0]
           S == {f[q] : q \in 1..Len(seg)}
<1>1. Len(seg) \in Nat /\ DOMAIN seg = 1..Len(seg)
  OBVIOUS
<1>2. \A q \in 1..Len(seg) : seg[q] \in Int /\ r[q] \in Int
  OBVIOUS
<1>3. \A q \in 1..Len(seg) :
        f[q] = (IF Finite(seg[q]) /\ Finite(r[q]) THEN Abs(seg[q] - r[q]) ELSE 0)
  BY <1>1
<1>4. \A q \in 1..Len(seg) : f[q] \in Nat
  <2> TAKE q \in 1..Len(seg)
  <2>1. seg[q] - r[q] \in Int
    BY <1>2
  <2>2. Abs(seg[q] - r[q]) \in Nat
    BY <2>1, AbsType
  <2>3. f[q] = IF Finite(seg[q]) /\ Finite(r[q]) THEN Abs(seg[q] - r[q]) ELSE 0
    BY <1>3
  <2>. HIDE DEF f
  <2>. QED BY <2>2, <2>3
<1>5. WorstError(seg, r) = Max(S)
  BY <1>1, <1>3 DEF WorstError
<1>6. DOMAIN f = 1..Len(seg)
  BY <1>1
<1>. HIDE DEF f
<1>7. IsFiniteSet(S)
  BY <1>1, <1>6, ValuesFinite
<1>8. S \subseteq Int /\ f[p] \in S /\ S \subseteq Nat
  BY <1>4
<1>9. \A y \in S : \E q \in 1..Len(seg) : y = f[q]
  OBVIOUS
<1>. HIDE DEF S
<1>10. Max(S) \in S /\ f[p] <= Max(S)
  BY <1>7, <1>8, FiniteMax
<1>11. WorstError(seg, r) \in Nat
  BY <1>5, <1>8, <1>10
<1>12. Finite(seg[p]) /\ Finite(r[p]) => Abs(seg[p] - r[p]) <= WorstError(seg, r)
  BY <1>3, <1>5, <1>10
<1>13. PICK q \in 1..Len(seg) : Max(S) = f[q]
  BY <1>9, <1>10
<1>14. WorstError(seg, r) = IF Finite(seg[q]) /\ Finite(r[q]) THEN Abs(seg[q] - r[q]) ELSE 0
  BY <1>3, <1>5, <1>13
<1>. QED BY Zenon, <1>11, <1>12, <1>14
-----------------------------------------------------------------------------
(* The payload: what is written for a group is what is read back.            *)

LEMMA PartitionType ==
  ASSUME NEW shape \in Seq(Nat \ {0}), Len(shape) \in {1, 2}, NEW block \in Nat \ {0},
         NEW a \in {"blockwise", "per_channel", "per_token"}
  PROVE  Numel(shape) \in Nat /\ Partition(shape, a, block) \in [1..Numel(shape) -> Nat]
<1>1. /\ shape[1] \in Nat /\ Len(shape) = 2 => shape[2] \in Nat \ {0}
  OBVIOUS
<1>2. \A p, q \in Nat : p * q \in Nat
  OBVIOUS
<1>3. Numel(shape) \in Nat
  BY <1>1, <1>2 DEF Numel
<1>4. \A p \in Nat : \A q \in Nat \ {0} : p \div q \in Nat /\ p % q \in Nat
  OBVIOUS
<1>5. \A i \in 1..Numel(shape) : i - 1 \in Nat
  BY <1>3
<1> DEFINE val(i) ==
             CASE a = "blockwise" \/ Len(shape) < 2 -> (i - 1) \div block
               [] a = "per_channel" /\ Len(shape) = 2 -> (i - 1) % shape[2]
               [] a = "per_token" /\ Len(shape) = 2 -> (i - 1) \div shape[2]
<1>6. \A i \in 1..Numel(shape) : val(i) \in Nat
  <2> TAKE i \in 1..Numel(shape)
  <2>1. (i - 1) \div block \in Nat
    BY <1>4, <1>5
  <2>2. CASE a = "blockwise" \/ Len(shape) < 2
    BY <2>1, <2>2
  <2>3. CASE a # "blockwise" /\ Len(shape) = 2
    <3>1. shape[2] \in Nat \ {0}
      BY <1>1, <2>3
    <3>2. (i - 1) \div shape[2] \in Nat /\ (i - 1) % shape[2] \in Nat
      BY Zenon, <1>4, <1>5, <3>1
    <3>3. CASE a = "per_channel"
      <4>1. val(i) = (i - 1) % shape[2]
        BY <2>3, <3>3
      <4>. QED BY <3>2, <4>1
    <3>4. CASE a = "per_token"
      <4>1. val(i) = (i - 1) \div shape[2]
        BY <2>3, <3>4
      <4>. QED BY <3>2, <4>1
    <3>. QED BY <2>3, <3>3, <3>4
  <2>4. (a = "blockwise" \/ Len(shape) < 2) \/ (a # "blockwise" /\ Len(shape) = 2)
    <3>. HIDE DEF val
    <3>1. CASE Len(shape) = 1
      BY <3>1
    <3>2. CASE Len(shape) = 2
      BY <3>2
    <3>. QED BY <3>1, <3>2
  <2>. HIDE DEF val
  <2>. QED BY <2>2, <2>3, <2>4
<1>7. Partition(shape, a, block) = [i \in 1..Numel(shape) |-> val(i)]
  BY DEF Partition
<1>. HIDE DEF val
<1>. QED BY <1>3, <1>6, <1>7

LEMMA NGroupsType ==
  ASSUME NEW n \in Nat \ {0}, NEW G \in [1..n -> Nat]
  PROVE  NGroups(G) \in Nat \ {0} /\ \A i \in 1..n : G[i] + 1 \in 1..NGroups(G)
<1> DEFINE S == {G[i] : i \in 1..n}
<1>1. DOMAIN G = 1..n /\ 1 \in 1..n
  OBVIOUS
<1>2. Range(G) = S
  BY <1>1 DEF Range
<1>3. IsFiniteSet(S)
  BY <1>1, ValuesFinite
<1>4. S \subseteq Int /\ S \subseteq Nat /\ S # {} /\ \A i \in 1..n : G[i] \in S
  BY <1>1
<1>5. NGroups(G) = Max(S) + 1
  BY <1>2 DEF NGroups
<1>. HIDE DEF S
<1>6. Max(S) \in S /\ \A y \in S : y <= Max(S)
  BY <1>3, <1>4, FiniteMax
<1>7. Max(S) \in Nat
  BY <1>4, <1>6
<1>8. \A i \in 1..n : G[i] \in Nat /\ G[i] <= Max(S)
  BY <1>4, <1>6
<1>. QED BY <1>5, <1>7, <1>8

LEMMA ElemBytesType == \A dtype : ElemBytes(dtype) \in {2, 4}
BY DEF ElemBytes

\* A raw group's bytes, element after element.
LEMMA ElementBytesLaid ==
  ASSUME NEW seg \in Seq(Int), NEW dtype
  PROVE  /\ ElementBytes(seg, dtype) \in Seq(Int)
         /\ Len(ElementBytes(seg, dtype)) = Len(seg) * ElemBytes(dtype)
         /\ \A p \in 1..Len(seg) : \A h \in 1..ElemBytes(dtype) :
              ElementBytes(seg, dtype)[(p - 1) * ElemBytes(dtype) + h]
                = ByteOf(seg[p], h)
<1> DEFINE e == ElemBytes(dtype)
           m == Len(seg)
           val(p, h) == ByteOf(seg[p], h)
           s == [p \in DOMAIN seg |-> [h \in 1..e |-> val(p, h)]]
           o == [t \in 1..(m + 1) |-> (t - 1) * e]
<1>1. e \in {2, 4} /\ m \in Nat /\ DOMAIN seg = 1..m
  BY ElemBytesType
<1>2. \A p \in 1..m : \A h \in 1..e : val(p, h) \in Int
  <2>1. \A p \in 1..m : seg[p] \in Int
    OBVIOUS
  <2>. HIDE DEF m, e
  <2>. QED BY <2>1, <1>1 DEF ByteOf
<1>7. ElementBytes(seg, dtype) = FlattenSeq(s)
  BY DEF ElementBytes
<1>. HIDE DEF e, m, val
<1>3. \A p \in 1..m : s[p] = [h \in 1..e |-> val(p, h)]
                      /\ s[p] \in Seq(Int) /\ Len(s[p]) = e
  <2> TAKE p \in 1..m
  <2>1. s[p] = [h \in 1..e |-> val(p, h)]
    BY <1>1
  <2>2. \A h \in 1..e : val(p, h) \in Int
    BY <1>2
  <2>. HIDE DEF s
  <2>3. s[p] \in [1..e -> Int]
    BY Zenon, <2>1, <2>2
  <2>4. e \in Nat
    BY <1>1
  <2>5. \A j \in Nat : \A f \in [1..j -> Int] : f \in Seq(Int) /\ Len(f) = j
    OBVIOUS
  <2>. QED BY <2>1, <2>3, <2>4, <2>5
<1>4. s \in [1..m -> Seq(Int)]
  <2>1. s = [p \in 1..m |-> s[p]]
    BY <1>1
  <2>. HIDE DEF s
  <2>. QED BY <1>3, <2>1
<1>5. o \in [1..(m + 1) -> Nat] /\ o[1] = 0 /\ o[m + 1] = m * e
      /\ \A p \in 1..m : o[p] = (p - 1) * e /\ o[p + 1] = o[p] + e
  <2>1. CASE e = 2
    BY <1>1, <2>1
  <2>2. CASE e = 4
    BY <1>1, <2>2
  <2>. QED BY <1>1, <2>1, <2>2
<1>. HIDE DEF s, o
<1>6. Laid(Int, m, s, o)
  BY <1>1, <1>3, <1>4, <1>5, FlattenLaid
<1>8. \A p \in 1..m : \A h \in 1..e : FlattenSeq(s)[(p - 1) * e + h] = val(p, h)
  <2> TAKE p \in 1..m
  <2> TAKE h \in 1..e
  <2>1. FlattenSeq(s)[o[p] + h] = s[p][h]
    <3>1. h \in 1..Len(s[p])
      BY Zenon, <1>3
    <3>. QED BY Zenon, <1>6, <3>1 DEF Laid
  <2>2. s[p][h] = val(p, h)
    <3>1. s[p] = [c \in 1..e |-> val(p, c)]
      BY Zenon, <1>3
    <3>. QED BY Zenon, <3>1
  <2>3. o[p] = (p - 1) * e
    BY <1>5
  <2>. QED BY <2>1, <2>2, <2>3
<1>. QED BY <1>5, <1>6, <1>7, <1>8 DEF Laid, m, e, val

\* The bytes behind o are those of the element v.
Spells(body, o, dtype, v) == \A h \in 1..ElemBytes(dtype) : body[o + h] = ByteOf(v, h)

\* An element put together from its own bytes.
LEMMA ElementAtIs ==
  ASSUME NEW body, NEW o \in Nat, NEW dtype, NEW v \in Int, Spells(body, o, dtype, v)
  PROVE  ElementAt(body, o, dtype) = v
<1>1. 1 \in 1..ElemBytes(dtype)
  BY ElemBytesType
<1>2. body[o + 1] = 1000 + 8 * (v + 128) + 1
  BY <1>1 DEF ByteOf, Spells
<1>3. ((1000 + 8 * (v + 128) + 1) - 1001) \div 8 - 128 = v
  OBVIOUS
<1>4. (body[o + 1] - 1001) \div 8 - 128 = v
  BY <1>2, <1>3
<1>. QED BY <1>4 DEF ElementAt, Spells

LEMMA PackType ==
  ASSUME NEW w \in Widths, NEW codes \in Seq(Codes(w))
  PROVE  /\ Pack(codes, w) \in Seq(Int) /\ Len(Pack(codes, w)) = PackedBytes(Len(codes), w)
         /\ PackedBytes(Len(codes), w) \in Nat
<1> DEFINE m == PackedBytes(Len(codes), w)
           f == [j \in 1..m |-> FromBits([b \in 0..7 |-> StreamBit(codes, w, 8 * (j - 1) + b)], 8)]
<1>1. w \in {4, 6, 8}
  BY DEF Widths
<1>2. m \in Nat
  BY <1>1, PackedLength
<1>3. Pack(codes, w) = f
  BY <1>1, PackByBits
<1>4. \A j \in 1..m : Pack(codes, w)[j] \in Bytes8
  <2> TAKE j \in 1..m
  <2>1. 0 \in 0..7
    OBVIOUS
  <2>. QED BY <1>1, <2>1, PackedBits
<1>5. DOMAIN Pack(codes, w) = 1..m
  BY <1>3
<1>6. Pack(codes, w) = [j \in 1..m |-> Pack(codes, w)[j]]
  BY <1>3
<1>. HIDE DEF f, m
<1>7. Bytes8 \subseteq Int
  BY DEF Bytes8
<1>8. Pack(codes, w) \in [1..m -> Int]
  BY <1>4, <1>6, <1>7
<1>9. \A j \in Nat : \A g \in [1..j -> Int] : g \in Seq(Int) /\ Len(g) = j
  OBVIOUS
<1>. QED BY <1>2, <1>8, <1>9 DEF m

\* The running offsets of _group_offsets.
LEMMA StartsAre ==
  ASSUME NEW n \in Nat, NEW z \in [1..n -> Nat]
  PROVE  /\ Starts(z) \in [1..(n + 1) -> Nat] /\ Starts(z)[1] = 0
         /\ \A i \in 1..n : Starts(z)[i + 1] = Starts(z)[i] + z[i]
<1> DEFINE P(o) == o = [g \in 1..(n + 1) |-> IF g = 1 THEN 0 ELSE o[g - 1] + z[g - 1]]
<1>1. Len(z) = n
  OBVIOUS
<1>2. n + 1 \in 1..(n + 1)
  OBVIOUS
<1>3. PICK o \in [1..(n + 1) -> Nat] : P(o)
  BY <1>2, SumsExist
<1>4. Starts(z) = CHOOSE f : P(f)
  BY <1>1 DEF Starts
<1>5. \A f : P(f) => f = o
  <2> SUFFICES ASSUME NEW f, P(f) PROVE f = o
    OBVIOUS
  <2> DEFINE Good == {t \in 1..(n + 1) : f[t] = o[t]}
  <2>1. 1 \in 1..(n + 1) /\ n + 1 \in Nat
    OBVIOUS
  <2>2. f[1] = 0 /\ o[1] = 0
    BY <1>3, <2>1
  <2>3. 1 \in Good
    BY <2>1, <2>2
  <2>4. \A t \in 2..(n + 1) : f[t] = f[t - 1] + z[t - 1] /\ o[t] = o[t - 1] + z[t - 1]
    <3> TAKE t \in 2..(n + 1)
    <3>1. t \in 1..(n + 1) /\ t # 1
      OBVIOUS
    <3>. QED BY <1>3, <3>1
  <2>5. \A t \in 2..(n + 1) : t - 1 \in Good => t \in Good
    <3> TAKE t \in 2..(n + 1)
    <3> HAVE t - 1 \in Good
    <3>1. f[t - 1] = o[t - 1]
      OBVIOUS
    <3>2. f[t] = o[t]
      BY Zenon, <2>4, <3>1
    <3>3. t \in 1..(n + 1)
      OBVIOUS
    <3>. QED BY <3>2, <3>3
  <2>. HIDE DEF Good
  <2>6. \A t \in 1..(n + 1) : t \in Good
    BY <2>1, <2>3, <2>5, UpTo
  <2>7. \A t \in 1..(n + 1) : f[t] = o[t]
    BY <2>6 DEF Good
  <2>8. DOMAIN f = 1..(n + 1) /\ f = [t \in 1..(n + 1) |-> f[t]] /\ o = [t \in 1..(n + 1) |-> o[t]]
    OBVIOUS
  <2>. QED BY <2>7, <2>8
<1>6. Starts(z) = o
  <2>. HIDE DEF P
  <2>. QED BY <1>3, <1>4, <1>5
<1>7. \A i \in 1..n : i + 1 \in 1..(n + 1) /\ i + 1 # 1 /\ (i + 1) - 1 = i
  OBVIOUS
<1>8. o[1] = 0
  BY <1>3
<1>9. \A i \in 1..n : o[i + 1] = o[i] + z[i]
  <2> TAKE i \in 1..n
  <2>1. o[i + 1] = o[(i + 1) - 1] + z[(i + 1) - 1]
    BY <1>3, <1>7
  <2>. QED BY <1>7, <2>1
<1>. QED BY <1>6, <1>8, <1>9
\* The sequence c is in the body, behind o.
Holds(body, o, c) ==
  o + Len(c) <= Len(body) /\ \A p \in 1..Len(c) : body[o + p] = c[p]

\* What a group's chunk holds: its elements as they are, or its codes.
Chunk(seg, codes, w, dtype) == IF w = Raw THEN ElementBytes(seg, dtype) ELSE Pack(codes, w)

\* Codes for a group's elements, if it has any.
CodesFor(codes, w, seg) ==
  w # Raw => codes \in Seq(Codes(w)) /\ Len(codes) = Len(seg)

\* What is read from it.
ReadBack(seg, codes, w, lo, scale, dtype) ==
  IF w = Raw THEN seg
  ELSE [p \in 1..Len(seg) |-> Dequantise(lo, codes[p], scale, dtype)]

LEMMA ChunkType ==
  ASSUME NEW seg \in Seq(Int), NEW dtype, NEW w \in Widths \union {Raw}, NEW codes,
         CodesFor(codes, w, seg)
  PROVE  /\ Chunk(seg, codes, w, dtype) \in Seq(Int)
         /\ Len(Chunk(seg, codes, w, dtype)) = GroupBytes(dtype, Len(seg), w)
         /\ GroupBytes(dtype, Len(seg), w) \in Nat
<1>1. CASE w = Raw
  <2>1. \A p, q \in Nat : p * q \in Nat
    OBVIOUS
  <2>2. Len(seg) * ElemBytes(dtype) \in Nat
    <3>1. Len(seg) \in Nat /\ ElemBytes(dtype) \in Nat
      BY ElemBytesType
    <3>. QED BY <2>1, <3>1
  <2>. QED BY <1>1, <2>2, ElementBytesLaid DEF Chunk, GroupBytes
<1>2. CASE w # Raw
  <2>1. w \in Widths /\ codes \in Seq(Codes(w)) /\ Len(codes) = Len(seg)
    BY <1>2 DEF CodesFor
  <2>. QED BY <1>2, <2>1, PackType DEF Chunk, GroupBytes
<1>. QED BY <1>1, <1>2

\* Elements are read back from their bytes, wherever those begin.
LEMMA ElementsRead ==
  ASSUME NEW seg \in Seq(Int), NEW d, NEW body, NEW o \in Nat,
         \A p \in 1..Len(ElementBytes(seg, d)) : body[o + p] = ElementBytes(seg, d)[p]
  PROVE  \A p \in 1..Len(seg) : ElementAt(body, o + (p - 1) * ElemBytes(d), d) = seg[p]
<1> TAKE p \in 1..Len(seg)
<1> DEFINE e == ElemBytes(d)
<1>1. e \in {2, 4} /\ seg[p] \in Int /\ Len(seg) \in Nat
  BY ElemBytesType
<1>2. Len(ElementBytes(seg, d)) = Len(seg) * e
      /\ \A h \in 1..e : ElementBytes(seg, d)[(p - 1) * e + h] = ByteOf(seg[p], h)
  BY ElementBytesLaid
<1>3. (p - 1) * e \in Nat /\ \A h \in 1..e : (p - 1) * e + h \in 1..(Len(seg) * e)
  <2>. HIDE DEF e
  <2>1. CASE e = 2
    BY <1>1, <2>1
  <2>2. CASE e = 4
    BY <1>1, <2>2
  <2>. QED BY <1>1, <2>1, <2>2
<1>4. /\ o + (p - 1) * e \in Nat
      /\ \A h \in 1..e : (o + (p - 1) * e) + h = o + ((p - 1) * e + h)
  <2>. HIDE DEF e
  <2>1. \A a, b \in Nat : a + b \in Nat /\ \A h \in Int : (a + b) + h = a + (b + h)
    OBVIOUS
  <2>2. \A h \in 1..e : h \in Int
    BY <1>1
  <2>. QED BY Zenon, <1>3, <2>1, <2>2
<1>8. PICK q \in Nat : q = o + (p - 1) * e
  BY <1>4
<1>5. \A h \in 1..e : body[q + h] = ByteOf(seg[p], h)
  <2> TAKE h \in 1..e
  <2>1. (p - 1) * e + h \in 1..Len(ElementBytes(seg, d))
    BY <1>2, <1>3
  <2>2. body[o + ((p - 1) * e + h)] = ElementBytes(seg, d)[(p - 1) * e + h]
    BY Zenon, <2>1
  <2>3. q + h = o + ((p - 1) * e + h)
    BY <1>4, <1>8
  <2>. QED BY Zenon, <1>2, <2>2, <2>3
<1>6. Spells(body, q, d, seg[p])
  BY <1>5 DEF Spells
<1>7. ElementAt(body, q, d) = seg[p]
  BY <1>1, <1>6, ElementAtIs
<1>. QED BY <1>7, <1>8

\* A group is decoded from its chunk, wherever the chunk begins.
LEMMA GroupDecodes ==
  ASSUME NEW buf, NEW g, buf.widths[g] \in Widths \union {Raw}, buf.body \in Seq(Int),
         NEW seg \in Seq(Int), NEW codes, CodesFor(codes, buf.widths[g], seg), NEW o \in Nat,
         Holds(buf.body, o, Chunk(seg, codes, buf.widths[g], buf.header.dtype))
  PROVE  DecodedGroup(buf, o, Len(seg), g)
           = ReadBack(seg, codes, buf.widths[g], buf.mins[g], buf.scales[g], buf.header.dtype)
<1> DEFINE m == Len(seg)
           w == buf.widths[g]
           body == buf.body
           d == buf.header.dtype
           e == ElemBytes(d)
           c == Chunk(seg, codes, w, d)
<1>1. m \in Nat /\ e \in {2, 4} /\ Len(body) \in Nat
  BY ElemBytesType
<1>2. c \in Seq(Int) /\ Len(c) = GroupBytes(d, m, w) /\ GroupBytes(d, m, w) \in Nat
  BY ChunkType
<1>3. o + Len(c) <= Len(body) /\ \A p \in 1..Len(c) : body[o + p] = c[p]
  BY DEF Holds
<1>4. CASE w = Raw
  <2>1. c = ElementBytes(seg, d) /\ Len(c) = m * e
    BY <1>2, <1>4 DEF Chunk, GroupBytes
  <2>2. \A p \in 1..m : ElementAt(body, o + (p - 1) * e, d) = seg[p]
    <3>1. \A p \in 1..Len(ElementBytes(seg, d)) : body[o + p] = ElementBytes(seg, d)[p]
      BY <1>3, <2>1
    <3>2. \A p \in 1..Len(seg) : ElementAt(body, o + (p - 1) * ElemBytes(d), d) = seg[p]
      <4>. HIDE DEF body, d, e, m
      <4>. QED BY ONLY <3>1, o \in Nat, seg \in Seq(Int), ElementsRead
    <3>. QED BY <3>2
  <2>3. DecodedGroup(buf, o, m, g) = [p \in 1..m |-> ElementAt(body, o + (p - 1) * e, d)]
    BY <1>4 DEF DecodedGroup
  <2>4. seg = [p \in 1..m |-> seg[p]]
    OBVIOUS
  <2>5. DecodedGroup(buf, o, m, g) = seg
    <3>. HIDE DEF m, body, e, d
    <3>. QED BY Zenon, <2>2, <2>3, <2>4
  <2>. QED BY <1>4, <2>5 DEF ReadBack
<1>5. CASE w # Raw
  <2>1. w \in Widths /\ codes \in Seq(Codes(w)) /\ Len(codes) = m /\ c = Pack(codes, w)
    BY <1>5 DEF Chunk, CodesFor
  <2>2. Len(c) = PackedBytes(m, w) /\ GroupBytes(d, m, w) = PackedBytes(m, w)
        /\ PackedBytes(m, w) \in Nat
    BY <1>2, <1>5 DEF GroupBytes
  <2> DEFINE z == PackedBytes(m, w)
             cut == SubSeq(body, o + 1, o + z)
  <2>3. cut = c
    <3>1. cut = [p \in 1..((o + z) - (o + 1) + 1) |-> body[p + (o + 1) - 1]]
      BY <2>2
    <3>. HIDE DEF z
    <3>2. z \in Nat /\ (o + z) - (o + 1) + 1 = z
      BY <2>2 DEF z
    <3>3. \A p \in 1..z : p + (o + 1) - 1 = o + p
      BY <3>2
    <3>4. \A p \in 1..z : body[o + p] = c[p]
      BY <1>3, <2>2 DEF z
    <3>5. c = [p \in 1..z |-> c[p]]
      <4>1. Len(c) = z
        BY <2>2 DEF z
      <4>. HIDE DEF c
      <4>. QED BY <1>2, <4>1
    <3>. HIDE DEF c, cut, body
    <3>6. \A p \in 1..z : body[p + (o + 1) - 1] = c[p]
      BY Zenon, <3>3, <3>4
    <3>7. cut = [p \in 1..z |-> body[p + (o + 1) - 1]]
      BY Zenon, <3>1, <3>2
    <3>. QED BY Zenon, <3>5, <3>6, <3>7
  <2>4. Unpack(cut, w, m) = codes
    <3>1. w \in {4, 6, 8}
      BY <2>1 DEF Widths
    <3>2. Unpack(Pack(codes, w), w, Len(codes)) = codes
      BY <2>1, <3>1, UnpackUndoesPack
    <3>3. cut = Pack(codes, w)
      BY <2>1, <2>3
    <3>. HIDE DEF cut
    <3>. QED BY Zenon, <2>1, <3>2, <3>3
  <2>5. DecodedGroup(buf, o, m, g)
          = [p \in 1..m |-> Dequantise(buf.mins[g], Unpack(cut, w, m)[p], buf.scales[g], d)]
    BY <1>5, <2>2 DEF DecodedGroup
  <2>. HIDE DEF cut
  <2>6. DecodedGroup(buf, o, m, g)
          = [p \in 1..m |-> Dequantise(buf.mins[g], codes[p], buf.scales[g], d)]
    BY <2>4, <2>5
  <2>. QED BY <1>5, <2>6 DEF ReadBack
<1>. QED BY <1>4, <1>5
\* buf carries the groups of x, chunk behind chunk.
Carries(buf, x, G, n, codes) ==
  /\ buf.header.shape = x.shape /\ buf.header.dtype = x.dtype /\ buf.header.groups = n
  /\ Partition(buf.header.shape, buf.header.allocation, buf.header.block) = G
  /\ buf.widths \in [1..n -> Widths \union {Raw}]
  /\ \A g \in 1..n : CodesFor(codes[g], buf.widths[g], Segment(x, G, g - 1))
  /\ buf.body = FlattenSeq([g \in 1..n |->
                  Chunk(Segment(x, G, g - 1), codes[g], buf.widths[g], x.dtype)])

\* A carried tensor is read back group by group.
LEMMA DecodeCarried ==
  ASSUME NEW x, NEW G, Grouped(x, G), Numel(x.shape) = Len(x.data), Len(x.data) > 0,
         NEW n, n = NGroups(G), NEW buf, NEW codes, Carries(buf, x, G, n, codes)
  PROVE  /\ buf.body \in Seq(Int)
         /\ Decode(buf) = [i \in 1..Len(x.data) |->
           ReadBack(Segment(x, G, G[i]), codes[G[i] + 1], buf.widths[G[i] + 1],
                    buf.mins[G[i] + 1], buf.scales[G[i] + 1], x.dtype)[Place(G, i)]]
<1> DEFINE m == Len(x.data)
           seg(g) == Segment(x, G, g - 1)
           s == [g \in 1..n |-> Chunk(seg(g), codes[g], buf.widths[g], x.dtype)]
           z == [g \in 1..n |-> GroupBytes(x.dtype, Size(G, g - 1), buf.widths[g])]
           o == Starts(z)
           back(g) == ReadBack(seg(g), codes[g], buf.widths[g], buf.mins[g], buf.scales[g], x.dtype)
<1>0. m \in Nat \ {0} /\ G \in [1..m -> Nat] /\ n \in Nat \ {0}
      /\ \A i \in 1..m : G[i] + 1 \in 1..n
  <2>1. m \in Nat \ {0} /\ G \in [1..m -> Nat]
    BY DEF Grouped
  <2>. HIDE DEF m
  <2>. QED BY <2>1, NGroupsType
<1>14. n \in Nat
  BY <1>0
<1>1. \A g \in 1..n : seg(g) \in Seq(Int) /\ Len(seg(g)) = Size(G, g - 1) /\ Size(G, g - 1) \in Nat
  <2>1. \A h : Segment(x, G, h) \in Seq(Int) /\ Len(Segment(x, G, h)) = Size(G, h)
               /\ Size(G, h) \in Nat
    BY SegmentType
  <2>. QED BY <2>1
<1>2. \A g \in 1..n : buf.widths[g] \in Widths \union {Raw} /\ CodesFor(codes[g], buf.widths[g], seg(g))
  BY DEF Carries
<1>3. \A g \in 1..n : s[g] \in Seq(Int) /\ Len(s[g]) = z[g] /\ z[g] \in Nat
  <2> TAKE g \in 1..n
  <2> DEFINE c == Chunk(seg(g), codes[g], buf.widths[g], x.dtype)
  <2>1. seg(g) \in Seq(Int) /\ Len(seg(g)) = Size(G, g - 1)
    BY <1>1
  <2>2. buf.widths[g] \in Widths \union {Raw} /\ CodesFor(codes[g], buf.widths[g], seg(g))
    BY <1>2
  <2>3. /\ c \in Seq(Int) /\ Len(c) = GroupBytes(x.dtype, Len(seg(g)), buf.widths[g])
        /\ GroupBytes(x.dtype, Len(seg(g)), buf.widths[g]) \in Nat
    <3>. HIDE DEF seg
    <3>. QED BY <2>1, <2>2, ChunkType
  <2>4. s[g] = c /\ z[g] = GroupBytes(x.dtype, Size(G, g - 1), buf.widths[g])
    OBVIOUS
  <2>. QED BY <2>1, <2>3, <2>4
<1>4. s \in [1..n -> Seq(Int)] /\ z \in [1..n -> Nat]
  <2>1. s = [g \in 1..n |-> s[g]] /\ z = [g \in 1..n |-> z[g]]
    OBVIOUS
  <2>. HIDE DEF s, z
  <2>. QED BY <1>3, <2>1
<1>5. /\ o \in [1..(n + 1) -> Nat] /\ o[1] = 0
      /\ \A g \in 1..n : o[g + 1] = o[g] + z[g]
  <2>. HIDE DEF z
  <2>. QED BY <1>4, <1>14, StartsAre
<1>6. buf.body = FlattenSeq(s)
  BY DEF Carries
<1>. HIDE DEF s, o
<1>7. Laid(Int, n, s, o)
  <2>1. \A g \in 1..n : o[g + 1] = o[g] + Len(s[g])
    BY Zenon, <1>3, <1>5
  <2>. HIDE DEF z
  <2>. QED BY <1>4, <1>5, <1>14, <2>1, FlattenLaid
<1>8. \A g \in 1..n : o[g] + Len(s[g]) <= Len(buf.body) /\ o[g] \in Nat
  <2>1. n + 1 \in 1..(n + 1) /\ \A g \in 1..n : g < n + 1 /\ g \in 1..(n + 1)
    BY <1>14
  <2>2. \A g \in 1..n : o[g] + z[g] <= o[n + 1]
    <3>. HIDE DEF z
    <3>. QED BY <1>4, <1>5, <1>14, <2>1, SumsGrow
  <2>3. Len(buf.body) = o[n + 1]
    BY Zenon, <1>6, <1>7 DEF Laid
  <2>4. \A g \in 1..n : o[g] \in Nat
    BY <1>5, <2>1
  <2>. QED BY Zenon, <1>3, <2>2, <2>3, <2>4
<1>9. \A g \in 1..n : DecodedGroup(buf, o[g], Size(G, g - 1), g) = back(g)
  <2> TAKE g \in 1..n
  <2> DEFINE c == Chunk(seg(g), codes[g], buf.widths[g], buf.header.dtype)
  <2>1. seg(g) \in Seq(Int) /\ Len(seg(g)) = Size(G, g - 1)
    BY <1>1
  <2>2. buf.widths[g] \in Widths \union {Raw} /\ CodesFor(codes[g], buf.widths[g], seg(g))
    BY <1>2
  <2>3. c = s[g] /\ buf.header.dtype = x.dtype
    BY DEF Carries, s
  <2>4. o[g] \in Nat /\ o[g] + Len(c) <= Len(buf.body)
    BY <1>8, <2>3
  <2>5. \A p \in 1..Len(c) : buf.body[o[g] + p] = c[p]
    <3>. HIDE DEF c
    <3>. QED BY Zenon, <1>6, <1>7, <2>3 DEF Laid
  <2>6. buf.body \in Seq(Int)
    BY Zenon, <1>6, <1>7 DEF Laid
  <2>7. DecodedGroup(buf, o[g], Len(seg(g)), g)
          = ReadBack(seg(g), codes[g], buf.widths[g], buf.mins[g], buf.scales[g], buf.header.dtype)
    <3>1. Holds(buf.body, o[g], c)
      BY <2>4, <2>5 DEF Holds
    <3>2. o[g] \in Nat
      BY <2>4
    <3>. HIDE DEF seg, c
    <3>. QED BY Zenon, <2>1, <2>2, <2>6, <3>1, <3>2, GroupDecodes DEF c
  <2>. QED BY <2>1, <2>3, <2>7
<1>10. \A i \in 1..m : G[i] + 1 \in 1..n /\ (G[i] + 1) - 1 = G[i]
  <2>1. \A i \in 1..m : G[i] \in Nat
    BY <1>0
  <2>. QED BY <1>0, <2>1
<1>11. Decode(buf) = [i \in 1..m |-> back(G[i] + 1)[Place(G, i)]]
  <2> DEFINE D == [g \in 1..n |-> DecodedGroup(buf, o[g], Size(G, g - 1), g)]
  <2>1. /\ buf.header.groups = n /\ n # 0 /\ buf.header.dtype = x.dtype
        /\ Numel(buf.header.shape) = m
        /\ Partition(buf.header.shape, buf.header.allocation, buf.header.block) = G
    BY <1>0 DEF Carries
  <2> DEFINE size == [g \in 1..n |-> Size(G, g - 1)]
             y == [g \in 1..n |-> GroupBytes(x.dtype, size[g], buf.widths[g])]
             E == [g \in 1..n |-> DecodedGroup(buf, Starts(y)[g], size[g], g)]
  <2>2. Decode(buf) = [i \in 1..m |-> E[G[i] + 1][Place(G, i)]]
    BY <2>1 DEF Decode
  <2>3. y = z
    OBVIOUS
  <2>4. E = D
    <3>. HIDE DEF y, z
    <3>. QED BY <2>3 DEF o
  <2>5. \A g \in 1..n : D[g] = back(g)
    <3>. HIDE DEF back
    <3>. QED BY <1>9
  <2>. HIDE DEF E, D, back
  <2>. QED BY <1>10, <2>2, <2>4, <2>5
<1>12. \A i \in 1..m : back(G[i] + 1) = ReadBack(Segment(x, G, G[i]), codes[G[i] + 1],
         buf.widths[G[i] + 1], buf.mins[G[i] + 1], buf.scales[G[i] + 1], x.dtype)
  BY <1>10
<1>13. buf.body \in Seq(Int)
  BY Zenon, <1>6, <1>7 DEF Laid
<1>. HIDE DEF back
<1>. QED BY <1>11, <1>12, <1>13
-----------------------------------------------------------------------------
(* What an encoder owes the receiver.                                        *)

GroupsOf(x, c) == Partition(x.shape, c.allocation, c.block)

LEMMA InputFacts ==
  ASSUME NEW x, NEW c, WellFormed(x, c)
  PROVE  /\ Grouped(x, GroupsOf(x, c)) /\ Numel(x.shape) = Len(x.data)
         /\ c.eps \in Nat \ {0} /\ c.block \in Nat \ {0} /\ Len(x.data) \in Nat
         /\ c.width \in Widths \union {Adaptive}
         /\ \A p \in 1..Len(x.data) : x.data[p] \in Int
<1>1. /\ x.data \in Seq(Int) /\ Numel(x.shape) = Len(x.data)
      /\ x.shape \in Seq(Nat \ {0}) /\ Len(x.shape) \in {1, 2}
      /\ c.block \in Nat \ {0} /\ c.allocation \in {"blockwise", "per_channel", "per_token"}
      /\ c.eps \in Nat \ {0} /\ c.width \in Widths \union {Adaptive}
  BY DEF WellFormed
<1>2. GroupsOf(x, c) \in [1..Numel(x.shape) -> Nat]
  BY <1>1, PartitionType DEF GroupsOf
<1>3. Len(x.data) \in Nat /\ \A p \in 1..Len(x.data) : x.data[p] \in Int
  BY <1>1
<1>. QED BY <1>1, <1>2, <1>3 DEF Grouped

\* A compressed group is finite, and within the bound as it will be read.
Kept(seg, codes, w, lo, scale, dtype, c) ==
  w # Raw =>
    LET r == ReadBack(seg, codes, w, lo, scale, dtype)
    IN  /\ ~HasNonFinite(seg) /\ r \in Seq(Int) /\ Len(r) = Len(seg) /\ ~Missed(seg, r, c)
        /\ NoOverflow => \A p \in 1..Len(seg) : Finite(r[p])

\* Either the tensor is carried as it is, or group by group.
Sent(buf, x, c) ==
  \/ buf.header.groups = 0 /\ Decode(buf) = x.data
  \/ /\ Len(x.data) > 0 /\ buf.header.groups # 0
     /\ \E codes :
          /\ Carries(buf, x, GroupsOf(x, c), NGroups(GroupsOf(x, c)), codes)
          /\ \A g \in 1..NGroups(GroupsOf(x, c)) :
               Kept(Segment(x, GroupsOf(x, c), g - 1), codes[g], buf.widths[g], buf.mins[g],
                    buf.scales[g], x.dtype, c)

GroupFiniteAt(x, c, i) ==
  \A j \in DOMAIN x.data : GroupsOf(x, c)[j] = GroupsOf(x, c)[i] => Finite(x.data[j])

\* The receiver has every value within the bound, and those of a group with a
\* value that is not finite as they were.
LEMMA SentDecodes ==
  ASSUME NEW x, NEW c, WellFormed(x, c), NEW buf, Sent(buf, x, c), NEW i \in 1..Len(x.data)
  PROVE  /\ ~GroupFiniteAt(x, c, i) \/ buf.header.groups = 0 => Decode(buf)[i] = x.data[i]
         /\ GroupFiniteAt(x, c, i) /\ NoOverflow => Abs(Decode(buf)[i] - x.data[i]) <= c.eps
         /\ Decode(buf)[i] \in Int
<1> DEFINE G == GroupsOf(x, c)
           n == NGroups(G)
<1>1. /\ Grouped(x, G) /\ Numel(x.shape) = Len(x.data) /\ c.eps \in Nat /\ x.data[i] \in Int
      /\ Len(x.data) \in Nat
  BY InputFacts
<1>2. Abs(x.data[i] - x.data[i]) <= c.eps
  <2>1. \A v \in Int : v - v = 0
    OBVIOUS
  <2>2. x.data[i] - x.data[i] = 0
    BY <1>1, <2>1
  <2>. QED BY <1>1, <2>2 DEF Abs
<1>3. CASE buf.header.groups = 0 /\ Decode(buf) = x.data
  BY <1>1, <1>2, <1>3
<1>4. CASE ~(buf.header.groups = 0 /\ Decode(buf) = x.data)
  <2>1. PICK codes :
          /\ Carries(buf, x, G, n, codes)
          /\ \A g \in 1..n : Kept(Segment(x, G, g - 1), codes[g], buf.widths[g], buf.mins[g],
                                  buf.scales[g], x.dtype, c)
    BY <1>4 DEF Sent
  <2>2. Len(x.data) > 0 /\ buf.header.groups # 0
    BY <1>4 DEF Sent
  <2> DEFINE h == G[i] + 1
             seg == Segment(x, G, G[i])
             w == buf.widths[h]
             r == ReadBack(seg, codes[h], w, buf.mins[h], buf.scales[h], x.dtype)
             p == Place(G, i)
  <2>3. Decode(buf)[i] = r[p]
    <3>1. Decode(buf) = [j \in 1..Len(x.data) |->
            ReadBack(Segment(x, G, G[j]), codes[G[j] + 1], buf.widths[G[j] + 1],
                     buf.mins[G[j] + 1], buf.scales[G[j] + 1], x.dtype)[Place(G, j)]]
      <4>. HIDE DEF G
      <4>. QED BY <1>1, <2>1, <2>2, DecodeCarried
    <3>. QED BY <3>1
  <2>4. seg[p] = x.data[i] /\ p \in 1..Size(G, G[i])
    <3>. HIDE DEF G
    <3>. QED BY <1>1, SegmentAt
  <2>5. seg \in Seq(Int) /\ Len(seg) = Size(G, G[i]) /\ DOMAIN seg = 1..Size(G, G[i])
        /\ Size(G, G[i]) \in Nat
    <3>. HIDE DEF G
    <3>. QED BY <1>1, SegmentType
  <2>6. h \in 1..n /\ h - 1 = G[i] /\ G[i] \in Nat
    <3>1. G \in [1..Len(x.data) -> Nat] /\ Len(x.data) \in Nat \ {0}
      BY <1>1, <2>2 DEF Grouped
    <3>. HIDE DEF G
    <3>2. G[i] \in Nat /\ G[i] + 1 \in 1..NGroups(G)
      BY <3>1, NGroupsType
    <3>. QED BY <3>2
  <2>7. Kept(seg, codes[h], w, buf.mins[h], buf.scales[h], x.dtype, c)
    <3>1. Kept(Segment(x, G, h - 1), codes[h], buf.widths[h], buf.mins[h], buf.scales[h], x.dtype, c)
      <4>. HIDE DEF h, n, G
      <4>. QED BY <2>1, <2>6
    <3>. HIDE DEF h, G
    <3>. QED BY <2>6, <3>1
  <2>. HIDE DEF h, n, p, G, seg, w
  <2>8. CASE w = Raw
    <3>1. r = seg
      BY <2>8 DEF ReadBack
    <3>. QED BY <1>1, <1>2, <2>3, <2>4, <3>1
  <2>9. CASE w # Raw
    <3>. HIDE DEF r
    <3>1. /\ ~HasNonFinite(seg) /\ r \in Seq(Int) /\ Len(r) = Len(seg) /\ ~Missed(seg, r, c)
          /\ NoOverflow => \A q \in 1..Len(seg) : Finite(r[q])
      BY <2>7, <2>9 DEF Kept, r
    <3>2. p \in 1..Len(seg) /\ p \in DOMAIN seg
      BY <2>4, <2>5
    <3>3. GroupFiniteAt(x, c, i)
      <4>1. ASSUME NEW j \in DOMAIN x.data, G[j] = G[i] PROVE Finite(x.data[j])
        <5>1. j \in 1..Len(x.data) /\ x.data \in Seq(Int)
          BY <1>1 DEF Grouped
        <5>2. Segment(x, G, G[j])[Place(G, j)] = x.data[j] /\ Place(G, j) \in 1..Size(G, G[j])
          BY <1>1, <5>1, SegmentAt
        <5>3. seg[Place(G, j)] = x.data[j] /\ Place(G, j) \in DOMAIN seg
          BY <2>5, <4>1, <5>2 DEF seg
        <5>. QED BY <3>1, <5>3 DEF HasNonFinite
      <4>. QED BY <4>1 DEF GroupFiniteAt, G
    <3>4. NoOverflow => Abs(r[p] - seg[p]) <= c.eps
      <4>1. SUFFICES ASSUME NoOverflow PROVE Abs(r[p] - seg[p]) <= c.eps
        OBVIOUS
      <4>2. Finite(r[p]) /\ Finite(seg[p])
        BY <3>1, <3>2, <4>1 DEF HasNonFinite
      <4>3. WorstError(seg, r) \in Nat /\ Abs(seg[p] - r[p]) <= WorstError(seg, r)
        BY <2>5, <3>1, <3>2, <4>2, WorstErrorBounds
      <4>4. WorstError(seg, r) <= c.eps
        BY <1>1, <3>1, <4>3 DEF Missed
      <4>5. r[p] \in Int /\ seg[p] \in Int
        BY <2>5, <3>1, <3>2
      <4>6. \A a, b \in Int : Abs(a - b) = Abs(b - a) /\ Abs(a - b) \in Int
        BY DEF Abs
      <4>7. \A a, b, d \in Int : a <= b /\ b <= d => a <= d
        OBVIOUS
      <4>8. c.eps \in Int /\ WorstError(seg, r) \in Int
        BY <1>1, <4>3
      <4>. QED BY Zenon, <4>3, <4>4, <4>5, <4>6, <4>7, <4>8
    <3>5. r[p] \in Int
      BY <3>1, <3>2
    <3>. QED BY <2>2, <2>3, <2>4, <3>3, <3>4, <3>5
  <2>. QED BY <2>8, <2>9
<1>. QED BY <1>3, <1>4
-----------------------------------------------------------------------------
(* The reference encoder.                                                    *)

GroupCodes(seg, lo, scale, w) == [p \in DOMAIN seg |-> Quantise(seg[p], lo, scale, w)]

LEMMA GroupCodesType ==
  ASSUME NEW seg \in Seq(Int), NEW w \in Widths, NEW lo, NEW scale,
         Len(seg) > 0 => lo \in Int /\ scale \in Nat
  PROVE  GroupCodes(seg, lo, scale, w) \in Seq(Codes(w)) /\ Len(GroupCodes(seg, lo, scale, w)) = Len(seg)
<1> DEFINE m == Len(seg)
           f == GroupCodes(seg, lo, scale, w)
<1>1. m \in Nat /\ DOMAIN seg = 1..m /\ \A p \in 1..m : seg[p] \in Int
  OBVIOUS
<1>2. \A p \in 1..m : Quantise(seg[p], lo, scale, w) \in Codes(w)
  <2> TAKE p \in 1..m
  <2>1. lo \in Int /\ scale \in Nat /\ seg[p] \in Int
    BY <1>1
  <2>. QED BY <2>1, QuantiseType
<1>3. f = [p \in 1..m |-> Quantise(seg[p], lo, scale, w)]
  BY <1>1 DEF GroupCodes
<1>. HIDE DEF f, m
<1>4. f \in [1..m -> Codes(w)]
  BY Zenon, <1>2, <1>3
<1>5. \A S : \A q \in Nat : \A g \in [1..q -> S] : g \in Seq(S) /\ Len(g) = q
  OBVIOUS
<1>. QED BY Zenon, <1>1, <1>4, <1>5 DEF f, m

\* What is read from codes is as long as the group, and numbers.
LEMMA ReadBackType ==
  ASSUME NEW seg \in Seq(Int), NEW codes, NEW w \in Widths, CodesFor(codes, w, seg),
         NEW lo, NEW scale, NEW dtype, Len(seg) > 0 => lo \in Int /\ scale \in Nat
  PROVE  LET r == ReadBack(seg, codes, w, lo, scale, dtype)
         IN  /\ r \in Seq(Int) /\ Len(r) = Len(seg)
             /\ r = [p \in 1..Len(seg) |-> Dequantise(lo, codes[p], scale, dtype)]
<1> DEFINE m == Len(seg)
           r == ReadBack(seg, codes, w, lo, scale, dtype)
<1>1. w # Raw
  BY DEF Widths, Raw
<1>2. m \in Nat /\ codes \in Seq(Codes(w)) /\ Len(codes) = m
  BY <1>1 DEF CodesFor
<1>3. r = [p \in 1..m |-> Dequantise(lo, codes[p], scale, dtype)]
  BY <1>1 DEF ReadBack
<1>4. \A p \in 1..m : Dequantise(lo, codes[p], scale, dtype) \in Int
  <2> TAKE p \in 1..m
  <2>1. lo \in Int /\ scale \in Nat
    BY <1>2
  <2>2. codes[p] \in Codes(w)
    BY <1>2
  <2>3. Codes(w) \subseteq Nat
    <3>1. Power(w) - 1 \in Int
      BY SMTT(60), Powers DEF Widths
    <3>. QED BY <3>1 DEF Codes
  <2>. QED BY <2>1, <2>2, <2>3, DequantiseType
<1>. HIDE DEF r, m
<1>5. r \in [1..m -> Int]
  BY Zenon, <1>3, <1>4
<1>6. \A q \in Nat : \A g \in [1..q -> Int] : g \in Seq(Int) /\ Len(g) = q
  OBVIOUS
<1>7. r \in Seq(Int) /\ Len(r) = m
  BY Zenon, <1>2, <1>5, <1>6
<1>. QED BY <1>3, <1>7 DEF r, m

LEMMA ChooseBitWidthType ==
  ASSUME NEW range, NEW budget2
  PROVE  ChooseBitWidth(range, budget2) \in Widths \union {Raw}
<1> DEFINE S == {w \in Widths : Fits(range, budget2, w)}
<1>1. CASE S = {}
  BY <1>1 DEF ChooseBitWidth
<1>2. CASE S # {}
  <2>1. IsFiniteSet(S)
    <3>1. IsFiniteSet(4..8)
      <4>1. 4 \in Int /\ 8 \in Int
        OBVIOUS
      <4>. QED BY ONLY <4>1, FS_Interval
    <3>2. S \in SUBSET (4..8)
      BY DEF Widths
    <3>. HIDE DEF S
    <3>. QED BY <3>1, <3>2, FS_Subset
  <2>2. S \subseteq Int /\ S \subseteq Widths
    BY DEF Widths
  <2>3. ChooseBitWidth(range, budget2) = Min(S)
    BY <1>2 DEF ChooseBitWidth
  <2>. HIDE DEF S
  <2>. QED BY <1>2, <2>1, <2>2, <2>3, FiniteMin
<1>. QED BY <1>1, <1>2

LEMMA PredictedWidthType ==
  ASSUME NEW x, NEW c, c.width \in Widths \union {Adaptive}, NEW seg
  PROVE  /\ PredictedWidth(x, c, seg) \in Widths \union {Raw}
         /\ PredictedWidth(x, c, seg) # Raw =>
              ~HasNonFinite(seg) /\ (c.width # Adaptive => PredictedWidth(x, c, seg) = c.width)
<1> DEFINE b == GroupBounds(seg)
           y == Budget2(x, c, b)
<1>1. CASE HasNonFinite(seg)
  BY <1>1 DEF PredictedWidth
<1>2. CASE ~HasNonFinite(seg) /\ c.width = Adaptive
  <2>1. PredictedWidth(x, c, seg) = ChooseBitWidth(b.max - b.min, y)
    BY <1>2 DEF PredictedWidth
  <2>. HIDE DEF b, y
  <2>. QED BY <1>2, <2>1, ChooseBitWidthType
<1>3. CASE ~HasNonFinite(seg) /\ c.width # Adaptive
  <2>1. PredictedWidth(x, c, seg) = IF HalfStepFits(b.max - b.min, y, c.width, 0) THEN c.width ELSE Raw
    BY <1>3 DEF PredictedWidth
  <2>. HIDE DEF b, y
  <2>. QED BY <1>3, <2>1
<1>. QED BY <1>1, <1>2, <1>3

\* The scale of a group, and the codes it is compressed to.
HostScale(x, c, seg) ==
  LET b == GroupBounds(seg) IN Scale(b.max - b.min, PredictedWidth(x, c, seg), 0)
HostCodes(x, c, seg) ==
  GroupCodes(seg, GroupBounds(seg).min, HostScale(x, c, seg), PredictedWidth(x, c, seg))

\* One group as the host leaves it.
LEMMA EncodedGroupIs ==
  ASSUME NEW x, NEW c, c.width \in Widths \union {Adaptive}, NEW seg \in Seq(Int)
  PROVE  LET e == EncodedGroup(x, c, seg)
             codes == HostCodes(x, c, seg)
             r == ReadBack(seg, codes, e.width, e.min, e.scale, x.dtype)
         IN  /\ e.width \in Widths \union {Raw} /\ CodesFor(codes, e.width, seg)
             /\ e.chunk = Chunk(seg, codes, e.width, x.dtype)
             /\ e.min = GroupBounds(seg).min
             /\ e.width = Raw => e.error = 0 /\ e.scale = 0
             /\ e.width # Raw =>
                  /\ ~HasNonFinite(seg) /\ r \in Seq(Int) /\ Len(r) = Len(seg)
                  /\ ~Missed(seg, r, c) /\ e.error = WorstError(seg, r)
                  /\ e.width = PredictedWidth(x, c, seg)
                  /\ e.scale = HostScale(x, c, seg)
<1> DEFINE e == EncodedGroup(x, c, seg)
           b == GroupBounds(seg)
           w == PredictedWidth(x, c, seg)
           scale == HostScale(x, c, seg)
           codes == HostCodes(x, c, seg)
           r == ReadBack(seg, codes, w, b.min, scale, x.dtype)
<1>1. w \in Widths \union {Raw} /\ (w # Raw => ~HasNonFinite(seg))
  BY PredictedWidthType
<1>2. CASE w = Raw
  <2>1. e = [width |-> Raw, min |-> b.min, scale |-> 0,
             chunk |-> ElementBytes(seg, x.dtype), error |-> 0]
    BY <1>2 DEF EncodedGroup
  <2>. HIDE DEF e, b
  <2>. QED BY <2>1 DEF CodesFor, Chunk, b, e
<1>3. CASE w # Raw
  <2>1. w \in Widths
    BY <1>1, <1>3
  <2>2. Len(seg) > 0 => b.min \in Int /\ scale \in Nat
    <3>1. SUFFICES ASSUME Len(seg) > 0 PROVE b.min \in Int /\ scale \in Nat
      OBVIOUS
    <3>2. b.min \in Int /\ b.max \in Int /\ b.min <= b.max
      BY <3>1, GroupBoundsType
    <3>3. b.max - b.min \in Nat /\ 0 \in Int
      BY <3>2
    <3>4. scale = Scale(b.max - b.min, w, 0)
      BY DEF HostScale
    <3>. HIDE DEF b, w, scale
    <3>. QED BY <2>1, <3>2, <3>3, <3>4, ScaleType
  <2>3. codes \in Seq(Codes(w)) /\ Len(codes) = Len(seg) /\ CodesFor(codes, w, seg)
    <3>1. codes = GroupCodes(seg, b.min, scale, w)
      BY DEF HostCodes
    <3>. HIDE DEF b, w, scale, codes
    <3>. QED BY <2>1, <2>2, <3>1, GroupCodesType DEF CodesFor
  <2>4. /\ r \in Seq(Int) /\ Len(r) = Len(seg)
        /\ r = [p \in 1..Len(seg) |-> Dequantise(b.min, codes[p], scale, x.dtype)]
    <3> DEFINE lo == b.min
    <3>1. Len(seg) > 0 => lo \in Int /\ scale \in Nat
      BY <2>2
    <3>. HIDE DEF b, w, scale, codes, r, lo
    <3>2. r = ReadBack(seg, codes, w, lo, scale, x.dtype)
      BY DEF r, lo
    <3>3. LET q == ReadBack(seg, codes, w, lo, scale, x.dtype)
          IN  /\ q \in Seq(Int) /\ Len(q) = Len(seg)
              /\ q = [p \in 1..Len(seg) |-> Dequantise(lo, codes[p], scale, x.dtype)]
      BY SMTT(60), <2>1, <2>3, <3>1, ReadBackType
    <3>. QED BY <3>2, <3>3 DEF lo
  <2>5. DOMAIN seg = 1..Len(seg)
    OBVIOUS
  <2>6. codes = [p \in DOMAIN seg |-> Quantise(seg[p], b.min, scale, w)]
    BY DEF HostCodes, GroupCodes
  <2>7. r = [p \in DOMAIN seg |-> Dequantise(b.min, codes[p], scale, x.dtype)]
    <3>. HIDE DEF b, w, scale, codes, r
    <3>. QED BY <2>4, <2>5
  <2>8. e = IF Missed(seg, r, c)
            THEN [width |-> Raw, min |-> b.min, scale |-> 0,
                  chunk |-> ElementBytes(seg, x.dtype), error |-> 0]
            ELSE [width |-> w, min |-> b.min, scale |-> scale,
                  chunk |-> Pack(codes, w), error |-> WorstError(seg, r)]
    <3> DEFINE cc == [p \in DOMAIN seg |-> Quantise(seg[p], b.min, scale, w)]
               rr == [p \in DOMAIN seg |-> Dequantise(b.min, cc[p], scale, x.dtype)]
    <3>1. e = IF w = Raw \/ Missed(seg, rr, c)
              THEN [width |-> Raw, min |-> b.min, scale |-> 0,
                    chunk |-> ElementBytes(seg, x.dtype), error |-> 0]
              ELSE [width |-> w, min |-> b.min, scale |-> scale,
                    chunk |-> Pack(cc, w), error |-> WorstError(seg, rr)]
      BY DEF EncodedGroup, HostScale
    <3>2. cc = codes
      BY <2>6
    <3>. HIDE DEF cc, codes
    <3>3. rr = r
      BY <2>7, <3>2
    <3>. HIDE DEF rr, r, e, b, w, scale
    <3>. QED BY <1>3, <3>1, <3>2, <3>3
  <2>9. CASE Missed(seg, r, c)
    <3>1. e = [width |-> Raw, min |-> b.min, scale |-> 0,
               chunk |-> ElementBytes(seg, x.dtype), error |-> 0]
      BY <2>8, <2>9
    <3>. HIDE DEF e, b, codes
    <3>. QED BY <3>1 DEF CodesFor, Chunk, b, e, codes
  <2>10. CASE ~Missed(seg, r, c)
    <3>1. e = [width |-> w, min |-> b.min, scale |-> scale,
               chunk |-> Pack(codes, w), error |-> WorstError(seg, r)]
      BY <2>8, <2>10
    <3>. HIDE DEF e, b, w, scale, codes
    <3>2. e.width = w /\ e.min = b.min /\ e.scale = scale /\ e.chunk = Pack(codes, w)
          /\ e.error = WorstError(seg, r)
      BY <3>1
    <3>3. e.chunk = Chunk(seg, codes, e.width, x.dtype)
      BY <1>3, <3>2 DEF Chunk
    <3>4. ReadBack(seg, codes, e.width, e.min, e.scale, x.dtype) = r
      BY <3>2
    <3>. HIDE DEF r
    <3>. QED BY <1>1, <1>3, <2>3, <2>4, <2>10, <3>2, <3>3, <3>4 DEF e, b, w, scale, codes
  <2>. QED BY <2>9, <2>10
<1>. QED BY <1>2, <1>3
\* A tensor that bypasses the codec arrives as it is.
LEMMA BypassSends ==
  ASSUME NEW x, NEW c, WellFormed(x, c), NEW reason
  PROVE  Sent(Bypass(x, c, reason).buf, x, c) /\ Bypass(x, c, reason).buf.header.groups = 0
         /\ Bypass(x, c, reason).stats.reason = reason /\ Bypass(x, c, reason).stats.error = 0
<1> DEFINE buf == Bypass(x, c, reason).buf
           e == ElemBytes(x.dtype)
           m == Len(x.data)
<1>1. /\ m \in Nat /\ Numel(x.shape) = m /\ x.data \in Seq(Int)
  BY InputFacts DEF Grouped
<1>2. /\ buf.header.groups = 0 /\ buf.header.shape = x.shape /\ buf.header.dtype = x.dtype
      /\ buf.body = ElementBytes(x.data, x.dtype)
  BY DEF Bypass, Written, HeaderOf
<1>3. Decode(buf) = [i \in 1..m |-> ElementAt(buf.body, (i - 1) * e, x.dtype)]
  <2>. HIDE DEF buf
  <2>. QED BY <1>1, <1>2 DEF Decode
<1>4. \A i \in 1..m : ElementAt(buf.body, (i - 1) * e, x.dtype) = x.data[i]
  <2> DEFINE body == ElementBytes(x.data, x.dtype)
  <2>1. body \in Seq(Int) /\ Len(body) \in Nat /\ \A p \in 1..Len(body) : 0 + p = p
    BY <1>1, ElementBytesLaid
  <2>2. 0 \in Nat /\ \A p \in 1..Len(body) : body[0 + p] = body[p]
    BY <2>1
  <2>3. \A i \in 1..m : ElementAt(body, 0 + (i - 1) * e, x.dtype) = x.data[i]
    BY <1>1, <2>2, ElementsRead
  <2>4. \A i \in 1..m : 0 + (i - 1) * e = (i - 1) * e
    BY <1>1, ElemBytesType
  <2>. HIDE DEF body, buf, e, m
  <2>. QED BY <1>2, <2>3, <2>4 DEF body
<1>5. x.data = [i \in 1..m |-> x.data[i]]
  BY <1>1
<1>6. Decode(buf) = x.data
  <2>. HIDE DEF buf, e, m
  <2>. QED BY Zenon, <1>3, <1>4, <1>5
<1>7. Bypass(x, c, reason).stats.reason = reason /\ Bypass(x, c, reason).stats.error = 0
  BY DEF Bypass
<1>. QED BY <1>2, <1>6, <1>7 DEF Sent

\* What the host writes, group by group.
HostGroup(x, c, g) == EncodedGroup(x, c, Segment(x, GroupsOf(x, c), g - 1))

HostWrites(x, c, n, buf, s) ==
  /\ buf = Written(buf.header, buf.widths, buf.mins, buf.scales, buf.body)
  /\ \E w : buf.header = HeaderOf(x, c, w, n)
  /\ buf.widths = [g \in 1..n |-> HostGroup(x, c, g).width]
  /\ buf.mins = [g \in 1..n |-> HostGroup(x, c, g).min]
  /\ buf.scales = [g \in 1..n |-> HostGroup(x, c, g).scale]
  /\ buf.body = FlattenSeq([g \in 1..n |-> HostGroup(x, c, g).chunk])
  /\ s.bytes = PayloadBytes(buf)
  /\ s.error = Max({HostGroup(x, c, g).error : g \in 1..n})
  /\ s.nonfinite = Cardinality({g \in 1..n : HasNonFinite(Segment(x, GroupsOf(x, c), g - 1))})
  /\ s.reason = "none"

LEMMA ReferenceWrites ==
  ASSUME NEW x, NEW c, BypassReasonOf(x, c) = "none"
  PROVE  HostWrites(x, c, NGroups(GroupsOf(x, c)), ReferenceEncode(x, c).buf,
                    ReferenceEncode(x, c).stats)
<1> DEFINE n == NGroups(GroupsOf(x, c))
           enc == [g \in 1..n |-> HostGroup(x, c, g)]
           used == {enc[g].width : g \in 1..n} \ {Raw}
           width == IF Cardinality(used) = 1 THEN Min(used) ELSE Mixed
           buf == Written(HeaderOf(x, c, width, n),
                          [g \in 1..n |-> enc[g].width], [g \in 1..n |-> enc[g].min],
                          [g \in 1..n |-> enc[g].scale],
                          FlattenSeq([g \in 1..n |-> enc[g].chunk]))
           s == [bytes |-> PayloadBytes(buf), error |-> Max({enc[g].error : g \in 1..n}),
                 nonfinite |-> Cardinality({g \in 1..n :
                                 HasNonFinite(Segment(x, GroupsOf(x, c), g - 1))}),
                 blocks |-> n, reason |-> "none"]
<1>1. ReferenceEncode(x, c) = [buf |-> buf, stats |-> s]
  BY DEF ReferenceEncode, HostGroup, GroupsOf
<1>2. \A g \in 1..n : enc[g] = HostGroup(x, c, g)
  OBVIOUS
<1>3. ReferenceEncode(x, c).buf = buf /\ ReferenceEncode(x, c).stats = s
  <2>. HIDE DEF buf, s
  <2>. QED BY <1>1
<1>. HIDE DEF enc
<1>4. buf.header = HeaderOf(x, c, width, n)
  BY DEF Written
<1>5. /\ buf.widths = [g \in 1..n |-> HostGroup(x, c, g).width]
      /\ buf.mins = [g \in 1..n |-> HostGroup(x, c, g).min]
      /\ buf.scales = [g \in 1..n |-> HostGroup(x, c, g).scale]
      /\ buf.body = FlattenSeq([g \in 1..n |-> HostGroup(x, c, g).chunk])
  BY <1>2 DEF Written
<1>8. buf = Written(buf.header, buf.widths, buf.mins, buf.scales, buf.body)
  BY DEF Written
<1>. HIDE DEF buf, width
<1>6. /\ s.bytes = PayloadBytes(buf)
      /\ s.error = Max({HostGroup(x, c, g).error : g \in 1..n})
      /\ s.nonfinite = Cardinality({g \in 1..n :
                         HasNonFinite(Segment(x, GroupsOf(x, c), g - 1))})
      /\ s.reason = "none"
  BY <1>2
<1>. HIDE DEF s, n
<1>7. HostWrites(x, c, n, buf, s)
  BY <1>4, <1>5, <1>6, <1>8 DEF HostWrites
<1>. QED BY <1>3, <1>7 DEF n
\* The codes the host writes, for the tensor as a whole.
AllHostCodes(x, c) ==
  [g \in 1..NGroups(GroupsOf(x, c)) |-> HostCodes(x, c, Segment(x, GroupsOf(x, c), g - 1))]

\* The host's buffer carries the tensor.
LEMMA ReferenceCarries ==
  ASSUME NEW x, NEW c, WellFormed(x, c), BypassReasonOf(x, c) = "none"
  PROVE  LET buf == ReferenceEncode(x, c).buf
         IN  /\ Carries(buf, x, GroupsOf(x, c), NGroups(GroupsOf(x, c)), AllHostCodes(x, c))
             /\ Len(x.data) > 0 /\ NGroups(GroupsOf(x, c)) \in Nat \ {0}
<1> DEFINE G == GroupsOf(x, c)
           n == NGroups(G)
           buf == ReferenceEncode(x, c).buf
           codes == AllHostCodes(x, c)
<1>1. /\ Grouped(x, G) /\ c.block \in Nat \ {0} /\ Len(x.data) \in Nat
      /\ c.width \in Widths \union {Adaptive}
  BY InputFacts
<1>2. Len(x.data) > 0
  <2>1. ~(Len(x.data) < c.block)
    BY DEF BypassReasonOf
  <2>. QED BY <1>1, <2>1
<1>3. n \in Nat \ {0}
  <2>1. Len(x.data) \in Nat \ {0} /\ G \in [1..Len(x.data) -> Nat]
    BY <1>1, <1>2 DEF Grouped
  <2>. HIDE DEF G
  <2>. QED BY <2>1, NGroupsType
<1>4. /\ \E w : buf.header = HeaderOf(x, c, w, n)
      /\ buf.widths = [g \in 1..n |-> HostGroup(x, c, g).width]
      /\ buf.mins = [g \in 1..n |-> HostGroup(x, c, g).min]
      /\ buf.scales = [g \in 1..n |-> HostGroup(x, c, g).scale]
      /\ buf.body = FlattenSeq([g \in 1..n |-> HostGroup(x, c, g).chunk])
  <2>1. HostWrites(x, c, n, buf, ReferenceEncode(x, c).stats)
    BY ReferenceWrites
  <2>. HIDE DEF n, buf
  <2>. QED BY <2>1 DEF HostWrites
<1>5. \A g \in 1..n : codes[g] = HostCodes(x, c, Segment(x, G, g - 1))
  BY DEF AllHostCodes
<1>. HIDE DEF buf, n, codes
<1>6. \A g \in 1..n :
        /\ HostGroup(x, c, g).width \in Widths \union {Raw}
        /\ CodesFor(codes[g], HostGroup(x, c, g).width, Segment(x, G, g - 1))
        /\ HostGroup(x, c, g).chunk
             = Chunk(Segment(x, G, g - 1), codes[g], HostGroup(x, c, g).width, x.dtype)
  <2> TAKE g \in 1..n
  <2>1. Segment(x, G, g - 1) \in Seq(Int)
    <3>. HIDE DEF G
    <3>. QED BY <1>1, SegmentType
  <2>2. HostGroup(x, c, g) = EncodedGroup(x, c, Segment(x, G, g - 1))
    BY DEF HostGroup
  <2>3. codes[g] = HostCodes(x, c, Segment(x, G, g - 1))
    BY <1>5
  <2>. HIDE DEF G
  <2>. QED BY <1>1, <2>1, <2>2, <2>3, EncodedGroupIs
<1>7. /\ buf.header.shape = x.shape /\ buf.header.dtype = x.dtype /\ buf.header.groups = n
      /\ Partition(buf.header.shape, buf.header.allocation, buf.header.block) = G
  BY <1>4 DEF HeaderOf, GroupsOf
<1>. HIDE DEF G
<1>8. \A g \in 1..n : buf.widths[g] = HostGroup(x, c, g).width
  BY <1>4
<1>9. buf.widths \in [1..n -> Widths \union {Raw}]
  BY <1>4, <1>6
<1>10. \A g \in 1..n : CodesFor(codes[g], buf.widths[g], Segment(x, G, g - 1))
  BY <1>6, <1>8
<1>11. buf.body = FlattenSeq([g \in 1..n |->
                    Chunk(Segment(x, G, g - 1), codes[g], buf.widths[g], x.dtype)])
  <2>1. \A g \in 1..n : HostGroup(x, c, g).chunk
          = Chunk(Segment(x, G, g - 1), codes[g], buf.widths[g], x.dtype)
    BY <1>6, <1>8
  <2>2. [g \in 1..n |-> HostGroup(x, c, g).chunk]
          = [g \in 1..n |-> Chunk(Segment(x, G, g - 1), codes[g], buf.widths[g], x.dtype)]
    BY <2>1
  <2>. QED BY Zenon, <1>4, <2>2
<1>12. Carries(buf, x, G, n, codes)
  BY <1>7, <1>9, <1>10, <1>11 DEF Carries
<1>. QED BY <1>2, <1>3, <1>12 DEF buf, G, n, codes

\* NoOverflow, of one group.
FiniteBack(x, c, d, seg) ==
  LET b     == GroupBounds(seg)
      w     == IF c.width = Adaptive THEN PredictedWidth(x, c, seg) ELSE c.width
      scale == Scale(b.max - b.min, w, d)
  IN  w # Raw /\ ~HasNonFinite(seg) => \A p \in DOMAIN seg :
        Finite(Dequantise(b.min, Quantise(seg[p], b.min, scale, w), scale, x.dtype))

LEMMA NoOverflowAt ==
  ASSUME NoOverflow, NEW i \in Inputs, NEW d \in Offs,
         i.tensor.contiguous, Len(i.tensor.data) >= i.cfg.block,
         NEW g, g - 1 \in 0..(NGroups(GroupsOf(i.tensor, i.cfg)) - 1)
  PROVE  FiniteBack(i.tensor, i.cfg, d, Segment(i.tensor, GroupsOf(i.tensor, i.cfg), g - 1))
BY DEF NoOverflow, FiniteBack, GroupsOf

\* What it says of a group that the host compresses.
HostFinite(x, c, seg) ==
  LET b     == GroupBounds(seg)
      w     == PredictedWidth(x, c, seg)
      scale == Scale(b.max - b.min, w, 0)
  IN  w # Raw => \A p \in DOMAIN seg :
        Finite(Dequantise(b.min, Quantise(seg[p], b.min, scale, w), scale, x.dtype))

LEMMA HostFiniteAt ==
  ASSUME NoOverflow, NEW i \in Inputs, BypassReasonOf(i.tensor, i.cfg) = "none",
         NEW g, g - 1 \in 0..(NGroups(GroupsOf(i.tensor, i.cfg)) - 1)
  PROVE  HostFinite(i.tensor, i.cfg, Segment(i.tensor, GroupsOf(i.tensor, i.cfg), g - 1))
<1> DEFINE x == i.tensor
           c == i.cfg
           seg == Segment(x, GroupsOf(x, c), g - 1)
           w == PredictedWidth(x, c, seg)
<1>1. x.contiguous /\ Len(x.data) >= c.block /\ c.width \in Widths \union {Adaptive}
  <2>1. WellFormed(x, c)
    BY CodecAssumption
  <2>2. x.contiguous /\ ~(Len(x.data) < c.block)
    BY DEF BypassReasonOf
  <2>. QED BY <2>1, <2>2, InputFacts
<1>2. FiniteBack(x, c, 0, seg)
  <2>1. 0 \in Offs
    BY DEF Offs
  <2>. QED BY <1>1, <2>1, NoOverflowAt
<1>3. w # Raw => ~HasNonFinite(seg) /\ (c.width # Adaptive => w = c.width)
  <2>. HIDE DEF x, c, seg
  <2>. QED BY <1>1, PredictedWidthType
<1>. HIDE DEF x, c, seg
<1>4. HostFinite(x, c, seg)
  <2>1. CASE w = Raw
    BY <2>1 DEF HostFinite
  <2>2. CASE w # Raw
    <3>1. (IF c.width = Adaptive THEN PredictedWidth(x, c, seg) ELSE c.width) = w /\ ~HasNonFinite(seg)
      BY <1>3, <2>2
    <3>. HIDE DEF w
    <3>. QED BY Zenon, <1>2, <2>2, <3>1 DEF FiniteBack, HostFinite, w
  <2>. QED BY <2>1, <2>2
<1>. QED BY <1>4 DEF x, c, seg

LEMMA ReferenceSends ==
  ASSUME NEW i \in Inputs
  PROVE  Sent(ReferenceEncode(i.tensor, i.cfg).buf, i.tensor, i.cfg)
<1> DEFINE x == i.tensor
           c == i.cfg
           G == GroupsOf(x, c)
           n == NGroups(G)
           buf == ReferenceEncode(x, c).buf
           codes == AllHostCodes(x, c)
           seg(g) == Segment(x, G, g - 1)
<1>1. WellFormed(x, c)
  BY CodecAssumption
<1>2. CASE BypassReasonOf(x, c) # "none"
  <2>1. ReferenceEncode(x, c) = Bypass(x, c, BypassReasonOf(x, c))
    BY <1>2 DEF ReferenceEncode
  <2>. HIDE DEF x, c
  <2>2. Sent(Bypass(x, c, BypassReasonOf(x, c)).buf, x, c)
    BY <1>1, BypassSends
  <2>. QED BY <2>1, <2>2 DEF x, c
<1>3. CASE BypassReasonOf(x, c) = "none"
  <2>1. Carries(buf, x, G, n, codes) /\ Len(x.data) > 0 /\ n \in Nat \ {0}
    <3>. HIDE DEF x, c
    <3>. QED BY <1>1, <1>3, ReferenceCarries
  <2>2. buf.header.groups # 0
    BY <2>1 DEF Carries
  <2>3. /\ buf.widths = [g \in 1..n |-> HostGroup(x, c, g).width]
        /\ buf.mins = [g \in 1..n |-> HostGroup(x, c, g).min]
        /\ buf.scales = [g \in 1..n |-> HostGroup(x, c, g).scale]
    <3>1. HostWrites(x, c, n, buf, ReferenceEncode(x, c).stats)
      <4>. HIDE DEF x, c
      <4>. QED BY <1>3, ReferenceWrites
    <3>. HIDE DEF n, buf
    <3>. QED BY <3>1 DEF HostWrites
  <2>4. \A g \in 1..n : codes[g] = HostCodes(x, c, seg(g))
    BY DEF AllHostCodes
  <2>5. Grouped(x, G) /\ c.width \in Widths \union {Adaptive}
    <3>. HIDE DEF x, c
    <3>. QED BY <1>1, InputFacts
  <2>. HIDE DEF buf, codes, n
  <2>6. ASSUME NEW g \in 1..n
        PROVE  Kept(seg(g), codes[g], buf.widths[g], buf.mins[g], buf.scales[g], x.dtype, c)
    <3> DEFINE e == EncodedGroup(x, c, seg(g))
               r == ReadBack(seg(g), HostCodes(x, c, seg(g)), e.width, e.min, e.scale, x.dtype)
               b == GroupBounds(seg(g))
               w == PredictedWidth(x, c, seg(g))
               scale == Scale(b.max - b.min, w, 0)
    <3>1. seg(g) \in Seq(Int) /\ DOMAIN seg(g) = 1..Len(seg(g))
      <4>1. seg(g) \in Seq(Int)
        <5>. HIDE DEF G, x
        <5>. QED BY <2>5, SegmentType
      <4>. HIDE DEF seg
      <4>. QED BY <4>1
    <3>2. /\ buf.widths[g] = e.width /\ buf.mins[g] = e.min /\ buf.scales[g] = e.scale
          /\ codes[g] = HostCodes(x, c, seg(g))
      <4>1. HostGroup(x, c, g) = e
        BY DEF HostGroup
      <4>. HIDE DEF e, seg
      <4>. QED BY <2>3, <2>4, <4>1
    <3>3. /\ e.min = b.min
          /\ e.width # Raw =>
               /\ ~HasNonFinite(seg(g)) /\ r \in Seq(Int) /\ Len(r) = Len(seg(g))
               /\ ~Missed(seg(g), r, c) /\ e.width = w /\ e.scale = scale
      <4>. HIDE DEF seg, x, c
      <4>. QED BY <2>5, <3>1, EncodedGroupIs DEF HostScale
    <3>4. ASSUME NoOverflow, e.width # Raw, NEW p \in 1..Len(seg(g))
          PROVE  Finite(r[p])
      <4>1. w # Raw /\ e.scale = scale /\ e.min = b.min /\ e.width = w
        BY <3>3, <3>4
      <4>2. r[p] = Dequantise(b.min, HostCodes(x, c, seg(g))[p], scale, x.dtype)
        <5>. HIDE DEF seg, e, b, w, scale
        <5>. QED BY <4>1 DEF ReadBack
      <4>3. HostCodes(x, c, seg(g))[p] = Quantise(seg(g)[p], b.min, scale, w)
        <5>1. p \in DOMAIN seg(g)
          BY <3>1, <3>4
        <5>. HIDE DEF seg
        <5>. QED BY <5>1 DEF HostCodes, GroupCodes, HostScale
      <4>4. Finite(Dequantise(b.min, Quantise(seg(g)[p], b.min, scale, w), scale, x.dtype))
        <5>1. g - 1 \in 0..(n - 1) /\ p \in DOMAIN seg(g)
          BY <2>1, <3>1, <3>4
        <5>2. HostFinite(x, c, seg(g))
          <6>1. g - 1 \in 0..(NGroups(GroupsOf(i.tensor, i.cfg)) - 1)
            BY <5>1 DEF n, G
          <6>2. HostFinite(i.tensor, i.cfg, Segment(i.tensor, GroupsOf(i.tensor, i.cfg), g - 1))
            BY <1>3, <3>4, <6>1, HostFiniteAt
          <6>. QED BY Zenon, <6>2
        <5>3. w # Raw => \A q \in DOMAIN seg(g) :
                Finite(Dequantise(b.min, Quantise(seg(g)[q], b.min, scale, w), scale, x.dtype))
          BY Zenon, <5>2 DEF HostFinite
        <5>. HIDE DEF seg, b, w, scale
        <5>. QED BY <4>1, <5>1, <5>3
      <4>. QED BY <4>2, <4>3, <4>4
    <3>5. e.width # Raw =>
            /\ ~HasNonFinite(seg(g)) /\ r \in Seq(Int) /\ Len(r) = Len(seg(g))
            /\ ~Missed(seg(g), r, c)
            /\ NoOverflow => \A p \in 1..Len(seg(g)) : Finite(r[p])
      <4>. HIDE DEF seg, e, r
      <4>. QED BY <3>3, <3>4
    <3>6. ReadBack(seg(g), codes[g], buf.widths[g], buf.mins[g], buf.scales[g], x.dtype) = r
      <4>. HIDE DEF seg, e
      <4>. QED BY <3>2
    <3>. HIDE DEF seg, e, r
    <3>. QED BY <3>2, <3>5, <3>6 DEF Kept
  <2>7. Sent(buf, x, c)
    BY <2>1, <2>2, <2>6 DEF Sent, n
  <2>. QED BY <2>7 DEF buf
<1>. QED BY <1>2, <1>3
-----------------------------------------------------------------------------
(* Blocks: groups of consecutive elements.                                   *)

LEMMA DivLaw ==
  \A a \in Nat : \A b \in Nat \ {0} :
    a \div b \in Nat /\ a % b \in Nat /\ a % b < b /\ a = ((a \div b) * b) + (a % b)
OBVIOUS

LEMMA Products == \A s, t \in Nat : s * t \in Nat
OBVIOUS

LEMMA TimesGrows ==
  \A p, q \in Nat : \A b \in Nat : p < q => p * b + b <= q * b /\ (p + 1) * b <= q * b
<1> TAKE p, q \in Nat
<1> TAKE b \in Nat
<1> HAVE p < q
<1> DEFINE t == q - p - 1
<1>1. t \in Nat /\ q = (p + 1) + t
  OBVIOUS
<1>. HIDE DEF t
<1>2. q * b = (p + 1) * b + t * b
  BY <1>1
<1>3. (p + 1) * b = p * b + b
  OBVIOUS
<1>4. \A u, v \in Nat : u * v \in Nat
  OBVIOUS
<1>5. t * b \in Nat /\ p * b \in Nat /\ (p + 1) * b \in Nat /\ q * b \in Nat
  BY <1>1, <1>4
<1>. QED BY <1>2, <1>3, <1>5

\* A quotient is what fits.
LEMMA DivIs ==
  ASSUME NEW a \in Nat, NEW b \in Nat \ {0}, NEW q \in Nat
  PROVE  a \div b = q <=> q * b <= a /\ a < q * b + b
<1> DEFINE d == a \div b
           r == a % b
<1>1. d \in Nat /\ r \in Nat /\ r < b /\ a = d * b + r
  BY DivLaw
<1>. HIDE DEF d, r
<1>2. \A u, v \in Nat : u * v \in Nat
  OBVIOUS
<1>3. d * b \in Nat /\ q * b \in Nat
  BY <1>1, <1>2
<1>4. CASE d = q
  BY <1>1, <1>3, <1>4 DEF d
<1>5. CASE d < q
  <2>1. d * b + b <= q * b
    BY <1>1, <1>5, TimesGrows
  <2>. QED BY <1>1, <1>3, <1>5, <2>1 DEF d
<1>6. CASE q < d
  <2>1. q * b + b <= d * b
    BY <1>1, <1>6, TimesGrows
  <2>. QED BY <1>1, <1>3, <1>6, <2>1 DEF d
<1>. QED BY <1>1, <1>4, <1>5, <1>6

\* G cuts m elements into blocks of b.
Blocked(G, m, b) ==
  m \in Nat \ {0} /\ b \in Nat \ {0} /\ G = [i \in 1..m |-> (i - 1) \div b]

LEMMA BlockOf ==
  ASSUME NEW G, NEW m, NEW b, Blocked(G, m, b), NEW i \in 1..m, NEW q \in Nat
  PROVE  G[i] \in Nat /\ (G[i] = q <=> q * b + 1 <= i /\ i <= q * b + b) /\ q * b \in Nat
<1>1. m \in Nat /\ b \in Nat \ {0} /\ i - 1 \in Nat /\ G[i] = (i - 1) \div b
  BY DEF Blocked
<1>2. G[i] = q <=> q * b <= i - 1 /\ i - 1 < q * b + b
  BY <1>1, DivIs
<1>3. \A u, v \in Nat : u * v \in Nat
  OBVIOUS
<1>4. q * b \in Nat
  BY <1>1, <1>3
<1>5. G[i] \in Nat
  BY <1>1, DivLaw
<1>. HIDE DEF Blocked
<1>. QED BY <1>1, <1>2, <1>4, <1>5

\* Where an element is within its block.
LEMMA BlockPlace ==
  ASSUME NEW G, NEW m, NEW b, Blocked(G, m, b), NEW i \in 1..m
  PROVE  Place(G, i) = i - G[i] * b /\ G[i] \in Nat /\ G[i] * b \in Nat /\ G[i] * b < i
<1> DEFINE q == G[i]
<1>0. 0 \in Nat
  OBVIOUS
<1>1. q \in Nat /\ m \in Nat
  BY <1>0, BlockOf DEF Blocked
<1>. HIDE DEF q
<1>2. \A j \in 1..m : (G[j] = q <=> q * b + 1 <= j /\ j <= q * b + b) /\ q * b \in Nat
  BY <1>1, BlockOf
<1>3. q * b \in Nat /\ b \in Nat /\ q * b + 1 <= i /\ i <= q * b + b
  BY <1>1, <1>2 DEF q, Blocked
<1>4. {j \in 1..i : G[j] = G[i]} = (q * b + 1)..i
  <2>1. \A j \in 1..i : j \in 1..m
    BY <1>1
  <2>2. \A j \in 1..i : G[j] = G[i] <=> q * b + 1 <= j
    <3> TAKE j \in 1..i
    <3>1. G[j] = q <=> q * b + 1 <= j /\ j <= q * b + b
      BY <1>2, <2>1
    <3>. QED BY <1>3, <3>1 DEF q
  <2>3. \A j \in (q * b + 1)..i : j \in 1..i
    BY <1>3
  <2>. QED BY <1>3, <2>2, <2>3
<1>5. Cardinality((q * b + 1)..i) = i - (q * b + 1) + 1
  <2>1. q * b + 1 \in Int /\ i \in Int /\ ~(q * b + 1 > i)
    BY <1>3
  <2>. QED BY <2>1, FS_Interval
<1>6. i - (q * b + 1) + 1 = i - q * b
  BY <1>3
<1>7. Place(G, i) = i - q * b
  BY <1>4, <1>5, <1>6 DEF Place
<1>. QED BY <1>1, <1>3, <1>7 DEF q

\* A block that begins within the tensor is full or ends it.
LEMMA BlockSize ==
  ASSUME NEW G, NEW m, NEW b, Blocked(G, m, b), NEW q \in Nat, q * b < m
  PROVE  /\ Size(G, q) = Min({b, m - q * b}) /\ q * b \in Nat
         /\ Size(G, q) \in 1..b /\ q * b + Size(G, q) <= m
         /\ Size(G, q) = b \/ q * b + Size(G, q) = m
         /\ \A p \in 1..Size(G, q) : Member(G, q, p) = q * b + p /\ q * b + p \in 1..m
<1> DEFINE z == Min({b, m - q * b})
<1>1. m \in Nat /\ b \in Nat \ {0} /\ G \in [1..m -> Nat]
  <2>1. G = [i \in 1..m |-> (i - 1) \div b] /\ m \in Nat /\ b \in Nat \ {0}
    BY DEF Blocked
  <2>2. \A i \in 1..m : (i - 1) \div b \in Nat
    <3> TAKE i \in 1..m
    <3>1. i - 1 \in Nat
      BY <2>1
    <3>. QED BY <2>1, <3>1, DivLaw
  <2>. QED BY <2>1, <2>2
<1>2. \A j \in 1..m : (G[j] = q <=> q * b + 1 <= j /\ j <= q * b + b) /\ q * b \in Nat
  BY BlockOf
<1>3. q * b \in Nat
  <2>1. \A u, v \in Nat : u * v \in Nat
    OBVIOUS
  <2>. QED BY <1>1, <2>1
<1>4. z \in {b, m - q * b} /\ z <= b /\ z <= m - q * b
  <2>1. m - q * b \in Int /\ b \in Int
    BY <1>1, <1>3
  <2>. HIDE DEF z
  <2>. QED BY <2>1, PairExtremes DEF z
<1>. HIDE DEF z
<1>5. z \in 1..b /\ q * b + z <= m /\ (z = b \/ q * b + z = m)
  BY <1>1, <1>3, <1>4
<1>6. {j \in 1..m : G[j] = q} = (q * b + 1)..(q * b + z)
  <2>1. \A j \in 1..m : G[j] = q <=> q * b + 1 <= j /\ j <= q * b + z
    <3> TAKE j \in 1..m
    <3>1. G[j] = q <=> q * b + 1 <= j /\ j <= q * b + b
      BY <1>2
    <3>2. j <= q * b + z <=> j <= q * b + b
      BY <1>1, <1>3, <1>5
    <3>. QED BY <3>1, <3>2
  <2>2. \A j \in (q * b + 1)..(q * b + z) : j \in 1..m
    BY <1>1, <1>3, <1>5
  <2>. QED BY <1>1, <1>3, <1>5, <2>1, <2>2
<1>7. Size(G, q) = z
  <2>1. DOMAIN G = 1..m
    BY <1>1
  <2>2. q * b + 1 \in Int /\ q * b + z \in Int /\ ~(q * b + 1 > q * b + z)
        /\ (q * b + z) - (q * b + 1) + 1 = z
    BY <1>1, <1>3, <1>5
  <2>3. Cardinality((q * b + 1)..(q * b + z)) = (q * b + z) - (q * b + 1) + 1
    BY <2>2, FS_Interval
  <2>. QED BY <1>6, <2>1, <2>2, <2>3 DEF Size
<1>8. ASSUME NEW p \in 1..z PROVE Member(G, q, p) = q * b + p /\ q * b + p \in 1..m
  <2>1. q * b + p \in 1..m /\ q * b + 1 <= q * b + p /\ q * b + p <= q * b + b
        /\ (q * b + p) - q * b = p
    BY <1>1, <1>3, <1>5
  <2>2. G[q * b + p] = q
    BY <1>2, <2>1
  <2>3. Place(G, q * b + p) = (q * b + p) - G[q * b + p] * b
    BY <2>1, BlockPlace
  <2>4. Place(G, q * b + p) = p
    BY <2>1, <2>2, <2>3
  <2>5. Member(G, G[q * b + p], Place(G, q * b + p)) = q * b + p
    BY <1>1, <2>1, MemberAtPlace
  <2>. QED BY <2>1, <2>2, <2>4, <2>5
<1>. QED BY <1>3, <1>5, <1>7, <1>8 DEF z

\* Where block q lies: st is its first place less one and z its length.
BlockAt(G, m, b, st, z) ==
  /\ z = Min({b, m - st}) /\ st \in Nat /\ z \in 1..b /\ st + z <= m
  /\ z = b \/ st + z = m

LEMMA BlockIs ==
  ASSUME NEW G, NEW m, NEW b, Blocked(G, m, b), NEW q \in Nat, q * b < m
  PROVE  BlockAt(G, m, b, q * b, Size(G, q))
BY BlockSize DEF BlockAt

\* Every block up to the last begins within the tensor.
LEMMA BlockBegins ==
  ASSUME NEW G, NEW m, NEW b, Blocked(G, m, b)
  PROVE  /\ G \in [1..m -> Nat] /\ NGroups(G) \in Nat \ {0}
         /\ \A g \in 1..NGroups(G) : g - 1 \in Nat /\ (g - 1) * b < m /\ (g - 1) * b \in Nat
         /\ m <= NGroups(G) * b
<1>1. m \in Nat \ {0} /\ b \in Nat \ {0} /\ G = [i \in 1..m |-> (i - 1) \div b]
  BY DEF Blocked
<1>2. G \in [1..m -> Nat]
  <2>1. \A i \in 1..m : (i - 1) \div b \in Nat
    <3> TAKE i \in 1..m
    <3>1. i - 1 \in Nat
      BY <1>1
    <3>. QED BY <1>1, <3>1, DivLaw
  <2>. QED BY <1>1, <2>1
<1>3. NGroups(G) \in Nat \ {0} /\ \A i \in 1..m : G[i] + 1 \in 1..NGroups(G)
  BY <1>1, <1>2, NGroupsType
<1>4. PICK j \in 1..m : NGroups(G) = G[j] + 1
  <2> DEFINE S == {G[i] : i \in 1..m}
  <2>1. DOMAIN G = 1..m
    BY <1>2
  <2>2. IsFiniteSet(S)
    BY ZenonT(60), <1>1, <2>1, ValuesFinite
  <2>3. 1 \in 1..m
    BY <1>1
  <2>4. S \subseteq Int /\ S # {}
    BY <1>2, <2>3
  <2>5. NGroups(G) = Max(S) + 1
    BY <2>1 DEF NGroups, Range
  <2>6. \A y \in S : \E i \in 1..m : y = G[i]
    OBVIOUS
  <2>. HIDE DEF S
  <2>7. Max(S) \in S
    BY <2>2, <2>4, FiniteMax
  <2>. QED BY <2>5, <2>6, <2>7
<1>5. G[j] \in Nat /\ G[j] * b \in Nat /\ G[j] * b < j
  BY BlockPlace
<1>6. ASSUME NEW g \in 1..NGroups(G)
      PROVE  g - 1 \in Nat /\ (g - 1) * b < m /\ (g - 1) * b \in Nat
  <2>1. g - 1 \in Nat /\ g - 1 <= G[j] /\ j <= m
    BY <1>1, <1>3, <1>4, <1>5
  <2>2. \A u, v \in Nat : u * v \in Nat
    OBVIOUS
  <2>3. (g - 1) * b \in Nat
    BY <1>1, <2>1, <2>2
  <2>4. CASE g - 1 = G[j]
    <3>1. (g - 1) * b = G[j] * b
      BY <2>4
    <3>. QED BY SMTT(30), <1>1, <1>5, <2>1, <2>3, <3>1
  <2>5. CASE g - 1 < G[j]
    <3>1. (g - 1) * b + b <= G[j] * b
      BY <1>1, <1>5, <2>1, <2>5, TimesGrows
    <3>. QED BY <1>1, <1>5, <2>1, <2>3, <3>1
  <2>6. g - 1 = G[j] \/ g - 1 < G[j]
    BY <1>5, <2>1
  <2>. QED BY Zenon, <2>1, <2>3, <2>4, <2>5, <2>6
<1>7. m <= NGroups(G) * b
  <2>1. m \in 1..m /\ m \in Nat
    BY <1>1
  <2>2. G[m] \in Nat /\ G[m] < NGroups(G)
    BY <1>2, <1>3, <2>1
  <2>3. G[m] * b + b <= NGroups(G) * b
    BY <1>1, <1>3, <2>2, TimesGrows
  <2>4. m <= G[m] * b + b /\ G[m] * b \in Nat
    BY <2>1, <2>2, BlockOf
  <2>5. \A u, v \in Nat : u * v \in Nat
    OBVIOUS
  <2>6. NGroups(G) * b \in Nat
    BY <1>1, <1>3, <2>5
  <2>. QED BY <1>1, <2>3, <2>4, <2>6
<1>. QED BY <1>2, <1>3, <1>6, <1>7
-----------------------------------------------------------------------------
(* The GPU encoder.                                                          *)

DevSeg(x, c, g) == Segment(x, GroupsOf(x, c), g - 1)
DevStats(x, c, g) == GroupStats(DevSeg(x, c, g))
DevFits(x, c, d, g) ==
  /\ ~HasNonFinite(DevSeg(x, c, g))
  /\ HalfStepFits(DevStats(x, c, g).max - DevStats(x, c, g).min, Budget2(x, c, DevStats(x, c, g)),
                  c.width, d)
DevLo(x, c, d, g) == IF DevFits(x, c, d, g) THEN DevStats(x, c, g).min ELSE 0
DevScale(x, c, d, g) ==
  IF DevFits(x, c, d, g) THEN Scale(DevStats(x, c, g).max - DevStats(x, c, g).min, c.width, d) ELSE 0
DevCodes(x, c, d) ==
  KernelCodes(x, GroupsOf(x, c),
              [g \in 1..NGroups(GroupsOf(x, c)) |-> DevLo(x, c, d, g)],
              [g \in 1..NGroups(GroupsOf(x, c)) |-> DevScale(x, c, d, g)], c.width)
DevBack(x, c, d, g) ==
  [p \in DOMAIN DevSeg(x, c, g) |->
     Dequantise(DevLo(x, c, d, g), DevCodes(x, c, d)[(g - 1) * c.block + p], DevScale(x, c, d, g), x.dtype)]
DevOk(x, c, d, g) == DevFits(x, c, d, g) /\ ~Missed(DevSeg(x, c, g), DevBack(x, c, d, g), c)
DevWidths(x, c, d) ==
  [g \in 1..NGroups(GroupsOf(x, c)) |-> IF DevOk(x, c, d, g) THEN c.width ELSE Raw]

\* What the GPU path writes.
DevWrites(x, c, d, n, buf, s) ==
  /\ buf = Written(buf.header, buf.widths, buf.mins, buf.scales, buf.body)
  /\ \E w : buf.header = HeaderOf(x, c, w, n)
  /\ buf.widths = DevWidths(x, c, d)
  /\ buf.mins = [g \in 1..n |-> DevStats(x, c, g).min]
  /\ buf.scales = [g \in 1..n |-> IF DevOk(x, c, d, g) THEN DevScale(x, c, d, g) ELSE 0]
  /\ buf.body = Assembled(x, c, KernelPack(DevCodes(x, c, d), c.width), DevWidths(x, c, d))
  /\ s.bytes = PayloadBytes(buf)
  /\ s.nonfinite = Cardinality({g \in 1..n : HasNonFinite(DevSeg(x, c, g))})

LEMMA GpuWrites ==
  ASSUME NEW x, NEW c, NEW d, ~(Len(x.data) < c.block), c.allocation = "blockwise"
  PROVE  DevWrites(x, c, d, NGroups(GroupsOf(x, c)), GpuEncode(x, c, d).buf, GpuEncode(x, c, d).stats)
<1> DEFINE G == Partition(x.shape, "blockwise", c.block)
           n == NGroups(G)
           seg == [g \in 1..n |-> Segment(x, G, g - 1)]
           b == [g \in 1..n |-> GroupStats(seg[g])]
           fits == [g \in 1..n |->
                      /\ ~HasNonFinite(seg[g])
                      /\ HalfStepFits(b[g].max - b[g].min, Budget2(x, c, b[g]), c.width, d)]
           lo == [g \in 1..n |-> IF fits[g] THEN b[g].min ELSE 0]
           scale == [g \in 1..n |-> IF fits[g] THEN Scale(b[g].max - b[g].min, c.width, d) ELSE 0]
           codes == KernelCodes(x, G, lo, scale, c.width)
           rec == [g \in 1..n |-> [k \in DOMAIN seg[g] |->
                     Dequantise(lo[g], codes[(g - 1) * c.block + k], scale[g], x.dtype)]]
           ok == [g \in 1..n |-> fits[g] /\ ~Missed(seg[g], rec[g], c)]
           widths == [g \in 1..n |-> IF ok[g] THEN c.width ELSE Raw]
           mins == [g \in 1..n |-> b[g].min]
           scales == [g \in 1..n |-> IF ok[g] THEN scale[g] ELSE 0]
           buf == Written(HeaderOf(x, c, c.width, n), widths, mins, scales,
                          Assembled(x, c, KernelPack(codes, c.width), widths))
           s == [bytes |-> PayloadBytes(buf), error |-> Undefined,
                 nonfinite |-> Cardinality({g \in 1..n : HasNonFinite(seg[g])}),
                 blocks |-> n, reason |-> "none"]
<1>0. GpuEncode(x, c, d)
        = IF Len(x.data) < c.block THEN ReferenceEncode(x, c) ELSE [buf |-> buf, stats |-> s]
  BY Zenon DEF GpuEncode
<1>1. GpuEncode(x, c, d) = [buf |-> buf, stats |-> s]
  <2>. HIDE DEF buf, s
  <2>. QED BY <1>0
<1>18. G = GroupsOf(x, c)
  BY DEF GroupsOf
<1>2. GpuEncode(x, c, d).buf = buf /\ GpuEncode(x, c, d).stats = s
  <2>. HIDE DEF buf, s
  <2>. QED BY <1>1
<1>. HIDE DEF n, G
<1>3. \A g \in 1..n : seg[g] = DevSeg(x, c, g)
  BY <1>18 DEF DevSeg
<1>19. n = NGroups(GroupsOf(x, c))
  BY <1>18 DEF n
<1>. HIDE DEF seg
<1>4. \A g \in 1..n : b[g] = DevStats(x, c, g)
  BY <1>3 DEF DevStats
<1>. HIDE DEF b
<1>5. \A g \in 1..n : fits[g] = DevFits(x, c, d, g)
  BY <1>3, <1>4 DEF DevFits
<1>. HIDE DEF fits
<1>6. lo = [g \in 1..n |-> DevLo(x, c, d, g)]
  BY <1>4, <1>5 DEF DevLo
<1>7. scale = [g \in 1..n |-> DevScale(x, c, d, g)]
  BY <1>4, <1>5 DEF DevScale
<1>. HIDE DEF lo, scale
<1>8. codes = DevCodes(x, c, d)
  BY <1>6, <1>7, <1>18, <1>19 DEF DevCodes
<1>. HIDE DEF codes
<1>9. \A g \in 1..n : rec[g] = DevBack(x, c, d, g)
  <2> TAKE g \in 1..n
  <2>1. lo[g] = DevLo(x, c, d, g) /\ scale[g] = DevScale(x, c, d, g)
    BY <1>6, <1>7
  <2>. QED BY <1>3, <1>8, <2>1 DEF DevBack
<1>. HIDE DEF rec
<1>10. \A g \in 1..n : ok[g] = DevOk(x, c, d, g)
  BY <1>3, <1>5, <1>9 DEF DevOk
<1>. HIDE DEF ok
<1>11. widths = DevWidths(x, c, d)
  BY <1>10, <1>19 DEF DevWidths
<1>12. mins = [g \in 1..n |-> DevStats(x, c, g).min]
  BY <1>4
<1>13. scales = [g \in 1..n |-> IF DevOk(x, c, d, g) THEN DevScale(x, c, d, g) ELSE 0]
  BY <1>7, <1>10
<1>14. {g \in 1..n : HasNonFinite(seg[g])} = {g \in 1..n : HasNonFinite(DevSeg(x, c, g))}
  BY <1>3
<1>. HIDE DEF widths, mins, scales
<1>15. /\ buf.header = HeaderOf(x, c, c.width, n) /\ buf.widths = widths /\ buf.mins = mins
       /\ buf.scales = scales
       /\ buf.body = Assembled(x, c, KernelPack(codes, c.width), widths)
  BY DEF Written
<1>20. buf = Written(buf.header, buf.widths, buf.mins, buf.scales, buf.body)
  BY DEF Written
<1>. HIDE DEF buf
<1>16. s.bytes = PayloadBytes(buf) /\ s.nonfinite = Cardinality({g \in 1..n : HasNonFinite(seg[g])})
  OBVIOUS
<1>. HIDE DEF s
<1>17. DevWrites(x, c, d, n, buf, s)
  BY <1>8, <1>11, <1>12, <1>13, <1>14, <1>15, <1>16, <1>20 DEF DevWrites
<1>. QED BY <1>2, <1>17, <1>19

\* Without a value that is not finite, the kernel's extremes are the host's.
LEMMA StatsAreBounds ==
  ASSUME NEW seg \in Seq(Int), Len(seg) > 0, ~HasNonFinite(seg)
  PROVE  GroupStats(seg) = GroupBounds(seg)
<1> DEFINE S == {seg[p] : p \in DOMAIN seg}
           F == {seg[p] : p \in DOMAIN seg} \ {NaN, Inf}
           T == {IF Finite(seg[p]) THEN seg[p] ELSE 0 : p \in DOMAIN seg}
<1>1. \A p \in DOMAIN seg : Finite(seg[p]) /\ seg[p] \in Int
  BY DEF HasNonFinite
<1>2. \A p \in DOMAIN seg : seg[p] # NaN /\ seg[p] # Inf
  BY <1>1 DEF Finite, NaN, Inf
<1>3. F = S /\ T = S
  BY <1>1, <1>2
<1>4. S # {}
  <2>1. 1 \in DOMAIN seg
    OBVIOUS
  <2>. QED BY <2>1
<1>5. GroupStats(seg) = IF F = {} THEN [min |-> Inf, max |-> -Inf] ELSE [min |-> Min(F), max |-> Max(F)]
  BY DEF GroupStats
<1>6. GroupBounds(seg) = [min |-> Min(T), max |-> Max(T)]
  BY DEF GroupBounds
<1>. HIDE DEF F, T, S
<1>. QED BY <1>3, <1>4, <1>5, <1>6

\* The numbers of a group, and what the kernel knows of one it takes.
LEMMA DevTypes ==
  ASSUME NEW x, NEW c, WellFormed(x, c), c.width # Adaptive, NEW d \in Int,
         NEW g, Len(DevSeg(x, c, g)) > 0
  PROVE  /\ DevLo(x, c, d, g) \in Int /\ DevScale(x, c, d, g) \in Nat /\ c.width \in Widths
         /\ DevFits(x, c, d, g) =>
              DevStats(x, c, g) = GroupBounds(DevSeg(x, c, g)) /\ ~HasNonFinite(DevSeg(x, c, g))
<1> DEFINE seg == DevSeg(x, c, g)
           b == DevStats(x, c, g)
<1>1. c.width \in Widths /\ Grouped(x, GroupsOf(x, c))
  BY InputFacts
<1>2. seg \in Seq(Int) /\ Len(seg) > 0
  BY <1>1, SegmentType DEF DevSeg
<1>. HIDE DEF seg
<1>3. CASE ~DevFits(x, c, d, g)
  BY <1>1, <1>3 DEF DevLo, DevScale
<1>4. CASE DevFits(x, c, d, g)
  <2>1. ~HasNonFinite(seg)
    BY <1>4 DEF DevFits, seg
  <2>2. b = GroupBounds(seg)
    BY <1>2, <2>1, StatsAreBounds DEF DevStats, seg
  <2>3. b.min \in Int /\ b.max \in Int /\ b.min <= b.max
    BY <1>2, <2>2, GroupBoundsType
  <2>. HIDE DEF b
  <2>5. DevLo(x, c, d, g) = b.min /\ DevScale(x, c, d, g) = Scale(b.max - b.min, c.width, d)
    BY <1>4 DEF DevLo, DevScale, b
  <2>6. b.max - b.min \in Nat
    BY <2>3
  <2>7. Scale(b.max - b.min, c.width, d) \in Nat
    BY <1>1, <2>6, ScaleType
  <2>. QED BY <1>1, <2>1, <2>2, <2>3, <2>5, <2>7 DEF b, seg
<1>. QED BY <1>3, <1>4
\* A tensor and a configuration the GPU path encodes.
DevTakes(x, c) ==
  WellFormed(x, c) /\ c.allocation = "blockwise" /\ c.width # Adaptive /\ ~(Len(x.data) < c.block)

DevGroupCodes(x, c, d, g) ==
  GroupCodes(DevSeg(x, c, g), DevLo(x, c, d, g), DevScale(x, c, d, g), c.width)

LEMMA DevBlocked ==
  ASSUME NEW x, NEW c, DevTakes(x, c)
  PROVE  Blocked(GroupsOf(x, c), Len(x.data), c.block)
<1>1. Numel(x.shape) = Len(x.data) /\ Len(x.data) \in Nat /\ c.block \in Nat \ {0}
  BY InputFacts DEF DevTakes
<1>2. Len(x.data) \in Nat \ {0} /\ c.allocation = "blockwise"
  BY <1>1 DEF DevTakes
<1>3. GroupsOf(x, c) = [i \in 1..Len(x.data) |-> (i - 1) \div c.block]
  <2> DEFINE val(i) ==
               CASE c.allocation = "blockwise" \/ Len(x.shape) < 2 -> (i - 1) \div c.block
                 [] c.allocation = "per_channel" /\ Len(x.shape) = 2 -> (i - 1) % x.shape[2]
                 [] c.allocation = "per_token" /\ Len(x.shape) = 2 -> (i - 1) \div x.shape[2]
  <2>1. GroupsOf(x, c) = [i \in 1..Len(x.data) |-> val(i)]
    BY <1>1 DEF GroupsOf, Partition
  <2>2. \A i \in 1..Len(x.data) : val(i) = (i - 1) \div c.block
    BY <1>2
  <2>. HIDE DEF val
  <2>. QED BY <2>1, <2>2
<1>. QED BY <1>1, <1>2, <1>3 DEF Blocked

\* Block g: where it begins, how long it is, and which elements it holds.
DevPlaced(x, c, g, st, z) ==
  /\ st = (g - 1) * c.block /\ st \in Nat /\ z \in 1..c.block /\ st + z <= Len(x.data)
  /\ z = c.block \/ st + z = Len(x.data)
  /\ z = Min({c.block, Len(x.data) - st})
  /\ DevSeg(x, c, g) \in Seq(Int) /\ Len(DevSeg(x, c, g)) = z
  /\ DevSeg(x, c, g) = SubSeq(x.data, st + 1, st + z)
  /\ \A p \in 1..z : /\ DevSeg(x, c, g)[p] = x.data[st + p]
                     /\ GroupsOf(x, c)[st + p] = g - 1 /\ st + p \in 1..Len(x.data)

LEMMA DevBlock ==
  ASSUME NEW x, NEW c, DevTakes(x, c), NEW g \in 1..NGroups(GroupsOf(x, c))
  PROVE  DevPlaced(x, c, g, (g - 1) * c.block, Size(GroupsOf(x, c), g - 1))
<1> DEFINE G == GroupsOf(x, c)
           m == Len(x.data)
           b == c.block
           st == (g - 1) * b
           z == Size(G, g - 1)
<1>1. Blocked(G, m, b) /\ Grouped(x, G) /\ m \in Nat /\ b \in Nat \ {0} /\ x.data \in Seq(Int)
  BY DevBlocked, InputFacts DEF DevTakes, Grouped
<1>. HIDE DEF G, m, b
<1>2. g - 1 \in Nat /\ (g - 1) * b < m /\ (g - 1) * b \in Nat
  <2>1. g \in 1..NGroups(G)
    BY DEF G
  <2>. QED BY <1>1, <2>1, BlockBegins
<1>3. /\ z = Min({b, m - st}) /\ st \in Nat /\ z \in 1..b /\ st + z <= m
      /\ z = b \/ st + z = m
      /\ \A p \in 1..z : Member(G, g - 1, p) = st + p /\ st + p \in 1..m
  <2>. HIDE DEF z, st
  <2>1. g - 1 \in Nat /\ (g - 1) * b < m
    BY <1>2
  <2>2. BlockAt(G, m, b, (g - 1) * b, Size(G, g - 1))
    BY <1>1, <2>1, BlockIs
  <2>3. BlockAt(G, m, b, st, z)
    BY Zenon, <2>2 DEF st, z
  <2>4. \A p \in 1..z : Member(G, g - 1, p) = st + p /\ st + p \in 1..m
    <3>1. \A p \in 1..Size(G, g - 1) : Member(G, g - 1, p) = (g - 1) * b + p
                                       /\ (g - 1) * b + p \in 1..m
      BY <1>1, <2>1, BlockSize
    <3>. QED BY Zenon, <3>1 DEF st, z
  <2>. QED BY <2>3, <2>4 DEF BlockAt
<1>. HIDE DEF st
<1>4. DevSeg(x, c, g) \in Seq(Int) /\ Len(DevSeg(x, c, g)) = z /\ z \in Nat
  BY <1>1, SegmentType DEF DevSeg, G
<1>5. \A p \in 1..z : DevSeg(x, c, g)[p] = x.data[st + p] /\ G[st + p] = g - 1
  <2> TAKE p \in 1..z
  <2>1. Member(G, g - 1, p) = st + p
    BY <1>3
  <2>2. DevSeg(x, c, g)[p] = x.data[Member(G, g - 1, p)]
    BY DEF DevSeg, Segment, G
  <2>3. G[Member(G, g - 1, p)] = g - 1
    <3>1. G \in [1..m -> Nat]
      BY <1>1 DEF Grouped, m
    <3>. QED BY <1>1, <3>1, MemberType
  <2>. QED BY <2>1, <2>2, <2>3
<1>6. DevSeg(x, c, g) = SubSeq(x.data, st + 1, st + z)
  <2> DEFINE s == SubSeq(x.data, st + 1, st + z)
  <2>. HIDE DEF z
  <2>1. s = [p \in 1..((st + z) - (st + 1) + 1) |-> x.data[p + (st + 1) - 1]]
    <3>1. \A q \in Seq(Int) : \A a, e \in Int :
            SubSeq(q, a, e) = [p \in 1..(e - a + 1) |-> q[p + a - 1]]
      OBVIOUS
    <3>2. st + 1 \in Int /\ st + z \in Int
      BY <1>1, <1>3
    <3>. QED BY Zenon, <1>1, <3>1, <3>2
  <2>2. (st + z) - (st + 1) + 1 = z /\ \A p \in 1..z : p + (st + 1) - 1 = st + p
    BY <1>3
  <2>3. \A p \in 1..z : x.data[p + (st + 1) - 1] = DevSeg(x, c, g)[p]
    BY Zenon, <1>5, <2>2
  <2>4. DevSeg(x, c, g) = [p \in 1..z |-> DevSeg(x, c, g)[p]]
    BY <1>4
  <2>5. s = [p \in 1..z |-> x.data[p + (st + 1) - 1]]
    <3>. HIDE DEF s
    <3>. QED BY Zenon, <2>1, <2>2
  <2>. HIDE DEF s
  <2>6. DevSeg(x, c, g) = s
    BY Zenon, <2>3, <2>4, <2>5
  <2>. QED BY <2>6 DEF s
<1>7. DevPlaced(x, c, g, st, z)
  <2>1. st = (g - 1) * c.block
    BY DEF st, b
  <2>. HIDE DEF z
  <2>. QED BY <1>3, <1>4, <1>5, <1>6, <2>1 DEF DevPlaced, G, m, b
<1>. QED BY <1>7 DEF st, z, G, b

\* The kernel's codes are those of the blocks, one behind the other.
DevCodesAt(x, c, d, g, st, z) ==
  /\ DevGroupCodes(x, c, d, g) \in Seq(Codes(c.width)) /\ Len(DevGroupCodes(x, c, d, g)) = z
  /\ \A p \in 1..z : DevCodes(x, c, d)[st + p] = DevGroupCodes(x, c, d, g)[p]

LEMMA DevCodesPlaced ==
  ASSUME NEW x, NEW c, DevTakes(x, c), NEW d \in Int
  PROVE  /\ DevCodes(x, c, d) \in Seq(Codes(c.width)) /\ Len(DevCodes(x, c, d)) = Len(x.data)
         /\ c.width \in Widths
         /\ \A g \in 1..NGroups(GroupsOf(x, c)) :
              DevCodesAt(x, c, d, g, (g - 1) * c.block, Size(GroupsOf(x, c), g - 1))
<1> DEFINE G == GroupsOf(x, c)
           m == Len(x.data)
           n == NGroups(G)
           w == c.width
           K == DevCodes(x, c, d)
<1>1. Blocked(G, m, c.block) /\ m \in Nat /\ WellFormed(x, c) /\ w \in Widths /\ w # Adaptive
  <2>1. WellFormed(x, c) /\ w # Adaptive
    BY DEF DevTakes
  <2>. QED BY <2>1, DevBlocked, InputFacts
<1>2. G \in [1..m -> Nat] /\ \A i \in 1..m : G[i] + 1 \in 1..n
  <2>1. G \in [1..m -> Nat]
    BY <1>1, BlockBegins
  <2>2. m \in Nat \ {0}
    BY <1>1 DEF Blocked
  <2>. HIDE DEF G, m
  <2>. QED BY <2>1, <2>2, NGroupsType
<1>3. \A g \in 1..n : DevPlaced(x, c, g, (g - 1) * c.block, Size(G, g - 1))
  BY DevBlock
<1>4. \A g \in 1..n : DevLo(x, c, d, g) \in Int /\ DevScale(x, c, d, g) \in Nat
  <2> TAKE g \in 1..n
  <2>1. Len(DevSeg(x, c, g)) > 0
    <3>1. Size(G, g - 1) \in 1..c.block /\ Len(DevSeg(x, c, g)) = Size(G, g - 1)
      BY <1>3 DEF DevPlaced
    <3>. QED BY <3>1
  <2>. QED BY <1>1, <2>1, DevTypes
<1>5. \A i \in 1..m : x.data[i] \in Int
  BY <1>1, InputFacts
<1>. HIDE DEF G, n
<1>6. K = [i \in 1..m |-> Quantise(x.data[i], DevLo(x, c, d, G[i] + 1), DevScale(x, c, d, G[i] + 1), w)]
  <2> DEFINE L == [g \in 1..n |-> DevLo(x, c, d, g)]
             C == [g \in 1..n |-> DevScale(x, c, d, g)]
  <2>1. K = KernelCodes(x, G, L, C, w)
    BY DEF DevCodes, G, n
  <2>2. \A i \in 1..m : L[G[i] + 1] = DevLo(x, c, d, G[i] + 1) /\ C[G[i] + 1] = DevScale(x, c, d, G[i] + 1)
    BY <1>2
  <2>. HIDE DEF L, C, K, w
  <2>3. K = [i \in 1..m |-> Quantise(x.data[i], L[G[i] + 1], C[G[i] + 1], w)]
    BY <1>2, <2>1 DEF KernelCodes
  <2>. QED BY <2>2, <2>3
<1>. HIDE DEF K, w
<1>7. \A i \in 1..m : Quantise(x.data[i], DevLo(x, c, d, G[i] + 1), DevScale(x, c, d, G[i] + 1), w) \in Codes(w)
  <2> TAKE i \in 1..m
  <2>1. G[i] + 1 \in 1..n
    BY <1>2
  <2>2. DevLo(x, c, d, G[i] + 1) \in Int /\ DevScale(x, c, d, G[i] + 1) \in Nat /\ x.data[i] \in Int
    BY <1>4, <1>5, <2>1
  <2>. QED BY <1>1, <2>2, QuantiseType
<1>8. K \in Seq(Codes(w)) /\ Len(K) = m
  <2>1. K \in [1..m -> Codes(w)]
    BY Zenon, <1>6, <1>7
  <2>2. \A S : \A q \in Nat : \A f \in [1..q -> S] : f \in Seq(S) /\ Len(f) = q
    OBVIOUS
  <2>. QED BY Zenon, <1>1, <2>1, <2>2
<1>9. ASSUME NEW g \in 1..n
      PROVE  DevCodesAt(x, c, d, g, (g - 1) * c.block, Size(G, g - 1))
  <2> DEFINE st == (g - 1) * c.block
             z == Size(G, g - 1)
             seg == DevSeg(x, c, g)
  <2>1. DevPlaced(x, c, g, st, z)
    BY <1>3
  <2>. HIDE DEF st, z
  <2>2. seg \in Seq(Int) /\ Len(seg) = z /\ DOMAIN seg = 1..z
    <3>1. seg \in Seq(Int) /\ Len(seg) = z
      BY <2>1 DEF DevPlaced
    <3>. HIDE DEF seg
    <3>. QED BY <3>1
  <2>3. \A p \in 1..z : seg[p] = x.data[st + p] /\ G[st + p] = g - 1 /\ st + p \in 1..m
    BY <2>1 DEF DevPlaced, G, m
  <2>4. DevGroupCodes(x, c, d, g) = GroupCodes(seg, DevLo(x, c, d, g), DevScale(x, c, d, g), w)
    BY DEF DevGroupCodes, w
  <2>. HIDE DEF seg
  <2>5. DevGroupCodes(x, c, d, g) \in Seq(Codes(w)) /\ Len(DevGroupCodes(x, c, d, g)) = z
    BY <1>1, <1>4, <2>2, <2>4, GroupCodesType
  <2>6. ASSUME NEW p \in 1..z PROVE K[st + p] = DevGroupCodes(x, c, d, g)[p]
    <3>1. st + p \in 1..m /\ G[st + p] + 1 = g /\ x.data[st + p] = seg[p] /\ p \in DOMAIN seg
      <4>1. G[st + p] = g - 1 /\ g \in Int /\ \A a \in Int : (a - 1) + 1 = a
        BY <2>3
      <4>. QED BY <2>2, <2>3, <4>1
    <3>2. K[st + p] = Quantise(x.data[st + p], DevLo(x, c, d, G[st + p] + 1),
                               DevScale(x, c, d, G[st + p] + 1), w)
      BY Zenon, <1>6, <3>1
    <3>3. DevGroupCodes(x, c, d, g)[p] = Quantise(seg[p], DevLo(x, c, d, g), DevScale(x, c, d, g), w)
      BY <2>4, <3>1 DEF GroupCodes
    <3>. QED BY Zenon, <3>1, <3>2, <3>3
  <2>7. DevCodesAt(x, c, d, g, st, z)
    BY <2>5, <2>6 DEF DevCodesAt, K, w
  <2>. QED BY <2>7 DEF st, z
<1>. QED BY <1>1, <1>8, <1>9 DEF K, G, n, w, m
\* Blocks of whole bytes: t bytes each.
LEMMA WholeCut ==
  ASSUME NEW b \in Nat \ {0}, NEW w \in Widths, (b * w) % 8 = 0
  PROVE  /\ PackedBytes(b, w) \in Nat \ {0}
         /\ \A q \in Nat : /\ q * b \in Nat /\ ((q * b) * w) % 8 = 0
                           /\ PackedBytes(q * b, w) = q * PackedBytes(b, w)
<1> DEFINE a == b * w
           t == a \div 8
<1>1. w \in Nat \ {0} /\ a \in Nat \ {0}
  <2>1. w \in Nat \ {0}
    BY DEF Widths
  <2>2. \A p, q \in Nat \ {0} : p * q \in Nat \ {0}
    OBVIOUS
  <2>. QED BY <2>1, <2>2
<1>2. \A q \in Nat : q * b \in Nat /\ (q * b) * w = q * a
  <2>1. \A q, p, r \in Nat : q * p \in Nat /\ (q * p) * r = q * (p * r)
    OBVIOUS
  <2>. QED BY <1>1, <2>1
<1>3. a % 8 = 0
  OBVIOUS
<1>. HIDE DEF a
<1>4. t \in Nat \ {0} /\ a = 8 * t
  BY <1>1, <1>3
<1>. HIDE DEF t
<1>5. \A q \in Nat : q * t \in Nat /\ q * a = 8 * (q * t)
  <2>1. \A q, r \in Nat : q * r \in Nat /\ q * (8 * r) = 8 * (q * r)
    OBVIOUS
  <2>. QED BY <1>4, <2>1
<1>6. \A r \in Nat : (8 * r) % 8 = 0 /\ (8 * r + 7) \div 8 = r
  OBVIOUS
<1>7. PackedBytes(b, w) = t
  <2>1. PackedBytes(b, w) = (a + 7) \div 8
    BY DEF PackedBytes, a
  <2>. QED BY <1>4, <1>6, <2>1
<1>8. ASSUME NEW q \in Nat
      PROVE  q * b \in Nat /\ ((q * b) * w) % 8 = 0 /\ PackedBytes(q * b, w) = q * t
  <2>1. q * b \in Nat /\ (q * b) * w = 8 * (q * t) /\ q * t \in Nat
    BY <1>2, <1>5
  <2>2. PackedBytes(q * b, w) = (8 * (q * t) + 7) \div 8
    BY Zenon, <2>1 DEF PackedBytes
  <2>3. (8 * (q * t)) % 8 = 0 /\ (8 * (q * t) + 7) \div 8 = q * t
    BY Zenon, <1>6, <2>1
  <2>. QED BY Zenon, <2>1, <2>2, <2>3
<1>. QED BY <1>4, <1>7, <1>8

\* The block's bytes in the packed buffer are those of its own codes.
LEMMA DevCut ==
  ASSUME NEW x, NEW c, DevTakes(x, c), NEW d \in Int, (c.block * c.width) % 8 = 0,
         NEW g \in 1..NGroups(GroupsOf(x, c))
  PROVE  Slice(KernelPack(DevCodes(x, c, d), c.width), (g - 1) * c.block,
               Size(GroupsOf(x, c), g - 1), c.width)
           = Pack(DevGroupCodes(x, c, d, g), c.width)
<1> DEFINE K == DevCodes(x, c, d)
           D == DevGroupCodes(x, c, d, g)
           w == c.width
           b == c.block
           st == (g - 1) * b
           z == Size(GroupsOf(x, c), g - 1)
<1>1. /\ K \in Seq(Codes(w)) /\ Len(K) = Len(x.data) /\ w \in Widths
      /\ D \in Seq(Codes(w)) /\ Len(D) = z
      /\ \A p \in 1..z : K[st + p] = D[p]
  <2>1. K \in Seq(Codes(w)) /\ Len(K) = Len(x.data) /\ w \in Widths
    BY DevCodesPlaced
  <2>2. DevCodesAt(x, c, d, g, st, z)
    BY Zenon, DevCodesPlaced
  <2>. QED BY <2>1, <2>2 DEF DevCodesAt
<1>2. /\ st \in Nat /\ z \in 1..b /\ st + z <= Len(x.data)
      /\ z = b \/ st + z = Len(x.data)
  BY DevBlock DEF DevPlaced
<1>3. b \in Nat \ {0} /\ g - 1 \in Nat
  <2>1. Blocked(GroupsOf(x, c), Len(x.data), b)
    BY DevBlocked
  <2>2. b \in Nat \ {0}
    BY <2>1 DEF Blocked
  <2>3. g - 1 \in Nat
    BY <2>1, BlockBegins
  <2>. QED BY <2>2, <2>3
<1>4. (b * w) % 8 = 0
  OBVIOUS
<1>. HIDE DEF K, D, w, b
<1>5. (st * w) % 8 = 0
  BY <1>1, <1>3, <1>4, WholeCut
<1>. HIDE DEF st, z
<1>6. KernelPack(K, w) = Pack(K, w)
  BY <1>1, KernelPacksAlike DEF Widths
<1>7. Slice(Pack(K, w), st, z, w) = Pack(SubSeq(K, st + 1, st + z), w)
  <2>1. (z * w) % 8 = 0 \/ st + z = Len(K)
    BY <1>1, <1>2, <1>4
  <2>2. z \in Nat /\ st \in Nat /\ st + z <= Len(K) /\ w \in {4, 6, 8}
    BY <1>1, <1>2, <1>3 DEF Widths
  <2>. QED BY <1>1, <1>5, <2>1, <2>2, CutIsPack
<1>8. SubSeq(K, st + 1, st + z) = D
  <2>1. \A q \in Seq(Codes(w)) : \A a, e \in Int :
          SubSeq(q, a, e) = [p \in 1..(e - a + 1) |-> q[p + a - 1]]
    OBVIOUS
  <2>2. st + 1 \in Int /\ st + z \in Int /\ (st + z) - (st + 1) + 1 = z
        /\ \A p \in 1..z : p + (st + 1) - 1 = st + p
    BY <1>2, <1>3
  <2>3. SubSeq(K, st + 1, st + z) = [p \in 1..z |-> K[p + (st + 1) - 1]]
    <3>1. SubSeq(K, st + 1, st + z) = [p \in 1..((st + z) - (st + 1) + 1) |-> K[p + (st + 1) - 1]]
      BY Zenon, <1>1, <2>1, <2>2
    <3>2. (st + z) - (st + 1) + 1 = z
      BY <2>2
    <3>. QED BY Zenon, <3>1, <3>2
  <2>4. \A p \in 1..z : K[p + (st + 1) - 1] = D[p]
    BY Zenon, <1>1, <2>2
  <2>5. D = [p \in 1..z |-> D[p]]
    BY <1>1
  <2>. QED BY Zenon, <2>3, <2>4, <2>5
<1>9. Slice(KernelPack(K, w), st, z, w) = Pack(D, w)
  BY <1>6, <1>7, <1>8
<1>. QED BY <1>9 DEF K, D, w, b, st, z
DevChunk(x, c, d, g) ==
  Chunk(DevSeg(x, c, g), DevGroupCodes(x, c, d, g), DevWidths(x, c, d)[g], x.dtype)

LEMMA DevWidthsType ==
  ASSUME NEW x, NEW c, NEW d
  PROVE  /\ DOMAIN DevWidths(x, c, d) = 1..NGroups(GroupsOf(x, c))
         /\ \A g \in 1..NGroups(GroupsOf(x, c)) :
              /\ DevWidths(x, c, d)[g] = IF DevOk(x, c, d, g) THEN c.width ELSE Raw
              /\ DevWidths(x, c, d)[g] \in {c.width, Raw}
BY DEF DevWidths

\* Group by group, _assemble writes the group's chunk.
DevCutOf(x, c, d, g, st, z) ==
  IF DevWidths(x, c, d)[g] = Raw THEN ElementBytes(SubSeq(x.data, st + 1, st + z), x.dtype)
  ELSE Slice(KernelPack(DevCodes(x, c, d), c.width), st, z, c.width)

LEMMA DevCutIsChunk ==
  ASSUME NEW x, NEW c, DevTakes(x, c), NEW d \in Int, (c.block * c.width) % 8 = 0,
         NEW g \in 1..NGroups(GroupsOf(x, c))
  PROVE  DevCutOf(x, c, d, g, (g - 1) * c.block, Min({c.block, Len(x.data) - (g - 1) * c.block}))
           = DevChunk(x, c, d, g)
<1> DEFINE st == (g - 1) * c.block
           z == Min({c.block, Len(x.data) - st})
<1>1. DevPlaced(x, c, g, (g - 1) * c.block, Size(GroupsOf(x, c), g - 1))
  BY DevBlock
<1>2. DevPlaced(x, c, g, st, Size(GroupsOf(x, c), g - 1))
  BY <1>1
<1>3. z = Size(GroupsOf(x, c), g - 1) /\ DevSeg(x, c, g) = SubSeq(x.data, st + 1, st + z)
  <2>1. Size(GroupsOf(x, c), g - 1) = Min({c.block, Len(x.data) - st})
        /\ DevSeg(x, c, g) = SubSeq(x.data, st + 1, st + Size(GroupsOf(x, c), g - 1))
    BY Zenon, <1>2 DEF DevPlaced
  <2>. QED BY Zenon, <2>1
<1>4. Slice(KernelPack(DevCodes(x, c, d), c.width), (g - 1) * c.block,
            Size(GroupsOf(x, c), g - 1), c.width) = Pack(DevGroupCodes(x, c, d, g), c.width)
  BY DevCut
<1>5. Slice(KernelPack(DevCodes(x, c, d), c.width), st, z, c.width)
        = Pack(DevGroupCodes(x, c, d, g), c.width)
  BY Zenon, <1>3, <1>4
<1>6. DevWidths(x, c, d)[g] # Raw => DevWidths(x, c, d)[g] = c.width
  BY DevWidthsType
<1>7. DevCutOf(x, c, d, g, st, z) = DevChunk(x, c, d, g)
  <2>. HIDE DEF st, z
  <2>. QED BY Zenon, <1>3, <1>5, <1>6 DEF DevChunk, Chunk, DevCutOf
<1>. QED BY <1>7

\* The copy of the whole buffer writes the same bytes: every block is t of them.
LEMMA WholeIsChunks ==
  ASSUME NEW x, NEW c, DevTakes(x, c), NEW d \in Int, (c.block * c.width) % 8 = 0,
         Len(x.data) % c.block = 0,
         NEW n, n = NGroups(GroupsOf(x, c)), \A g \in 1..n : DevWidths(x, c, d)[g] # Raw
  PROVE  KernelPack(DevCodes(x, c, d), c.width) = FlattenSeq([g \in 1..n |-> DevChunk(x, c, d, g)])
<1> DEFINE K == DevCodes(x, c, d)
           w == c.width
           b == c.block
           m == Len(x.data)
           t == PackedBytes(b, w)
           P == KernelPack(K, w)
           s == [g \in 1..n |-> DevChunk(x, c, d, g)]
           o == [g \in 1..(n + 1) |-> (g - 1) * t]
           F == FlattenSeq(s)
<1>1. K \in Seq(Codes(w)) /\ Len(K) = m /\ w \in Widths
  BY DevCodesPlaced
<1>2. m \in Nat \ {0} /\ b \in Nat \ {0} /\ n \in Nat \ {0} /\ m <= n * b /\ (n - 1) * b < m
  <2>1. Blocked(GroupsOf(x, c), m, b)
    BY DevBlocked
  <2>2. m \in Nat \ {0} /\ b \in Nat \ {0}
    BY <2>1 DEF Blocked
  <2>3. n \in Nat \ {0} /\ m <= n * b /\ \A g \in 1..n : (g - 1) * b < m
    BY <2>1, BlockBegins
  <2>4. n \in 1..n
    BY <2>3
  <2>. QED BY <2>2, <2>3, <2>4
<1>3. (b * w) % 8 = 0 /\ m % b = 0
  OBVIOUS
<1>4. DevTakes(x, c) /\ \A g \in 1..n : DevWidths(x, c, d)[g] = w /\ g \in 1..NGroups(GroupsOf(x, c))
  BY DevWidthsType
<1>. HIDE DEF K, w, b, m
<1>5. /\ t \in Nat \ {0}
      /\ \A q \in Nat : /\ q * b \in Nat /\ ((q * b) * w) % 8 = 0
                        /\ PackedBytes(q * b, w) = q * t
  BY <1>1, <1>2, <1>3, WholeCut
<1>6. m = n * b
  <2> DEFINE q == m \div b
  <2>1. q \in Nat /\ m = q * b
    <3>1. m \div b \in Nat /\ m = ((m \div b) * b) + (m % b)
      BY <1>2, DivLaw
    <3>2. (m \div b) * b \in Nat
      BY <1>2, <3>1, TimesGrows, <1>5
    <3>. QED BY <1>3, <3>1, <3>2
  <2>. HIDE DEF q
  <2>2. \A p, r \in Nat : p < r => p * b + b <= r * b
    BY <1>2, TimesGrows
  <2>3. ~(q < n)
    <3>1. q < n => m + b <= n * b
      BY <1>2, <2>1, <2>2
    <3>2. q < n => q <= n - 1 /\ n - 1 \in Nat
      BY <1>2, <2>1
    <3>3. q < n => q * b <= (n - 1) * b
      <4>1. q < n /\ q < n - 1 => q * b + b <= (n - 1) * b
        BY <2>1, <2>2, <3>2
      <4>2. q * b \in Nat
        BY <1>5, <2>1
      <4>3. q < n => (n - 1) * b \in Nat
        BY <1>5, <3>2
      <4>4. q < n => q < n - 1 \/ q = n - 1
        BY <1>2, <2>1
      <4>. QED BY <1>2, <4>1, <4>2, <4>3, <4>4
    <3>4. q < n => (n - 1) * b \in Nat
      BY <1>5, <3>2
    <3>. QED BY <1>2, <2>1, <3>3, <3>4
  <2>4. ~(n < q)
    <3>1. n < q => n * b + b <= q * b
      BY <1>2, <2>1, <2>2
    <3>2. n * b \in Nat
      BY <1>2, <1>5
    <3>. QED BY <1>2, <2>1, <3>1, <3>2
  <2>5. n = q
    BY <1>2, <2>1, <2>3, <2>4
  <2>. QED BY <2>1, <2>5
<1>7. P = Pack(K, w) /\ P \in Seq(Int) /\ Len(P) = n * t
  <2>1. P = Pack(K, w)
    BY <1>1, KernelPacksAlike DEF Widths
  <2>2. Pack(K, w) \in Seq(Int) /\ Len(Pack(K, w)) = PackedBytes(Len(K), w)
    BY <1>1, PackType
  <2>3. PackedBytes(n * b, w) = n * t
    BY <1>2, <1>5
  <2>. HIDE DEF P, t
  <2>. QED BY <1>1, <1>6, <2>1, <2>2, <2>3
<1>. HIDE DEF t
<1>8. ASSUME NEW g \in 1..n
      PROVE  /\ s[g] \in Seq(Int) /\ Len(s[g]) = t
             /\ \A p \in 1..t : s[g][p] = P[(g - 1) * t + p]
  <2> DEFINE D == DevGroupCodes(x, c, d, g)
             z == Size(GroupsOf(x, c), g - 1)
  <2>1. z = b
    <3>1. z \in 1..b /\ (z = b \/ (g - 1) * b + z = m)
      <4>1. DevPlaced(x, c, g, (g - 1) * c.block, z)
        BY <1>4, DevBlock
      <4>. QED BY <4>1 DEF DevPlaced, b, m
    <3>. HIDE DEF z
    <3>2. (g - 1) * b + b <= n * b
      <4>1. g - 1 \in Nat /\ g - 1 < n
        BY <1>2
      <4>. QED BY <1>2, <4>1, TimesGrows
    <3>3. (g - 1) * b \in Nat /\ n * b \in Nat
      BY <1>2, <1>5
    <3>. QED BY <1>2, <1>6, <3>1, <3>2, <3>3
  <2>2. D \in Seq(Codes(w)) /\ Len(D) = z
    <3>1. DevCodesAt(x, c, d, g, (g - 1) * c.block, z)
      BY Zenon, <1>4, DevCodesPlaced
    <3>. QED BY <3>1 DEF DevCodesAt, w
  <2>3. s[g] = Pack(D, w)
    <3>1. s[g] = DevChunk(x, c, d, g) /\ DevWidths(x, c, d)[g] = w /\ w # Raw
      BY <1>4
    <3>. QED BY Zenon, <3>1 DEF DevChunk, Chunk
  <2>4. Pack(D, w) = Slice(P, (g - 1) * b, z, w)
    BY Zenon, <1>3, <1>4, DevCut DEF K, w, b, P
  <2>. HIDE DEF z, D, s, P
  <2>5. Slice(P, (g - 1) * b, z, w) = SubSeq(P, (g - 1) * t + 1, (g - 1) * t + t)
    <3>1. PackedBytes((g - 1) * b, w) = (g - 1) * t /\ PackedBytes(z, w) = t
      <4>1. g - 1 \in Nat
        BY <1>2
      <4>. QED BY <1>5, <2>1, <4>1 DEF t
    <3>. QED BY Zenon, <3>1 DEF Slice
  <2>6. Pack(D, w) \in Seq(Int) /\ Len(Pack(D, w)) = t
    BY <1>1, <2>1, <2>2, PackType DEF t
  <2>7. (g - 1) * t \in Nat
    <3>1. g - 1 \in Nat
      BY <1>2
    <3>2. \A p, q \in Nat : p * q \in Nat
      OBVIOUS
    <3>. QED BY <1>5, <3>1, <3>2
  <2>8. \A p \in 1..t : SubSeq(P, (g - 1) * t + 1, (g - 1) * t + t)[p] = P[(g - 1) * t + p]
    <3> DEFINE u == (g - 1) * t
    <3>1. \A q \in Seq(Int) : \A a \in Nat : \A k \in Nat : \A p \in 1..k :
            SubSeq(q, a + 1, a + k)[p] = q[a + p]
      OBVIOUS
    <3>2. u \in Nat /\ t \in Nat
      BY <1>5, <2>7
    <3>. HIDE DEF u
    <3>3. \A p \in 1..t : SubSeq(P, u + 1, u + t)[p] = P[u + p]
      BY <1>7, <3>1, <3>2
    <3>. QED BY <3>3 DEF u
  <2>9. s[g] \in Seq(Int) /\ Len(s[g]) = t
    BY Zenon, <2>3, <2>6
  <2>10. s[g] = SubSeq(P, (g - 1) * t + 1, (g - 1) * t + t)
    BY Zenon, <2>3, <2>4, <2>5
  <2>11. \A p \in 1..t : s[g][p] = P[(g - 1) * t + p]
    BY Zenon, <2>8, <2>10
  <2>. QED BY Zenon, <2>9, <2>11
<1>. HIDE DEF P
<1>9. Laid(Int, n, s, o)
  <2>1. s \in [1..n -> Seq(Int)]
    <3>1. \A g \in 1..n : DevChunk(x, c, d, g) \in Seq(Int)
      BY <1>8
    <3>. QED BY <3>1
  <2>2. \A a, k \in Nat : a * k \in Nat
    OBVIOUS
  <2>3. o \in [1..(n + 1) -> Nat]
    <3>1. \A g \in 1..(n + 1) : (g - 1) * t \in Nat
      <4> TAKE g \in 1..(n + 1)
      <4>1. g - 1 \in Nat
        BY <1>2
      <4>. QED BY <1>5, <2>2, <4>1
    <3>. QED BY <3>1
  <2>4. o[1] = 0
    <3>1. 1 \in 1..(n + 1) /\ (1 - 1) * t = 0
      BY <1>2, <1>5
    <3>. QED BY <3>1
  <2>5. \A g \in 1..n : o[g + 1] = o[g] + Len(s[g])
    <3> TAKE g \in 1..n
    <3>1. g \in 1..(n + 1) /\ g + 1 \in 1..(n + 1) /\ g \in Nat
      BY <1>2
    <3>2. o[g + 1] = ((g + 1) - 1) * t /\ o[g] = (g - 1) * t
      BY <3>1
    <3>3. ((g + 1) - 1) * t = (g - 1) * t + t
      BY <1>5, <3>1
    <3>. HIDE DEF o, s
    <3>. QED BY Zenon, <1>8, <3>2, <3>3
  <2>. HIDE DEF s, o
  <2>. QED BY <1>2, <2>1, <2>3, <2>4, <2>5, FlattenLaid
<1>10. /\ F \in Seq(Int) /\ Len(F) = n * t
       /\ \A g \in 1..n : \A p \in 1..t : F[(g - 1) * t + p] = P[(g - 1) * t + p]
  <2>1. F \in Seq(Int) /\ Len(F) = o[n + 1]
    BY <1>9 DEF Laid
  <2>2. o[n + 1] = n * t
    <3>1. n + 1 \in 1..(n + 1) /\ (n + 1) - 1 = n
      BY <1>2
    <3>. QED BY <3>1
  <2>3. \A g \in 1..n : o[g] = (g - 1) * t
    BY <1>2
  <2>4. \A g \in 1..n : \A p \in 1..t : F[o[g] + p] = s[g][p]
    <3>1. \A g \in 1..n : \A p \in 1..Len(s[g]) : F[o[g] + p] = s[g][p]
      BY Zenon, <1>9 DEF Laid
    <3>2. \A g \in 1..n : Len(s[g]) = t
      BY <1>8
    <3>. HIDE DEF s, o, F
    <3>3. \A g \in 1..n : 1..Len(s[g]) = 1..t
      BY Zenon, <3>2
    <3>. QED BY ZenonT(60), <3>1, <3>3
  <2>5. \A g \in 1..n : \A p \in 1..t : s[g][p] = P[(g - 1) * t + p]
    BY <1>8
  <2>. HIDE DEF s, o, F
  <2>6. ASSUME NEW g \in 1..n, NEW p \in 1..t
        PROVE  F[(g - 1) * t + p] = P[(g - 1) * t + p]
    <3>1. F[o[g] + p] = s[g][p] /\ o[g] = (g - 1) * t /\ s[g][p] = P[(g - 1) * t + p]
      BY Zenon, <2>3, <2>4, <2>5
    <3>. QED BY Zenon, <3>1
  <2>. QED BY Zenon, <2>1, <2>2, <2>6
<1>. HIDE DEF F
<1>11. \A p \in 1..(n * t) : F[p] = P[p]
  <2> TAKE p \in 1..(n * t)
  <2> DEFINE q == (p - 1) \div t
             r == (p - 1) % t
  <2>1. n * t \in Nat
    <3>1. \A a, k \in Nat : a * k \in Nat
      OBVIOUS
    <3>. QED BY <1>2, <1>5, <3>1
  <2>2. p - 1 \in Nat /\ p - 1 < n * t
    BY <2>1
  <2>3. q \in Nat /\ r \in Nat /\ r < t /\ p - 1 = (q * t) + r
    BY <1>5, <2>2, DivLaw
  <2>. HIDE DEF q, r
  <2>4. q * t \in Nat
    <3>1. \A a, k \in Nat : a * k \in Nat
      OBVIOUS
    <3>. QED BY <1>5, <2>3, <3>1
  <2>5. q < n
    <3>1. n < q => n * t + t <= q * t
      BY <1>2, <1>5, <2>3, TimesGrows
    <3>. QED BY <1>2, <1>5, <2>1, <2>2, <2>3, <2>4, <3>1
  <2>6. q + 1 \in 1..n /\ r + 1 \in 1..t /\ (q + 1) - 1 = q /\ (q * t) + (r + 1) = p
    BY <1>2, <1>5, <2>2, <2>3, <2>4, <2>5
  <2>7. F[((q + 1) - 1) * t + (r + 1)] = P[((q + 1) - 1) * t + (r + 1)]
    BY Zenon, <1>10, <2>6
  <2>. QED BY Zenon, <2>6, <2>7
<1>12. P = F
  <2>1. \A a \in Seq(Int) : a = [p \in 1..Len(a) |-> a[p]]
    OBVIOUS
  <2>2. P = [p \in 1..(n * t) |-> P[p]] /\ F = [p \in 1..(n * t) |-> F[p]]
    BY Zenon, <1>7, <1>10, <2>1
  <2>. QED BY Zenon, <1>11, <2>2
<1>. QED BY <1>12 DEF P, F, K, w
\* _assemble writes the groups' chunks, one behind the other, either way.
LEMMA AssembledIs ==
  ASSUME NEW x, NEW c, DevTakes(x, c), NEW d \in Int, (c.block * c.width) % 8 = 0
  PROVE  Assembled(x, c, KernelPack(DevCodes(x, c, d), c.width), DevWidths(x, c, d))
           = FlattenSeq([g \in 1..NGroups(GroupsOf(x, c)) |-> DevChunk(x, c, d, g)])
<1> DEFINE n == NGroups(GroupsOf(x, c))
           P == KernelPack(DevCodes(x, c, d), c.width)
           W == DevWidths(x, c, d)
           start(g) == (g - 1) * c.block
           size(g) == Min({c.block, Len(x.data) - start(g)})
           cut(g) == IF W[g] = Raw
                     THEN ElementBytes(SubSeq(x.data, start(g) + 1, start(g) + size(g)), x.dtype)
                     ELSE Slice(P, start(g), size(g), c.width)
           whole == Len(x.data) % c.block = 0 /\ \A g \in DOMAIN W : W[g] # Raw
<1>1. Assembled(x, c, P, W) = IF whole THEN P ELSE FlattenSeq([g \in DOMAIN W |-> cut(g)])
  BY Zenon DEF Assembled
<1>2. DOMAIN W = 1..n
  BY DevWidthsType
<1>3. \A g \in 1..n : cut(g) = DevChunk(x, c, d, g)
  <2> TAKE g \in 1..n
  <2>1. g \in 1..NGroups(GroupsOf(x, c))
    OBVIOUS
  <2>2. DevCutOf(x, c, d, g, (g - 1) * c.block, Min({c.block, Len(x.data) - (g - 1) * c.block}))
          = DevChunk(x, c, d, g)
    BY <2>1, DevCutIsChunk
  <2>3. cut(g) = DevCutOf(x, c, d, g, (g - 1) * c.block,
                          Min({c.block, Len(x.data) - (g - 1) * c.block}))
    BY Zenon DEF DevCutOf
  <2>. QED BY Zenon, <2>2, <2>3
<1>4. whole => P = FlattenSeq([g \in 1..n |-> DevChunk(x, c, d, g)])
  <2>1. whole => Len(x.data) % c.block = 0 /\ \A g \in 1..n : W[g] # Raw
    BY Zenon, <1>2
  <2>2. n = NGroups(GroupsOf(x, c))
    OBVIOUS
  <2>. HIDE DEF n
  <2>. QED BY Zenon, <2>1, <2>2, WholeIsChunks
<1>. HIDE DEF cut, whole, W, P
<1>5. FlattenSeq([g \in DOMAIN W |-> cut(g)]) = FlattenSeq([g \in 1..n |-> DevChunk(x, c, d, g)])
  <2>1. [g \in DOMAIN W |-> cut(g)] = [g \in 1..n |-> DevChunk(x, c, d, g)]
    BY Zenon, <1>2, <1>3
  <2>. QED BY Zenon, <2>1
<1>6. Assembled(x, c, P, W) = FlattenSeq([g \in 1..n |-> DevChunk(x, c, d, g)])
  BY Zenon, <1>1, <1>4, <1>5
<1>. QED BY <1>6 DEF W, P, n

AllDevCodes(x, c, d) == [g \in 1..NGroups(GroupsOf(x, c)) |-> DevGroupCodes(x, c, d, g)]

\* What the GPU path writes for a group: DevPlaced by name, with its types.
DevWritten(x, c, d, g, buf) ==
  /\ buf.widths[g] = IF DevOk(x, c, d, g) THEN c.width ELSE Raw
  /\ buf.mins[g] = DevStats(x, c, g).min
  /\ buf.scales[g] = IF DevOk(x, c, d, g) THEN DevScale(x, c, d, g) ELSE 0
  /\ DevSeg(x, c, g) \in Seq(Int) /\ Len(DevSeg(x, c, g)) > 0
  /\ DevGroupCodes(x, c, d, g) \in Seq(Codes(c.width))
  /\ Len(DevGroupCodes(x, c, d, g)) = Len(DevSeg(x, c, g))
  /\ DevBack(x, c, d, g) = ReadBack(DevSeg(x, c, g), DevGroupCodes(x, c, d, g), c.width,
                                    DevLo(x, c, d, g), DevScale(x, c, d, g), x.dtype)

LEMMA DevWritesGroups ==
  ASSUME NEW x, NEW c, DevTakes(x, c), NEW d \in Int, NEW buf, NEW s,
         DevWrites(x, c, d, NGroups(GroupsOf(x, c)), buf, s),
         NEW g \in 1..NGroups(GroupsOf(x, c))
  PROVE  DevWritten(x, c, d, g, buf)
<1> DEFINE n == NGroups(GroupsOf(x, c))
           seg == DevSeg(x, c, g)
           D == DevGroupCodes(x, c, d, g)
           st == (g - 1) * c.block
           z == Size(GroupsOf(x, c), g - 1)
<1>1. /\ buf.widths = DevWidths(x, c, d)
      /\ buf.mins = [h \in 1..n |-> DevStats(x, c, h).min]
      /\ buf.scales = [h \in 1..n |-> IF DevOk(x, c, d, h) THEN DevScale(x, c, d, h) ELSE 0]
  BY DEF DevWrites
<1>2. /\ buf.widths[g] = IF DevOk(x, c, d, g) THEN c.width ELSE Raw
      /\ buf.mins[g] = DevStats(x, c, g).min
      /\ buf.scales[g] = IF DevOk(x, c, d, g) THEN DevScale(x, c, d, g) ELSE 0
  BY <1>1, DevWidthsType
<1>3. seg \in Seq(Int) /\ Len(seg) = z /\ z > 0
  <2>1. DevPlaced(x, c, g, st, z)
    BY DevBlock
  <2>2. seg \in Seq(Int) /\ Len(seg) = z /\ z \in 1..c.block
    BY Zenon, <2>1 DEF DevPlaced
  <2>. QED BY <2>2
<1>4. D \in Seq(Codes(c.width)) /\ Len(D) = z /\ c.width \in Widths
      /\ \A p \in 1..z : DevCodes(x, c, d)[st + p] = D[p]
  <2>1. DevCodesAt(x, c, d, g, st, z) /\ c.width \in Widths
    BY Zenon, DevCodesPlaced
  <2>. QED BY Zenon, <2>1 DEF DevCodesAt
<1>5. DOMAIN seg = 1..Len(seg) /\ c.width # Raw
  <2>. HIDE DEF seg
  <2>. QED BY <1>3, <1>4 DEF Widths, Raw
<1>6. DevBack(x, c, d, g) = ReadBack(seg, D, c.width, DevLo(x, c, d, g), DevScale(x, c, d, g), x.dtype)
  <2> DEFINE deq(k) == Dequantise(DevLo(x, c, d, g), k, DevScale(x, c, d, g), x.dtype)
  <2>1. DevBack(x, c, d, g) = [p \in 1..z |-> deq(DevCodes(x, c, d)[st + p])]
    BY Zenon, <1>3, <1>5 DEF DevBack
  <2>2. ReadBack(seg, D, c.width, DevLo(x, c, d, g), DevScale(x, c, d, g), x.dtype)
          = [p \in 1..z |-> deq(D[p])]
    BY Zenon, <1>3, <1>5 DEF ReadBack
  <2>3. \A p \in 1..z : deq(DevCodes(x, c, d)[st + p]) = deq(D[p])
    BY Zenon, <1>4
  <2>. HIDE DEF deq
  <2>. QED BY Zenon, <2>1, <2>2, <2>3
<1>. QED BY Zenon, <1>2, <1>3, <1>4, <1>6 DEF DevWritten
\* The GPU path's buffer carries the tensor in the same format.
LEMMA GpuCarries ==
  ASSUME NEW x, NEW c, DevTakes(x, c), NEW d \in Int, (c.block * c.width) % 8 = 0,
         NEW buf, NEW s, DevWrites(x, c, d, NGroups(GroupsOf(x, c)), buf, s)
  PROVE  Carries(buf, x, GroupsOf(x, c), NGroups(GroupsOf(x, c)), AllDevCodes(x, c, d))
<1> DEFINE G == GroupsOf(x, c)
           n == NGroups(G)
           codes == AllDevCodes(x, c, d)
<1>1. /\ \E w : buf.header = HeaderOf(x, c, w, n)
      /\ buf.widths = DevWidths(x, c, d)
      /\ buf.body = Assembled(x, c, KernelPack(DevCodes(x, c, d), c.width), DevWidths(x, c, d))
  BY DEF DevWrites
<1>2. /\ buf.header.shape = x.shape /\ buf.header.dtype = x.dtype /\ buf.header.groups = n
      /\ Partition(buf.header.shape, buf.header.allocation, buf.header.block) = G
  BY <1>1 DEF HeaderOf, GroupsOf
<1>3. \A g \in 1..n : codes[g] = DevGroupCodes(x, c, d, g)
  BY DEF AllDevCodes
<1>4. c.width \in Widths
  BY DevCodesPlaced
<1>5. buf.widths \in [1..n -> Widths \union {Raw}]
  <2>1. \A g \in 1..n : (IF DevOk(x, c, d, g) THEN c.width ELSE Raw) \in Widths \union {Raw}
    BY <1>4
  <2>2. buf.widths = [g \in 1..n |-> IF DevOk(x, c, d, g) THEN c.width ELSE Raw]
    BY Zenon, <1>1 DEF DevWidths
  <2>. HIDE DEF n
  <2>. QED BY <2>1, <2>2
<1>6. \A g \in 1..n : CodesFor(codes[g], buf.widths[g], Segment(x, G, g - 1))
  <2> TAKE g \in 1..n
  <2>1. DevWritten(x, c, d, g, buf)
    BY DevWritesGroups
  <2>2. /\ DevGroupCodes(x, c, d, g) \in Seq(Codes(c.width))
        /\ Len(DevGroupCodes(x, c, d, g)) = Len(DevSeg(x, c, g))
        /\ buf.widths[g] # Raw => buf.widths[g] = c.width
    BY Zenon, <2>1 DEF DevWritten
  <2>3. codes[g] = DevGroupCodes(x, c, d, g) /\ DevSeg(x, c, g) = Segment(x, G, g - 1)
    BY <1>3 DEF DevSeg
  <2>. HIDE DEF codes, G
  <2>. QED BY Zenon, <2>2, <2>3 DEF CodesFor
<1>7. buf.body = FlattenSeq([g \in 1..n |->
                   Chunk(Segment(x, G, g - 1), codes[g], buf.widths[g], x.dtype)])
  <2>1. buf.body = FlattenSeq([g \in 1..n |-> DevChunk(x, c, d, g)])
    BY Zenon, <1>1, AssembledIs
  <2>2. \A g \in 1..n : DevChunk(x, c, d, g)
                          = Chunk(Segment(x, G, g - 1), codes[g], buf.widths[g], x.dtype)
    BY Zenon, <1>1, <1>3 DEF DevChunk, DevSeg
  <2>3. [g \in 1..n |-> DevChunk(x, c, d, g)]
          = [g \in 1..n |-> Chunk(Segment(x, G, g - 1), codes[g], buf.widths[g], x.dtype)]
    BY Zenon, <2>2
  <2>. QED BY Zenon, <2>1, <2>3
<1>8. Carries(buf, x, G, n, codes)
  <2>. HIDE DEF codes, n, G
  <2>. QED BY <1>2, <1>5, <1>6, <1>7 DEF Carries
<1>. QED BY <1>8

\* A group the GPU path compresses keeps the bound.
LEMMA GpuKeeps ==
  ASSUME NEW i \in Inputs, NEW x, NEW c, x = i.tensor, c = i.cfg, DevTakes(x, c),
         x.contiguous, NEW d \in Offs, NEW buf,
         NEW g \in 1..NGroups(GroupsOf(x, c)), DevWritten(x, c, d, g, buf)
  PROVE  Kept(DevSeg(x, c, g), DevGroupCodes(x, c, d, g), buf.widths[g], buf.mins[g],
              buf.scales[g], x.dtype, c)
<1> DEFINE seg == DevSeg(x, c, g)
           D == DevGroupCodes(x, c, d, g)
           lo == DevLo(x, c, d, g)
           sc == DevScale(x, c, d, g)
           w == c.width
           r == ReadBack(seg, D, w, lo, sc, x.dtype)
           b == GroupBounds(seg)
<1>1. /\ buf.widths[g] = IF DevOk(x, c, d, g) THEN w ELSE Raw
      /\ buf.mins[g] = DevStats(x, c, g).min
      /\ buf.scales[g] = IF DevOk(x, c, d, g) THEN sc ELSE 0
      /\ seg \in Seq(Int) /\ Len(seg) > 0
      /\ D \in Seq(Codes(w)) /\ Len(D) = Len(seg)
      /\ DevBack(x, c, d, g) = r
  BY Zenon DEF DevWritten
<1>2. CASE ~DevOk(x, c, d, g)
  BY <1>1, <1>2 DEF Kept
<1>3. CASE DevOk(x, c, d, g)
  <2>1. DevFits(x, c, d, g) /\ ~Missed(seg, r, c) /\ ~HasNonFinite(seg)
    BY Zenon, <1>1, <1>3 DEF DevOk, DevFits
  <2>2. WellFormed(x, c) /\ c.width # Adaptive /\ d \in Int /\ ~(Len(x.data) < c.block)
    BY DEF DevTakes, Offs
  <2>3. lo \in Int /\ sc \in Nat /\ w \in Widths
        /\ DevStats(x, c, g) = b
    BY <1>1, <2>1, <2>2, DevTypes
  <2>4. lo = b.min /\ sc = Scale(b.max - b.min, w, d) /\ buf.mins[g] = lo /\ buf.scales[g] = sc
        /\ buf.widths[g] = w /\ w # Raw
    <3>1. w # Raw
      BY <2>3 DEF Widths, Raw
    <3>. QED BY Zenon, <1>1, <1>3, <2>1, <2>3, <3>1 DEF DevLo, DevScale
  <2>. HIDE DEF seg, D, lo, sc, w, b
  <2>5. /\ r \in Seq(Int) /\ Len(r) = Len(seg)
        /\ r = [p \in 1..Len(seg) |-> Dequantise(lo, D[p], sc, x.dtype)]
    <3>1. CodesFor(D, w, seg)
      BY <1>1 DEF CodesFor
    <3>2. r \in Seq(Int) /\ Len(r) = Len(seg)
      BY <1>1, <2>3, <3>1, ReadBackType
    <3>3. r = [p \in 1..Len(seg) |-> Dequantise(lo, D[p], sc, x.dtype)]
      BY Zenon, <2>4 DEF ReadBack
    <3>. QED BY <3>2, <3>3
  <2>6. ASSUME NoOverflow, NEW p \in 1..Len(seg)
        PROVE  Finite(r[p])
    <3>1. p \in DOMAIN seg /\ Len(seg) \in Nat
      BY <1>1, <2>6
    <3>2. D[p] = Quantise(seg[p], lo, sc, w)
      BY Zenon, <3>1 DEF D, DevGroupCodes, GroupCodes, seg, lo, sc, w
    <3>3. r[p] = Dequantise(lo, Quantise(seg[p], lo, sc, w), sc, x.dtype)
      BY Zenon, <2>5, <2>6, <3>2
    <3>4. g - 1 \in 0..(NGroups(GroupsOf(x, c)) - 1)
      <4>1. NGroups(GroupsOf(x, c)) \in Nat
        BY DevBlocked, BlockBegins
      <4>. QED BY <4>1
    <3>5. FiniteBack(i.tensor, i.cfg, d, Segment(i.tensor, GroupsOf(i.tensor, i.cfg), g - 1))
      <4>1. Len(x.data) >= c.block
        BY <2>2, InputFacts
      <4>. QED BY <2>6, <3>4, <4>1, NoOverflowAt
    <3>6. FiniteBack(x, c, d, seg)
      BY <3>5 DEF seg, DevSeg
    <3>7. Finite(Dequantise(lo, Quantise(seg[p], lo, sc, w), sc, x.dtype))
      <4>1. \A q \in DOMAIN seg : Finite(Dequantise(lo, Quantise(seg[q], lo, sc, w), sc, x.dtype))
        BY Zenon, <2>1, <2>2, <2>3, <2>4, <3>6 DEF FiniteBack, b, w
      <4>. QED BY Zenon, <3>1, <4>1
    <3>. QED BY Zenon, <3>3, <3>7
  <2>7. ReadBack(seg, D, buf.widths[g], buf.mins[g], buf.scales[g], x.dtype) = r
    BY Zenon, <2>4
  <2>. HIDE DEF r
  <2>8. Kept(seg, D, buf.widths[g], buf.mins[g], buf.scales[g], x.dtype, c)
    BY Zenon, <2>1, <2>5, <2>6, <2>7 DEF Kept
  <2>. QED BY <2>8 DEF seg, D
<1>. QED BY <1>2, <1>3

\* So the receiver of the GPU path's buffer is owed what the host's is.
LEMMA GpuSends ==
  ASSUME NEW i \in Inputs, GpuAccepts(i.tensor, i.cfg), WholeBytes, NEW d \in Offs
  PROVE  Sent(GpuEncode(i.tensor, i.cfg, d).buf, i.tensor, i.cfg)
<1> DEFINE x == i.tensor
           c == i.cfg
           n == NGroups(GroupsOf(x, c))
           buf == GpuEncode(x, c, d).buf
<1>1. WellFormed(x, c) /\ (c.block * c.width) % 8 = 0 /\ d \in Int
      /\ c.allocation = "blockwise" /\ c.width # Adaptive /\ x.contiguous
  BY CodecAssumption DEF WholeBytes, GpuAccepts, Offs
<1>2. CASE Len(x.data) < c.block
  <2>1. GpuEncode(x, c, d) = ReferenceEncode(x, c)
    BY <1>2 DEF GpuEncode
  <2>. QED BY <2>1, ReferenceSends
<1>3. CASE ~(Len(x.data) < c.block)
  <2>1. DevTakes(x, c) /\ x.contiguous
    BY <1>1, <1>3 DEF DevTakes
  <2>2. DevWrites(x, c, d, n, buf, GpuEncode(x, c, d).stats)
    <3>. HIDE DEF x, c
    <3>. QED BY <1>1, <1>3, GpuWrites
  <2>. HIDE DEF buf
  <2>3. Carries(buf, x, GroupsOf(x, c), n, AllDevCodes(x, c, d))
    <3>. HIDE DEF x, c
    <3>. QED BY <1>1, <2>1, <2>2, GpuCarries
  <2>4. Len(x.data) > 0 /\ n \in Nat \ {0}
    <3>1. Blocked(GroupsOf(x, c), Len(x.data), c.block)
      <4>. HIDE DEF x, c
      <4>. QED BY <2>1, DevBlocked
    <3>2. Len(x.data) \in Nat \ {0}
      BY <3>1 DEF Blocked
    <3>. HIDE DEF x, c
    <3>. QED BY <3>1, <3>2, BlockBegins
  <2>5. ASSUME NEW g \in 1..n
        PROVE  Kept(Segment(x, GroupsOf(x, c), g - 1), AllDevCodes(x, c, d)[g], buf.widths[g],
                    buf.mins[g], buf.scales[g], x.dtype, c)
    <3>1. DevWritten(x, c, d, g, buf)
      <4>. HIDE DEF x, c
      <4>. QED BY <1>1, <2>1, <2>2, DevWritesGroups
    <3>2. x = i.tensor /\ c = i.cfg
      OBVIOUS
    <3>. HIDE DEF x, c
    <3>3. Kept(DevSeg(x, c, g), DevGroupCodes(x, c, d, g), buf.widths[g], buf.mins[g],
               buf.scales[g], x.dtype, c)
      BY <1>1, <2>1, <3>1, <3>2, GpuKeeps
    <3>4. AllDevCodes(x, c, d)[g] = DevGroupCodes(x, c, d, g)
          /\ DevSeg(x, c, g) = Segment(x, GroupsOf(x, c), g - 1)
      BY DEF AllDevCodes, DevSeg
    <3>. QED BY Zenon, <3>3, <3>4
  <2>6. buf.header.groups = n
    BY Zenon, <2>3 DEF Carries
  <2>7. Sent(buf, x, c)
    <3>1. n # 0
      BY <2>4
    <3>. HIDE DEF x, c
    <3>. QED BY Zenon, <2>3, <2>4, <2>5, <2>6, <3>1 DEF Sent, n
  <2>. QED BY <2>7 DEF buf
<1>. QED BY <1>2, <1>3
-----------------------------------------------------------------------------
(* What goes on the way.                                                     *)

\* A buffer as serialize.write leaves it, of sequences of numbers.
Sealed(buf) ==
  /\ buf = Written(buf.header, buf.widths, buf.mins, buf.scales, buf.body)
  /\ buf.widths \in Seq(Int) /\ buf.scales \in Seq(Int) /\ buf.body \in Seq(Int)

LEMMA NumbersIn ==
  ASSUME NEW S, NEW n \in Nat, NEW f \in [1..n -> S], S \subseteq Int
  PROVE  f \in Seq(Int)
<1>1. \A m \in Nat : \A e \in [1..m -> Int] : e \in Seq(Int)
  OBVIOUS
<1>2. f \in [1..n -> Int]
  OBVIOUS
<1>. QED BY Zenon, <1>1, <1>2

\* Every group has an element: the groups are numbered without a gap.
LEMMA GroupFilled ==
  ASSUME NEW x, NEW c, WellFormed(x, c), Len(x.data) > 0,
         NEW g \in 1..NGroups(GroupsOf(x, c))
  PROVE  Size(GroupsOf(x, c), g - 1) > 0
<1> DEFINE G == GroupsOf(x, c)
           m == Len(x.data)
           n == NGroups(G)
<1>1. /\ Grouped(x, G) /\ Numel(x.shape) = m /\ c.block \in Nat \ {0} /\ m \in Nat \ {0}
      /\ G \in [1..m -> Nat]
  BY InputFacts DEF Grouped
<1>2. x.shape \in Seq(Nat \ {0}) /\ Len(x.shape) \in {1, 2}
      /\ c.allocation \in {"blockwise", "per_channel", "per_token"}
  BY DEF WellFormed
<1> DEFINE flat == c.allocation = "blockwise" \/ Len(x.shape) < 2
           val(i) ==
             CASE c.allocation = "blockwise" \/ Len(x.shape) < 2 -> (i - 1) \div c.block
               [] c.allocation = "per_channel" /\ Len(x.shape) = 2 -> (i - 1) % x.shape[2]
               [] c.allocation = "per_token" /\ Len(x.shape) = 2 -> (i - 1) \div x.shape[2]
<1>3. G = [i \in 1..m |-> val(i)]
  BY Zenon, <1>1 DEF GroupsOf, Partition
<1>4. ASSUME NEW b \in Nat \ {0}, \A i \in 1..m : val(i) = (i - 1) \div b
      PROVE  Size(G, g - 1) > 0
  <2>. HIDE DEF val, m, G
  <2>1. Blocked(G, m, b)
    BY <1>1, <1>3, <1>4 DEF Blocked
  <2>2. g - 1 \in Nat /\ (g - 1) * b < m
    <3>1. g \in 1..NGroups(G)
      BY DEF G
    <3>. QED BY <2>1, <3>1, BlockBegins
  <2>3. Size(G, g - 1) \in 1..b
    BY <2>1, <2>2, BlockSize
  <2>. QED BY <2>3
<1>5. CASE flat
  <2>1. \A i \in 1..m : val(i) = (i - 1) \div c.block
    BY <1>5
  <2>. QED BY <1>1, <1>4, <2>1
<1>8. flat \/ Len(x.shape) = 2
  <2>1. Len(x.shape) = 1 => Len(x.shape) < 2
    OBVIOUS
  <2>. QED BY Zenon, <1>2, <2>1
<1>6. CASE ~flat /\ c.allocation = "per_token"
  <2>1. Len(x.shape) = 2
    BY Zenon, <1>6, <1>8
  <2>2. x.shape[2] \in Nat \ {0}
    BY <1>2, <2>1
  <2>3. \A i \in 1..m : val(i) = (i - 1) \div x.shape[2]
    BY <1>6, <2>1
  <2>. QED BY <1>4, <2>2, <2>3
<1>7. CASE ~flat /\ c.allocation = "per_channel"
  <2>1. Len(x.shape) = 2
    BY Zenon, <1>7, <1>8
  <2> DEFINE s == x.shape[2]
             r == x.shape[1]
  <2>2. s \in Nat \ {0} /\ r \in Nat \ {0} /\ m = r * s
    BY <1>1, <1>2, <2>1 DEF Numel
  <2>3. \A i \in 1..m : val(i) = (i - 1) % s
    BY <1>7, <2>1
  <2>. HIDE DEF val, m, G, s, r
  <2>4. s <= m
    <3>1. \A a, b \in Nat \ {0} : b <= a * b
      OBVIOUS
    <3>. QED BY <2>2, <3>1
  <2>5. \A i \in 1..m : G[i] = (i - 1) % s /\ (i - 1) % s \in 0..(s - 1)
    <3>1. \A a \in Nat : a % s \in 0..(s - 1)
      BY <2>2
    <3> TAKE i \in 1..m
    <3>2. i - 1 \in Nat
      BY <1>1
    <3>3. G[i] = val(i)
      BY Zenon, <1>3
    <3>4. val(i) = (i - 1) % s
      BY Zenon, <2>3
    <3>. QED BY Zenon, <3>1, <3>2, <3>3, <3>4
  <2>6. g \in 1..s
    <3>1. NGroups(G) = Max(Range(G)) + 1
      BY DEF NGroups
    <3>2. Max(Range(G)) \in Range(G)
      <4>1. Range(G) = {G[i] : i \in 1..m}
        BY <1>1 DEF Range
      <4>2. IsFiniteSet({G[i] : i \in 1..m})
        <5>1. DOMAIN G = 1..m
          BY <1>1
        <5>. QED BY <1>1, <5>1, ValuesFinite
      <4>3. {G[i] : i \in 1..m} \subseteq Int /\ {G[i] : i \in 1..m} # {}
        <5>1. 1 \in 1..m
          BY <1>1
        <5>. QED BY <1>1, <5>1
      <4>. QED BY <4>1, <4>2, <4>3, FiniteMax
    <3>3. Max(Range(G)) \in 0..(s - 1)
      BY <1>1, <2>5, <3>2 DEF Range
    <3>4. g \in 1..NGroups(G)
      BY DEF G
    <3>. QED BY <2>2, <3>1, <3>3, <3>4
  <2>7. g \in 1..m /\ G[g] = g - 1
    <3>1. \A a \in 0..(s - 1) : a % s = a
      BY <2>2
    <3>2. g - 1 \in 0..(s - 1) /\ g \in 1..m
      BY <1>1, <2>2, <2>4, <2>6
    <3>. QED BY <2>5, <3>1, <3>2
  <2>8. Place(G, g) \in 1..Size(G, G[g]) /\ Size(G, G[g]) \in Nat
    BY <1>1, <2>7, PlaceType, GroupFinite
  <2>. QED BY <2>7, <2>8 DEF G
<1>9. flat \/ c.allocation = "per_token" \/ c.allocation = "per_channel"
  BY Zenon, <1>2
<1>. HIDE DEF flat
<1>. QED BY Zenon, <1>5, <1>6, <1>7, <1>9

LEMMA BypassSealed ==
  ASSUME NEW x, NEW c, WellFormed(x, c), NEW reason
  PROVE  Sealed(Bypass(x, c, reason).buf)
<1> DEFINE buf == Bypass(x, c, reason).buf
<1>1. /\ buf = Written(buf.header, buf.widths, buf.mins, buf.scales, buf.body)
      /\ buf.widths = << >> /\ buf.scales = << >> /\ buf.body = ElementBytes(x.data, x.dtype)
  BY DEF Bypass, Written
<1>2. ElementBytes(x.data, x.dtype) \in Seq(Int)
  <2>1. x.data \in Seq(Int)
    BY InputFacts DEF Grouped
  <2>. QED BY <2>1, ElementBytesLaid
<1>3. << >> \in Seq(Int)
  OBVIOUS
<1>. HIDE DEF buf
<1>4. Sealed(buf)
  BY Zenon, <1>1, <1>2, <1>3 DEF Sealed
<1>. QED BY <1>4 DEF buf

LEMMA ReferenceSealed ==
  ASSUME NEW x, NEW c, WellFormed(x, c)
  PROVE  Sealed(ReferenceEncode(x, c).buf)
<1> DEFINE G == GroupsOf(x, c)
           n == NGroups(G)
           buf == ReferenceEncode(x, c).buf
<1>1. CASE BypassReasonOf(x, c) # "none"
  <2>1. ReferenceEncode(x, c) = Bypass(x, c, BypassReasonOf(x, c))
    BY <1>1 DEF ReferenceEncode
  <2>. QED BY <2>1, BypassSealed
<1>2. CASE BypassReasonOf(x, c) = "none"
  <2>1. HostWrites(x, c, n, buf, ReferenceEncode(x, c).stats)
    BY <1>2, ReferenceWrites
  <2>2. Carries(buf, x, G, n, AllHostCodes(x, c)) /\ Len(x.data) > 0 /\ n \in Nat \ {0}
    BY <1>2, ReferenceCarries
  <2>3. Grouped(x, G) /\ Numel(x.shape) = Len(x.data) /\ c.width \in Widths \union {Adaptive}
    BY InputFacts
  <2>4. n = NGroups(G)
    OBVIOUS
  <2>. HIDE DEF G, n, buf
  <2>5. buf.body \in Seq(Int)
    BY <2>2, <2>3, <2>4, DecodeCarried
  <2>6. buf.widths \in Seq(Int)
    <3>1. buf.widths \in [1..n -> Widths \union {Raw}]
      BY <2>2 DEF Carries
    <3>2. Widths \union {Raw} \subseteq Int
      BY DEF Widths, Raw
    <3>. QED BY <2>2, <3>1, <3>2, NumbersIn
  <2>7. buf.scales \in Seq(Int)
    <3>1. \A g \in 1..n : HostGroup(x, c, g).scale \in Int
      <4> TAKE g \in 1..n
      <4> DEFINE seg == Segment(x, G, g - 1)
                 e == EncodedGroup(x, c, seg)
      <4>1. seg \in Seq(Int)
        BY <2>3, SegmentType
      <4>2. Len(seg) > 0
        <5>1. Len(seg) = Size(G, g - 1) /\ Size(G, g - 1) > 0
          <6>1. Len(seg) = Size(G, g - 1)
            BY <2>3, SegmentType
          <6>2. Size(GroupsOf(x, c), g - 1) > 0
            <7>1. g \in 1..NGroups(GroupsOf(x, c))
              BY DEF G, n
            <7>. QED BY <2>2, <7>1, GroupFilled
          <6>. QED BY <6>1, <6>2 DEF G
        <5>. QED BY <5>1
      <4>3. HostGroup(x, c, g) = e
        BY DEF HostGroup, G
      <4>. HIDE DEF seg
      <4>4. e.width = Raw => e.scale = 0
        BY <2>3, <4>1, EncodedGroupIs
      <4>5. e.width # Raw => e.scale = HostScale(x, c, seg) /\ PredictedWidth(x, c, seg) # Raw
        BY <2>3, <4>1, EncodedGroupIs
      <4>6. PredictedWidth(x, c, seg) \in Widths \union {Raw}
        BY <2>3, PredictedWidthType
      <4>7. PredictedWidth(x, c, seg) # Raw => HostScale(x, c, seg) \in Nat
        <5> DEFINE b == GroupBounds(seg)
                   w == PredictedWidth(x, c, seg)
        <5>1. b.max - b.min \in Nat
          BY <4>1, <4>2, GroupBoundsType
        <5>2. HostScale(x, c, seg) = Scale(b.max - b.min, w, 0)
          BY DEF HostScale
        <5>3. w # Raw => w \in Widths
          BY <4>6
        <5>. HIDE DEF b, w
        <5>4. w # Raw => HostScale(x, c, seg) \in Nat
          BY <5>1, <5>2, <5>3, ScaleType
        <5>. QED BY <5>4 DEF w
      <4>. HIDE DEF e
      <4>. QED BY <4>3, <4>4, <4>5, <4>7
    <3>2. buf.scales = [g \in 1..n |-> HostGroup(x, c, g).scale]
      BY <2>1 DEF HostWrites
    <3>3. buf.scales \in [1..n -> Int] /\ n \in Nat
      BY <2>2, <3>1, <3>2
    <3>. QED BY <3>3, NumbersIn
  <2>8. buf = Written(buf.header, buf.widths, buf.mins, buf.scales, buf.body)
    BY Zenon, <2>1 DEF HostWrites
  <2>9. Sealed(buf)
    BY Zenon, <2>5, <2>6, <2>7, <2>8 DEF Sealed
  <2>. QED BY <2>9 DEF buf
<1>. QED BY <1>1, <1>2

LEMMA GpuSealed ==
  ASSUME NEW x, NEW c, WellFormed(x, c), GpuAccepts(x, c), (c.block * c.width) % 8 = 0,
         NEW d \in Int
  PROVE  Sealed(GpuEncode(x, c, d).buf)
<1> DEFINE G == GroupsOf(x, c)
           n == NGroups(G)
           buf == GpuEncode(x, c, d).buf
<1>1. CASE Len(x.data) < c.block
  <2>1. GpuEncode(x, c, d) = ReferenceEncode(x, c)
    BY <1>1 DEF GpuEncode
  <2>. QED BY <2>1, ReferenceSealed
<1>2. CASE ~(Len(x.data) < c.block)
  <2>1. DevTakes(x, c)
    BY <1>2 DEF DevTakes, GpuAccepts
  <2>2. DevWrites(x, c, d, n, buf, GpuEncode(x, c, d).stats)
    BY <1>2, GpuWrites DEF GpuAccepts
  <2>. HIDE DEF buf
  <2>3. Carries(buf, x, G, n, AllDevCodes(x, c, d))
    BY <2>1, <2>2, GpuCarries
  <2>4. Grouped(x, G) /\ Numel(x.shape) = Len(x.data) /\ n = NGroups(G)
    BY InputFacts
  <2>5. Len(x.data) > 0 /\ n \in Nat
    <3>1. Blocked(G, Len(x.data), c.block)
      BY <2>1, DevBlocked
    <3>2. Len(x.data) \in Nat \ {0}
      BY <3>1 DEF Blocked
    <3>. HIDE DEF G
    <3>. QED BY <3>1, <3>2, BlockBegins
  <2>6. \A g \in 1..n : DevScale(x, c, d, g) \in Nat
    <3> TAKE g \in 1..n
    <3>1. DevWritten(x, c, d, g, buf)
      BY <2>1, <2>2, DevWritesGroups
    <3>2. Len(DevSeg(x, c, g)) > 0
      BY Zenon, <3>1 DEF DevWritten
    <3>. QED BY <2>1, <3>2, DevTypes DEF DevTakes
  <2>. HIDE DEF G, n
  <2>7. buf.body \in Seq(Int)
    BY <2>3, <2>4, <2>5, DecodeCarried
  <2>8. buf.widths \in Seq(Int)
    <3>1. buf.widths \in [1..n -> Widths \union {Raw}]
      BY <2>3 DEF Carries
    <3>2. Widths \union {Raw} \subseteq Int
      BY DEF Widths, Raw
    <3>. QED BY <2>5, <3>1, <3>2, NumbersIn
  <2>9. buf.scales \in Seq(Int)
    <3>1. buf.scales = [g \in 1..n |-> IF DevOk(x, c, d, g) THEN DevScale(x, c, d, g) ELSE 0]
      BY <2>2 DEF DevWrites
    <3>2. buf.scales \in [1..n -> Int]
      BY <2>6, <3>1
    <3>. QED BY <2>5, <3>2, NumbersIn
  <2>10. buf = Written(buf.header, buf.widths, buf.mins, buf.scales, buf.body)
    BY Zenon, <2>2 DEF DevWrites
  <2>11. Sealed(buf)
    BY Zenon, <2>7, <2>8, <2>9, <2>10 DEF Sealed
  <2>. QED BY <2>11 DEF buf
<1>. QED BY <1>1, <1>2

\* A byte of the payload that changes is noticed.
LEMMA DamageShows ==
  ASSUME NEW buf, Sealed(buf)
  PROVE  /\ buf.body # << >> => \A p \in {1, Len(buf.body)} :
              ~Readable([buf EXCEPT !.body[p] = IF @ = 0 THEN 1 ELSE 0])
         /\ buf.widths # << >> =>
              ~Readable([buf EXCEPT !.widths[1] = IF @ = Raw THEN 8 ELSE Raw])
         /\ buf.scales # << >> => ~Readable([buf EXCEPT !.scales[1] = @ + 1])
<1>0. PICK hd, ws, ms, sc, bd :
        /\ buf = [header |-> hd, widths |-> ws, mins |-> ms, scales |-> sc, body |-> bd,
                  crc |-> <<ws, ms, sc, bd>>]
        /\ ws \in Seq(Int) /\ sc \in Seq(Int) /\ bd \in Seq(Int)
  BY DEF Sealed, Written
<1>1. ws \in Seq(Int) /\ sc \in Seq(Int) /\ bd \in Seq(Int)
  BY <1>0
<1>6. buf = [header |-> hd, widths |-> ws, mins |-> ms, scales |-> sc, body |-> bd,
             crc |-> <<ws, ms, sc, bd>>]
  BY <1>0
<1>7. buf.widths = ws /\ buf.scales = sc /\ buf.body = bd
  BY <1>6
<1>2. ASSUME NEW s \in Seq(Int), s # << >>, NEW v, NEW p \in {1, Len(s)}, v # s[p]
      PROVE  [s EXCEPT ![p] = v] # s
  <2>1. p \in DOMAIN s
    BY <1>2
  <2>2. [s EXCEPT ![p] = v][p] = v
    BY <1>2, <2>1
  <2>. QED BY <1>2, <2>2
<1>3. bd # << >> => \A p \in {1, Len(bd)} :
        ~Readable([buf EXCEPT !.body[p] = IF @ = 0 THEN 1 ELSE 0])
  <2> SUFFICES ASSUME bd # << >>, NEW p \in {1, Len(bd)}
               PROVE  ~Readable([buf EXCEPT !.body[p] = IF @ = 0 THEN 1 ELSE 0])
    OBVIOUS
  <2> DEFINE v == IF bd[p] = 0 THEN 1 ELSE 0
             s == [bd EXCEPT ![p] = v]
  <2>1. [buf EXCEPT !.body[p] = IF @ = 0 THEN 1 ELSE 0]
          = [header |-> hd, widths |-> ws, mins |-> ms, scales |-> sc, body |-> s,
             crc |-> <<ws, ms, sc, bd>>]
    BY <1>6
  <2>2. v # bd[p]
    OBVIOUS
  <2>3. s # bd
    BY <1>1, <1>2, <2>2
  <2>. HIDE DEF s
  <2>. QED BY <2>1, <2>3 DEF Readable, Payload
<1>4. ws # << >> => ~Readable([buf EXCEPT !.widths[1] = IF @ = Raw THEN 8 ELSE Raw])
  <2> SUFFICES ASSUME ws # << >>
               PROVE  ~Readable([buf EXCEPT !.widths[1] = IF @ = Raw THEN 8 ELSE Raw])
    OBVIOUS
  <2> DEFINE v == IF ws[1] = Raw THEN 8 ELSE Raw
             s == [ws EXCEPT ![1] = v]
  <2>1. [buf EXCEPT !.widths[1] = IF @ = Raw THEN 8 ELSE Raw]
          = [header |-> hd, widths |-> s, mins |-> ms, scales |-> sc, body |-> bd,
             crc |-> <<ws, ms, sc, bd>>]
    BY <1>6
  <2>2. v # ws[1]
    BY DEF Raw
  <2>3. s # ws
    BY <1>1, <1>2, <2>2
  <2>. HIDE DEF s
  <2>. QED BY <2>1, <2>3 DEF Readable, Payload
<1>5. sc # << >> => ~Readable([buf EXCEPT !.scales[1] = @ + 1])
  <2> SUFFICES ASSUME sc # << >> PROVE ~Readable([buf EXCEPT !.scales[1] = @ + 1])
    OBVIOUS
  <2> DEFINE v == sc[1] + 1
             s == [sc EXCEPT ![1] = v]
  <2>1. [buf EXCEPT !.scales[1] = @ + 1]
          = [header |-> hd, widths |-> ws, mins |-> ms, scales |-> s, body |-> bd,
             crc |-> <<ws, ms, sc, bd>>]
    BY <1>6
  <2>2. v # sc[1]
    <3>1. sc[1] \in Int
      BY <1>1
    <3>. QED BY <3>1
  <2>3. s # sc
    BY <1>1, <1>2, <2>2
  <2>. HIDE DEF s
  <2>. QED BY <2>1, <2>3 DEF Readable, Payload
<1>. QED BY Zenon, <1>3, <1>4, <1>5, <1>7
-----------------------------------------------------------------------------
(* The link, inductively.                                                    *)

InputInv == \E i \in Inputs : tensor = i.tensor /\ cfg = i.cfg
OffInv == off \in Offs /\ (off # 0 => GpuAccepts(tensor, cfg))

HostResult == [status |-> "encoded", result |-> ReferenceEncode(tensor, cfg)]
DeviceResult ==
  IF GpuAccepts(tensor, cfg) THEN [status |-> "encoded", result |-> GpuEncode(tensor, cfg, off)]
  ELSE [status |-> "raised"]

EncodersInv ==
  /\ ref # Nothing => ref = HostResult
  /\ gpu # Nothing => ref # Nothing /\ gpu = DeviceResult

WireInv ==
  /\ by \in {"nobody", "host", "gpu"}
  /\ by = "nobody" => wire = Nothing /\ got = Nothing
  /\ by # "nobody" => wire.status \in {"intact", "damaged"}
  /\ wire.status = "intact" =>
       \/ by = "host" /\ ref # Nothing /\ wire.buf = ref.result.buf
       \/ by = "gpu" /\ gpu.status = "encoded" /\ wire.buf = gpu.result.buf
  /\ wire.status = "damaged" => ~Readable(wire.buf)

GotInv ==
  \/ got = Nothing
  \/ got = [status |-> "raised"]
  \/ wire.status = "intact" /\ got = [status |-> "decoded", data |-> Decode(wire.buf)]

LinkInv == InputInv /\ OffInv /\ EncodersInv /\ WireInv /\ GotInv
\* A buffer that arrives as it was sent carries the tensor.
LEMMA IntactCarries ==
  ASSUME WholeBytes, LinkInv, wire.status = "intact"
  PROVE  Sealed(wire.buf) /\ Sent(wire.buf, tensor, cfg)
<1>1. PICK i \in Inputs : tensor = i.tensor /\ cfg = i.cfg
  BY DEF LinkInv, InputInv
<1>2. WellFormed(tensor, cfg)
  BY <1>1, CodecAssumption
<1>3. off \in Offs /\ off \in Int
  BY DEF LinkInv, OffInv, Offs
<1>4. CASE by = "host" /\ ref # Nothing /\ wire.buf = ref.result.buf
  <2>1. ref = HostResult
    BY <1>4 DEF LinkInv, EncodersInv
  <2>2. wire.buf = ReferenceEncode(tensor, cfg).buf
    BY <1>4, <2>1 DEF HostResult
  <2>3. Sent(ReferenceEncode(tensor, cfg).buf, tensor, cfg)
    BY <1>1, ReferenceSends
  <2>4. Sealed(ReferenceEncode(tensor, cfg).buf)
    BY <1>2, ReferenceSealed
  <2>. QED BY Zenon, <2>2, <2>3, <2>4
<1>5. CASE by = "gpu" /\ gpu.status = "encoded" /\ wire.buf = gpu.result.buf
  <2>1. gpu # Nothing
    BY <1>5 DEF Nothing
  <2>2. gpu = DeviceResult
    BY <2>1 DEF LinkInv, EncodersInv
  <2>3. GpuAccepts(tensor, cfg)
    BY <1>5, <2>2 DEF DeviceResult
  <2>4. wire.buf = GpuEncode(tensor, cfg, off).buf
    BY <1>5, <2>2, <2>3 DEF DeviceResult
  <2>5. Sent(GpuEncode(tensor, cfg, off).buf, tensor, cfg)
    <3>1. Sent(GpuEncode(i.tensor, i.cfg, off).buf, i.tensor, i.cfg)
      BY Zenon, <1>1, <1>3, <2>3, GpuSends
    <3>. QED BY Zenon, <1>1, <3>1
  <2>6. (cfg.block * cfg.width) % 8 = 0
    BY <1>1, <2>3 DEF WholeBytes
  <2>7. Sealed(GpuEncode(tensor, cfg, off).buf)
    BY <1>2, <1>3, <2>3, <2>6, GpuSealed
  <2>. QED BY Zenon, <2>4, <2>5, <2>7
<1>. QED BY <1>4, <1>5 DEF LinkInv, WireInv

LEMMA InitLinkInv == Init => LinkInv
BY DEF Init, LinkInv, InputInv, OffInv, EncodersInv, WireInv, GotInv, Nothing

LEMMA NextLinkInv ==
  ASSUME WholeBytes, LinkInv, [Next]_vars
  PROVE  LinkInv'
<1>1. InputInv /\ OffInv /\ EncodersInv /\ WireInv /\ GotInv
  BY DEF LinkInv
<1>2. tensor' = tensor /\ cfg' = cfg /\ off' = off
  BY DEF Next, vars, EncodeInPieces, EncodeOnHost, EncodeOnGpu, Damage, Receive, Send
<1>3. InputInv' /\ OffInv'
  BY <1>1, <1>2 DEF InputInv, OffInv, GpuAccepts
<1>4. HostResult' = HostResult /\ DeviceResult' = DeviceResult
  BY <1>2 DEF HostResult, DeviceResult
<1>5. HostResult.status = "encoded" /\ HostResult # Nothing
      /\ DeviceResult.status \in {"encoded", "raised"} /\ DeviceResult # Nothing
  BY DEF HostResult, DeviceResult, Nothing
<1>7. CASE EncodeOnHost
  <2>1. /\ ref = Nothing /\ ref' = HostResult
        /\ gpu' = gpu /\ by' = by /\ wire' = wire /\ got' = got
    BY <1>7 DEF EncodeOnHost, HostResult
  <2>2. gpu = Nothing
    BY <1>1, <2>1 DEF EncodersInv
  <2>3. EncodersInv'
    BY <1>4, <2>1, <2>2 DEF EncodersInv, Nothing
  <2>4. WireInv' /\ GotInv'
    BY <1>1, <2>1 DEF WireInv, GotInv, Nothing
  <2>. QED BY <1>3, <2>3, <2>4 DEF LinkInv
<1>8. CASE EncodeOnGpu
  <2>1. /\ ref # Nothing /\ gpu = Nothing /\ gpu' = DeviceResult
        /\ ref' = ref /\ by' = by /\ wire' = wire /\ got' = got
    BY <1>8 DEF EncodeOnGpu, DeviceResult
  <2>2. EncodersInv'
    BY <1>1, <1>4, <2>1 DEF EncodersInv, Nothing
  <2>3. WireInv' /\ GotInv'
    BY <1>1, <2>1 DEF WireInv, GotInv, Nothing
  <2>. QED BY <1>3, <2>2, <2>3 DEF LinkInv
<1>9. CASE Send("host", ref) \/ Send("gpu", gpu)
  <2>1. PICK d, enc :
          /\ enc.status = "encoded" /\ by = "nobody" /\ by' = d
          /\ wire' = [status |-> "intact", buf |-> enc.result.buf]
          /\ ref' = ref /\ gpu' = gpu /\ got' = got
          /\ (d = "host" /\ enc = ref) \/ (d = "gpu" /\ enc = gpu)
    BY <1>9 DEF Send
  <2>2. EncodersInv'
    BY <1>1, <1>4, <2>1 DEF EncodersInv, Nothing
  <2>3. got = Nothing
    BY <1>1, <2>1 DEF WireInv
  <2>4. WireInv' /\ GotInv'
    BY <2>1, <2>3 DEF WireInv, GotInv, Nothing
  <2>. QED BY <1>3, <2>2, <2>4 DEF LinkInv
<1>10. CASE Damage
  <2>1. /\ wire.status = "intact" /\ got = Nothing
        /\ ref' = ref /\ gpu' = gpu /\ by' = by /\ got' = got
    BY <1>10 DEF Damage
  <2>2. Sealed(wire.buf)
    BY <2>1, IntactCarries
  <2>3. wire'.status = "damaged" /\ ~Readable(wire'.buf)
    <3>1. \/ /\ wire.buf.body # << >>
             /\ \E p \in {1, Len(wire.buf.body)} :
                  wire' = [status |-> "damaged",
                           buf |-> [wire.buf EXCEPT !.body[p] = IF @ = 0 THEN 1 ELSE 0]]
          \/ /\ wire.buf.widths # << >>
             /\ wire' = [status |-> "damaged",
                         buf |-> [wire.buf EXCEPT !.widths[1] = IF @ = Raw THEN 8 ELSE Raw]]
          \/ /\ wire.buf.scales # << >>
             /\ wire' = [status |-> "damaged", buf |-> [wire.buf EXCEPT !.scales[1] = @ + 1]]
      BY Zenon, <1>10 DEF Damage
    <3>2. \E y : wire' = [status |-> "damaged", buf |-> y] /\ ~Readable(y)
      BY Zenon, <2>2, <3>1, DamageShows
    <3>. QED BY <3>2
  <2>4. EncodersInv'
    BY <1>1, <1>4, <2>1 DEF EncodersInv, Nothing
  <2>5. by # "nobody"
    BY <1>1, <2>1 DEF WireInv, Nothing
  <2>6. WireInv' /\ GotInv'
    BY <1>1, <2>1, <2>3, <2>5 DEF WireInv, GotInv, Nothing
  <2>. QED BY <1>3, <2>4, <2>6 DEF LinkInv
<1>11. CASE Receive
  <2>1. /\ by # "nobody" /\ got = Nothing
        /\ got' = IF Readable(wire.buf)
                  THEN [status |-> "decoded", data |-> Decode(wire.buf)] ELSE [status |-> "raised"]
        /\ ref' = ref /\ gpu' = gpu /\ by' = by /\ wire' = wire
    BY <1>11 DEF Receive
  <2>2. EncodersInv'
    BY <1>1, <1>4, <2>1 DEF EncodersInv, Nothing
  <2>3. Readable(wire.buf) => wire.status = "intact"
    BY <1>1, <2>1 DEF WireInv
  <2>4. GotInv'
    BY <2>1, <2>3 DEF GotInv
  <2>5. WireInv'
    BY <1>1, <2>1 DEF WireInv
  <2>. QED BY <1>3, <2>2, <2>4, <2>5 DEF LinkInv
<1>12. CASE EncodeInPieces \/ UNCHANGED vars
  <2>1. ref' = ref /\ gpu' = gpu /\ by' = by /\ wire' = wire /\ got' = got
    BY <1>12 DEF EncodeInPieces, vars
  <2>2. EncodersInv'
    BY <1>1, <1>4, <2>1 DEF EncodersInv, Nothing
  <2>3. WireInv' /\ GotInv'
    BY <1>1, <2>1 DEF WireInv, GotInv
  <2>. QED BY <1>3, <2>2, <2>3 DEF LinkInv
<1>. QED BY Zenon, <1>7, <1>8, <1>9, <1>10, <1>11, <1>12 DEF Next

\* What has been received decodes what was sent.
LEMMA ReceivedDecodes ==
  ASSUME WholeBytes, LinkInv, got.status = "decoded"
  PROVE  /\ WellFormed(tensor, cfg) /\ Sent(wire.buf, tensor, cfg) /\ wire.status = "intact"
         /\ got.data = Decode(wire.buf)
<1>1. wire.status = "intact" /\ got = [status |-> "decoded", data |-> Decode(wire.buf)]
  BY DEF LinkInv, GotInv, Nothing
<1>2. Sent(wire.buf, tensor, cfg)
  BY <1>1, IntactCarries
<1>3. WellFormed(tensor, cfg)
  BY CodecAssumption DEF LinkInv, InputInv
<1>. QED BY <1>1, <1>2, <1>3

LEMMA GroupIsFinite ==
  ASSUME NEW i \in DOMAIN tensor.data
  PROVE  AllFinite(GroupOf(i)) <=> GroupFiniteAt(tensor, cfg, i)
BY DEF AllFinite, GroupOf, Groups, GroupFiniteAt, GroupsOf

\* In a group of finite values every value received is within eps of the one sent,
\* whichever encoder wrote it and however its divisions round (contract.py).
THEOREM BoundIsKept ==
  ASSUME WholeBytes, NoOverflow
  PROVE  Spec => []BoundHolds
<1>1. LinkInv => BoundHolds
  <2> SUFFICES ASSUME LinkInv, got.status = "decoded", NEW i \in DOMAIN tensor.data,
                      AllFinite(GroupOf(i))
               PROVE  Abs(got.data[i] - tensor.data[i]) <= cfg.eps
    BY DEF BoundHolds
  <2>1. /\ WellFormed(tensor, cfg) /\ Sent(wire.buf, tensor, cfg)
        /\ got.data = Decode(wire.buf)
    BY ReceivedDecodes
  <2>2. GroupFiniteAt(tensor, cfg, i)
    BY GroupIsFinite
  <2>3. i \in 1..Len(tensor.data)
    BY <2>1 DEF WellFormed
  <2>4. Abs(Decode(wire.buf)[i] - tensor.data[i]) <= cfg.eps
    BY <2>1, <2>2, <2>3, SentDecodes
  <2>. QED BY <2>1, <2>4
<1>. QED BY <1>1, InitLinkInv, NextLinkInv, PTL DEF Spec

\* A group that holds a value that is not finite is received as it was, to the last
\* element, and so is a tensor that bypasses the codec (contract.py).
THEOREM NonFiniteIsKept ==
  ASSUME WholeBytes
  PROVE  Spec => []NonFiniteIsExact
<1>1. LinkInv => NonFiniteIsExact
  <2> SUFFICES ASSUME LinkInv, got.status = "decoded", NEW i \in DOMAIN tensor.data,
                      ~AllFinite(GroupOf(i)) \/ wire.buf.header.groups = 0
               PROVE  got.data[i] = tensor.data[i]
    BY DEF NonFiniteIsExact
  <2>1. /\ WellFormed(tensor, cfg) /\ Sent(wire.buf, tensor, cfg)
        /\ got.data = Decode(wire.buf)
    BY ReceivedDecodes
  <2>2. ~GroupFiniteAt(tensor, cfg, i) \/ wire.buf.header.groups = 0
    BY GroupIsFinite
  <2>3. i \in 1..Len(tensor.data)
    BY <2>1 DEF WellFormed
  <2>4. Decode(wire.buf)[i] = tensor.data[i]
    BY <2>1, <2>2, <2>3, SentDecodes
  <2>. QED BY <2>1, <2>4
<1>. QED BY <1>1, InitLinkInv, NextLinkInv, PTL DEF Spec
-----------------------------------------------------------------------------
(* The two encoders, group by group.                                         *)

LEMMA EncodedGroupSplits ==
  ASSUME NEW x, NEW c, NEW seg \in Seq(Int)
  PROVE  LET e == EncodedGroup(x, c, seg)
             w == PredictedWidth(x, c, seg)
             r == ReadBack(seg, HostCodes(x, c, seg), w, GroupBounds(seg).min,
                           HostScale(x, c, seg), x.dtype)
         IN  /\ e.width = IF w = Raw \/ Missed(seg, r, c) THEN Raw ELSE w
             /\ e.scale = IF w = Raw \/ Missed(seg, r, c) THEN 0 ELSE HostScale(x, c, seg)
             /\ e.error = IF w = Raw \/ Missed(seg, r, c) THEN 0 ELSE WorstError(seg, r)
<1> DEFINE b == GroupBounds(seg)
           w == PredictedWidth(x, c, seg)
           scale == Scale(b.max - b.min, w, 0)
           codes == [k \in DOMAIN seg |-> Quantise(seg[k], b.min, scale, w)]
           rec == [k \in DOMAIN seg |-> Dequantise(b.min, codes[k], scale, x.dtype)]
           r == ReadBack(seg, HostCodes(x, c, seg), w, b.min, HostScale(x, c, seg), x.dtype)
           e == EncodedGroup(x, c, seg)
<1>1. e = IF w = Raw \/ Missed(seg, rec, c)
          THEN [width |-> Raw, min |-> b.min, scale |-> 0,
                chunk |-> ElementBytes(seg, x.dtype), error |-> 0]
          ELSE [width |-> w, min |-> b.min, scale |-> scale,
                chunk |-> Pack(codes, w), error |-> WorstError(seg, rec)]
  BY Zenon DEF EncodedGroup
<1>2. HostScale(x, c, seg) = scale /\ HostCodes(x, c, seg) = codes
  BY Zenon DEF HostScale, HostCodes, GroupCodes
<1>3. w # Raw => r = rec
  <2>1. DOMAIN seg = 1..Len(seg)
    OBVIOUS
  <2>2. w # Raw => r = [p \in 1..Len(seg) |->
                         Dequantise(b.min, HostCodes(x, c, seg)[p], HostScale(x, c, seg), x.dtype)]
    BY Zenon DEF ReadBack
  <2>3. [p \in 1..Len(seg) |-> Dequantise(b.min, HostCodes(x, c, seg)[p], HostScale(x, c, seg), x.dtype)]
          = rec
    BY Zenon, <1>2, <2>1
  <2>. QED BY Zenon, <2>2, <2>3
<1>. HIDE DEF w, r, rec, codes, scale, e, b
<1>4. /\ e.width = IF w = Raw \/ Missed(seg, rec, c) THEN Raw ELSE w
      /\ e.scale = IF w = Raw \/ Missed(seg, rec, c) THEN 0 ELSE scale
      /\ e.error = IF w = Raw \/ Missed(seg, rec, c) THEN 0 ELSE WorstError(seg, rec)
  BY <1>1
<1>5. /\ e.width = IF w = Raw \/ Missed(seg, r, c) THEN Raw ELSE w
      /\ e.scale = IF w = Raw \/ Missed(seg, r, c) THEN 0 ELSE HostScale(x, c, seg)
      /\ e.error = IF w = Raw \/ Missed(seg, r, c) THEN 0 ELSE WorstError(seg, r)
  BY <1>2, <1>3, <1>4
<1>. QED BY <1>5 DEF e, w, r, b

\* Group g as both leave it.
DevAlike(x, c, g) ==
  /\ HostGroup(x, c, g).width = IF DevOk(x, c, 0, g) THEN c.width ELSE Raw
  /\ HostGroup(x, c, g).scale = IF DevOk(x, c, 0, g) THEN DevScale(x, c, 0, g) ELSE 0
  /\ HostGroup(x, c, g).chunk = DevChunk(x, c, 0, g)
  /\ HostGroup(x, c, g).width # Raw => HostGroup(x, c, g).min = DevStats(x, c, g).min

LEMMA GroupsAlike ==
  ASSUME NEW x, NEW c, DevTakes(x, c), NEW g \in 1..NGroups(GroupsOf(x, c)),
         NEW buf, DevWritten(x, c, 0, g, buf)
  PROVE  DevAlike(x, c, g)
<1> DEFINE seg == DevSeg(x, c, g)
           e == EncodedGroup(x, c, seg)
           w == PredictedWidth(x, c, seg)
           b == GroupBounds(seg)
           D == DevGroupCodes(x, c, 0, g)
           lo == DevLo(x, c, 0, g)
           sc == DevScale(x, c, 0, g)
           H == HostCodes(x, c, seg)
           r == ReadBack(seg, H, w, b.min, HostScale(x, c, seg), x.dtype)
<1>1. /\ seg \in Seq(Int) /\ Len(seg) > 0
      /\ DevBack(x, c, 0, g) = ReadBack(seg, D, c.width, lo, sc, x.dtype)
  BY Zenon DEF DevWritten
<1>2. WellFormed(x, c) /\ c.width # Adaptive /\ 0 \in Int
  BY DEF DevTakes
<1>3. c.width \in Widths /\ c.width # Raw /\ c.width \in Widths \union {Adaptive}
  <2>1. c.width \in Widths
    BY <1>1, <1>2, DevTypes
  <2>. QED BY <2>1 DEF Widths, Raw
<1>4. HostGroup(x, c, g) = e
  BY DEF HostGroup, DevSeg
<1>5. ~HasNonFinite(seg) => DevStats(x, c, g) = b
  BY Zenon, <1>1, StatsAreBounds DEF DevStats
<1>6. DevFits(x, c, 0, g) <=> w # Raw
  <2>1. HasNonFinite(seg) => w = Raw /\ ~DevFits(x, c, 0, g)
    BY DEF PredictedWidth, DevFits
  <2>2. ~HasNonFinite(seg) =>
          w = IF HalfStepFits(b.max - b.min, Budget2(x, c, b), c.width, 0) THEN c.width ELSE Raw
    BY <1>2 DEF PredictedWidth
  <2>3. ~HasNonFinite(seg) =>
          (DevFits(x, c, 0, g) <=> HalfStepFits(b.max - b.min, Budget2(x, c, b), c.width, 0))
    BY <1>5 DEF DevFits
  <2>. HIDE DEF w, b
  <2>. QED BY <1>3, <2>1, <2>2, <2>3
<1>7. DevFits(x, c, 0, g) => w = c.width /\ lo = b.min /\ sc = HostScale(x, c, seg) /\ D = H
  <2>1. SUFFICES ASSUME DevFits(x, c, 0, g)
                 PROVE  w = c.width /\ lo = b.min /\ sc = HostScale(x, c, seg) /\ D = H
    OBVIOUS
  <2>2. w = c.width
    <3>1. w # Raw
      BY <1>6, <2>1
    <3>. QED BY <1>2, <1>3, <3>1, PredictedWidthType
  <2>3. DevStats(x, c, g) = b
    BY <1>5, <2>1 DEF DevFits
  <2>4. lo = b.min /\ sc = Scale(b.max - b.min, c.width, 0)
    BY <2>1, <2>3 DEF DevLo, DevScale
  <2>5. HostScale(x, c, seg) = Scale(b.max - b.min, w, 0)
    BY DEF HostScale
  <2>6. D = GroupCodes(seg, lo, sc, c.width) /\ H = GroupCodes(seg, b.min, HostScale(x, c, seg), w)
    BY DEF DevGroupCodes, HostCodes
  <2>. HIDE DEF w, lo, sc, D, H, b, seg
  <2>. QED BY Zenon, <2>2, <2>4, <2>5, <2>6
<1>8. DevOk(x, c, 0, g) <=> ~(w = Raw \/ Missed(seg, r, c))
  <2>1. DevOk(x, c, 0, g) <=> DevFits(x, c, 0, g) /\ ~Missed(seg, DevBack(x, c, 0, g), c)
    BY DEF DevOk
  <2>2. DevFits(x, c, 0, g) => DevBack(x, c, 0, g) = r
    BY Zenon, <1>1, <1>7
  <2>. HIDE DEF r, w, seg
  <2>. QED BY Zenon, <1>6, <2>1, <2>2
<1>9. /\ e.width = IF w = Raw \/ Missed(seg, r, c) THEN Raw ELSE w
      /\ e.scale = IF w = Raw \/ Missed(seg, r, c) THEN 0 ELSE HostScale(x, c, seg)
  BY Zenon, <1>1, EncodedGroupSplits
<1>10. e.chunk = Chunk(seg, H, e.width, x.dtype) /\ e.min = b.min
  <2>. HIDE DEF seg
  <2>. QED BY Zenon, <1>1, <1>3, EncodedGroupIs DEF seg
<1>11. DevOk(x, c, 0, g) => DevFits(x, c, 0, g)
  BY DEF DevOk
<1>12. DevChunk(x, c, 0, g) = Chunk(seg, D, IF DevOk(x, c, 0, g) THEN c.width ELSE Raw, x.dtype)
  BY Zenon, DevWidthsType DEF DevChunk
<1>. HIDE DEF r, w, seg, e, H, D, lo, sc, b
<1>13. e.width = IF DevOk(x, c, 0, g) THEN c.width ELSE Raw
  BY Zenon, <1>7, <1>8, <1>9, <1>11
<1>14. e.scale = IF DevOk(x, c, 0, g) THEN sc ELSE 0
  BY Zenon, <1>7, <1>8, <1>9, <1>11
<1>15. e.chunk = DevChunk(x, c, 0, g)
  <2>1. CASE DevOk(x, c, 0, g)
    BY Zenon, <1>7, <1>10, <1>11, <1>12, <1>13, <2>1
  <2>2. CASE ~DevOk(x, c, 0, g)
    <3>1. e.width = Raw /\ DevChunk(x, c, 0, g) = Chunk(seg, D, Raw, x.dtype)
      BY Zenon, <1>12, <1>13, <2>2
    <3>. QED BY Zenon, <1>10, <3>1 DEF Chunk
  <2>. QED BY <2>1, <2>2
<1>16. e.width # Raw => e.min = DevStats(x, c, g).min
  <2>1. DevFits(x, c, 0, g) => DevStats(x, c, g) = b
    BY <1>5 DEF DevFits, seg
  <2>. QED BY <1>10, <1>11, <1>13, <2>1
<1>17. DevAlike(x, c, g)
  BY <1>4, <1>13, <1>14, <1>15, <1>16 DEF DevAlike, sc
<1>. QED BY <1>17

\* The two results side by side.
Alike(r, g) ==
  /\ r.buf.widths = g.buf.widths /\ r.buf.scales = g.buf.scales /\ r.buf.body = g.buf.body
  /\ \A p \in DOMAIN r.buf.widths : r.buf.widths[p] # Raw => r.buf.mins[p] = g.buf.mins[p]
  /\ r.stats.bytes = g.stats.bytes /\ r.stats.nonfinite = g.stats.nonfinite

LEMMA ResultsAlike ==
  ASSUME NEW x, NEW c, WellFormed(x, c), GpuAccepts(x, c), Supported(x),
         (c.block * c.width) % 8 = 0
  PROVE  Alike(ReferenceEncode(x, c), GpuEncode(x, c, 0))
<1>1. CASE Len(x.data) < c.block
  <2>1. GpuEncode(x, c, 0) = ReferenceEncode(x, c)
    BY <1>1 DEF GpuEncode
  <2>. QED BY <2>1 DEF Alike
<1>2. CASE ~(Len(x.data) < c.block)
  <2> DEFINE n == NGroups(GroupsOf(x, c))
             R == ReferenceEncode(x, c)
             D == GpuEncode(x, c, 0)
  <2>1. DevTakes(x, c) /\ BypassReasonOf(x, c) = "none" /\ c.allocation = "blockwise" /\ 0 \in Int
    BY <1>2 DEF DevTakes, BypassReasonOf, GpuAccepts
  <2>2. HostWrites(x, c, n, R.buf, R.stats)
    BY <2>1, ReferenceWrites
  <2>3. DevWrites(x, c, 0, n, D.buf, D.stats)
    BY <1>2, <2>1, GpuWrites
  <2>4. \A g \in 1..n : DevAlike(x, c, g)
    <3> TAKE g \in 1..n
    <3>1. DevWritten(x, c, 0, g, D.buf)
      <4>. HIDE DEF D
      <4>. QED BY <2>1, <2>3, DevWritesGroups
    <3>. QED BY <2>1, <3>1, GroupsAlike
  <2>5. DevWidths(x, c, 0) = [g \in 1..n |-> IF DevOk(x, c, 0, g) THEN c.width ELSE Raw]
    BY DEF DevWidths
  <2>6. Assembled(x, c, KernelPack(DevCodes(x, c, 0), c.width), DevWidths(x, c, 0))
          = FlattenSeq([g \in 1..n |-> DevChunk(x, c, 0, g)])
    BY <2>1, AssembledIs
  <2>. HIDE DEF n, R, D
  <2>7. /\ R.buf.widths = [g \in 1..n |-> HostGroup(x, c, g).width]
        /\ R.buf.mins = [g \in 1..n |-> HostGroup(x, c, g).min]
        /\ R.buf.scales = [g \in 1..n |-> HostGroup(x, c, g).scale]
        /\ R.buf.body = FlattenSeq([g \in 1..n |-> HostGroup(x, c, g).chunk])
        /\ R.stats.bytes = PayloadBytes(R.buf)
        /\ R.stats.nonfinite = Cardinality({g \in 1..n : HasNonFinite(DevSeg(x, c, g))})
    BY Zenon, <2>2 DEF HostWrites, DevSeg
  <2>8. /\ D.buf.widths = [g \in 1..n |-> IF DevOk(x, c, 0, g) THEN c.width ELSE Raw]
        /\ D.buf.mins = [g \in 1..n |-> DevStats(x, c, g).min]
        /\ D.buf.scales = [g \in 1..n |-> IF DevOk(x, c, 0, g) THEN DevScale(x, c, 0, g) ELSE 0]
        /\ D.buf.body = FlattenSeq([g \in 1..n |-> DevChunk(x, c, 0, g)])
        /\ D.stats.bytes = PayloadBytes(D.buf)
        /\ D.stats.nonfinite = Cardinality({g \in 1..n : HasNonFinite(DevSeg(x, c, g))})
    BY Zenon, <2>3, <2>5, <2>6 DEF DevWrites
  <2>9. /\ \A g \in 1..n : HostGroup(x, c, g).width = IF DevOk(x, c, 0, g) THEN c.width ELSE Raw
        /\ \A g \in 1..n : HostGroup(x, c, g).scale
                             = IF DevOk(x, c, 0, g) THEN DevScale(x, c, 0, g) ELSE 0
        /\ \A g \in 1..n : HostGroup(x, c, g).chunk = DevChunk(x, c, 0, g)
        /\ \A g \in 1..n : HostGroup(x, c, g).width # Raw =>
                             HostGroup(x, c, g).min = DevStats(x, c, g).min
    BY Zenon, <2>4 DEF DevAlike
  <2>10. R.buf.widths = D.buf.widths
    <3>1. [g \in 1..n |-> HostGroup(x, c, g).width]
            = [g \in 1..n |-> IF DevOk(x, c, 0, g) THEN c.width ELSE Raw]
      BY <2>9
    <3>. QED BY Zenon, <2>7, <2>8, <3>1
  <2>11. R.buf.scales = D.buf.scales
    BY ZenonT(60), <2>7, <2>8, <2>9
  <2>12. R.buf.body = D.buf.body
    <3>1. [g \in 1..n |-> HostGroup(x, c, g).chunk] = [g \in 1..n |-> DevChunk(x, c, 0, g)]
      BY Zenon, <2>9
    <3>. QED BY Zenon, <2>7, <2>8, <3>1
  <2>13. \A p \in DOMAIN R.buf.widths : R.buf.widths[p] # Raw => R.buf.mins[p] = D.buf.mins[p]
    <3>1. DOMAIN R.buf.widths = 1..n
      BY <2>7
    <3>2. \A p \in 1..n : /\ R.buf.widths[p] = HostGroup(x, c, p).width
                          /\ R.buf.mins[p] = HostGroup(x, c, p).min
                          /\ D.buf.mins[p] = DevStats(x, c, p).min
      BY <2>7, <2>8
    <3>. QED BY Zenon, <2>9, <3>1, <3>2
  <2>14. R.stats.bytes = D.stats.bytes
    <3>1. PayloadBytes(R.buf) = PayloadBytes(D.buf)
      BY Zenon, <2>10, <2>12 DEF PayloadBytes
    <3>. QED BY Zenon, <2>7, <2>8, <3>1
  <2>15. R.stats.nonfinite = D.stats.nonfinite
    BY Zenon, <2>7, <2>8
  <2>16. Alike(R, D)
    BY Zenon, <2>10, <2>11, <2>12, <2>13, <2>14, <2>15 DEF Alike
  <2>. QED BY <2>16 DEF R, D
<1>. QED BY <1>1, <1>2

\* A device's division is at most a step from the host's.
LEMMA ScaleNear ==
  ASSUME NEW range \in Nat, NEW w \in Widths, NEW d \in Offs
  PROVE  /\ Scale(range, w, 0) \in Nat /\ Scale(range, w, d) \in Nat
         /\ Abs(Scale(range, w, 0) - Scale(range, w, d)) <= 1
         /\ Scale(range, w, 0) <= Scale(range, w, d) + 1
<1>1. Scale(range, w, 0) \in Nat /\ Scale(range, w, d) \in Nat
  BY ScaleType DEF Offs
<1>2. CASE range = 0
  <2>1. Scale(range, w, 0) = 0 /\ Scale(range, w, d) = 0
    BY <1>2 DEF Scale
  <2>. QED BY <2>1 DEF Abs
<1>3. CASE range # 0
  <2> DEFINE q == RoundDiv(range * Res, Power(w) - 1)
  <2>1. q \in Int
    <3>1. Power(w) \in Nat /\ Power(w) - 1 \in Nat \ {0} /\ Res \in Nat
      BY Powers, CodecAssumption DEF Widths
    <3>2. range * Res \in Int
      BY <3>1
    <3>. QED BY <3>1, <3>2, RoundDivType
  <2>2. w # Raw
    BY DEF Widths, Raw
  <2>3. Scale(range, w, 0) = Max({0, q + 0}) /\ Scale(range, w, d) = Max({0, q + d})
    BY <1>3, <2>2 DEF Scale
  <2>. HIDE DEF q
  <2>4. q + 0 = q /\ q + d \in Int /\ d \in {-1, 0, 1} /\ 0 \in Int
    BY <2>1 DEF Offs
  <2> DEFINE a == Scale(range, w, 0)
             b == Scale(range, w, d)
  <2>5. a \in {0, q} /\ 0 <= a /\ q <= a /\ b \in {0, q + d} /\ 0 <= b /\ q + d <= b
    <3>1. a = Max({0, q}) /\ b = Max({0, q + d})
      BY Zenon, <2>3, <2>4
    <3>2. Max({0, q}) \in {0, q} /\ 0 <= Max({0, q}) /\ q <= Max({0, q})
      BY <2>1, <2>4, PairExtremes
    <3>3. /\ Max({0, q + d}) \in {0, q + d}
          /\ 0 <= Max({0, q + d}) /\ q + d <= Max({0, q + d})
      BY <2>4, PairExtremes
    <3>. QED BY Zenon, <3>1, <3>2, <3>3
  <2>6. a \in Nat /\ b \in Nat
    BY <1>1
  <2>. HIDE DEF a, b
  <2>7. a - b <= 1 /\ b - a <= 1 /\ a <= b + 1
    BY <2>1, <2>4, <2>5, <2>6
  <2>8. Abs(a - b) <= 1
    BY <2>6, <2>7 DEF Abs
  <2>. QED BY <1>1, <2>7, <2>8 DEF a, b
<1>. QED BY <1>2, <1>3

\* Doubtful, of a group's values.
DoubtfulSeg(x, c, seg) ==
  LET b       == GroupBounds(seg)
      budget2 == Budget2(x, c, b)
  IN  /\ ~HasNonFinite(seg)
      /\ budget2 > 0 /\ Scale(b.max - b.min, c.width, 0) <= budget2 * Res + 1

LEMMA BudgetType ==
  ASSUME NEW x, NEW c, c.eps \in Nat, NEW b, b.min \in Int, b.max \in Int
  PROVE  Budget2(x, c, b) \in Int
<1>1. Abs(b.min) \in Nat /\ Abs(b.max) \in Nat
  BY AbsType
<1>2. Max({Abs(b.min), Abs(b.max)}) \in Nat
  <2>1. \A u, v \in Nat : Max({u, v}) \in Nat
    <3> TAKE u, v \in Nat
    <3>1. u \in Int /\ v \in Int
      OBVIOUS
    <3>2. Max({u, v}) \in {u, v}
      BY ONLY <3>1, PairExtremes
    <3>. QED BY <3>2
  <2>. QED BY <1>1, <2>1
<1>3. Spacing(Max({Abs(b.min), Abs(b.max)}), x.dtype) \in Nat
  BY <1>2, SpacingType
<1>. QED BY <1>3 DEF Budget2

\* Group g as the two leave it, whatever the device's division does.
DevNear(x, c, d, g) ==
  /\ HostGroup(x, c, g).width \in {Raw, c.width}
  /\ (HostGroup(x, c, g).width # Raw) # DevOk(x, c, d, g) =>
       d # 0 /\ DoubtfulSeg(x, c, DevSeg(x, c, g))
  /\ HostGroup(x, c, g).width # Raw /\ DevOk(x, c, d, g) =>
       /\ HostGroup(x, c, g).min = DevStats(x, c, g).min
       /\ Abs(HostGroup(x, c, g).scale - DevScale(x, c, d, g)) <= 1

LEMMA GroupsNear ==
  ASSUME NEW x, NEW c, DevTakes(x, c), NEW d \in Offs, NEW g \in 1..NGroups(GroupsOf(x, c)),
         NEW buf, DevWritten(x, c, d, g, buf)
  PROVE  DevNear(x, c, d, g)
<1> DEFINE seg == DevSeg(x, c, g)
           e == EncodedGroup(x, c, seg)
           b == GroupBounds(seg)
           t == Budget2(x, c, b)
           range == b.max - b.min
           doubtful == DoubtfulSeg(x, c, seg)
<1>1. seg \in Seq(Int) /\ Len(seg) > 0
  BY Zenon DEF DevWritten
<1>2. WellFormed(x, c) /\ c.width # Adaptive /\ d \in Int
  BY DEF DevTakes, Offs
<1>3. c.width \in Widths /\ c.width # Raw /\ c.width \in Widths \union {Adaptive} /\ c.eps \in Nat
  <2>1. c.width \in Widths
    BY <1>1, <1>2, DevTypes
  <2>. QED BY <1>2, <2>1, InputFacts DEF Widths, Raw
<1>4. HostGroup(x, c, g) = e
  BY DEF HostGroup, DevSeg
<1>5. range \in Nat
  <2>1. b.min \in Int /\ b.max \in Int /\ b.min <= b.max
    <3>. HIDE DEF seg
    <3>. QED BY <1>1, GroupBoundsType
  <2>. HIDE DEF b
  <2>. QED BY <2>1
<1>6. t \in Int
  <2>1. b.min \in Int /\ b.max \in Int
    <3>. HIDE DEF seg
    <3>. QED BY <1>1, GroupBoundsType
  <2>. HIDE DEF b
  <2>. QED BY <1>3, <2>1, BudgetType
<1>7. t * Res \in Int
  <2>1. Res \in Int
    BY CodecAssumption
  <2>2. \A u, v \in Int : u * v \in Int
    OBVIOUS
  <2>. HIDE DEF t
  <2>. QED BY <1>6, <2>1, <2>2
<1>8. /\ Scale(range, c.width, 0) \in Nat /\ Scale(range, c.width, d) \in Nat
      /\ Abs(Scale(range, c.width, 0) - Scale(range, c.width, d)) <= 1
      /\ Scale(range, c.width, 0) <= Scale(range, c.width, d) + 1
  <2>. HIDE DEF range
  <2>. QED BY <1>3, <1>5, ScaleNear
<1>9. doubtful <=> /\ ~HasNonFinite(seg) /\ t > 0
                   /\ Scale(range, c.width, 0) <= t * Res + 1
  BY DEF DoubtfulSeg
<1>10. e.width # Raw => /\ ~HasNonFinite(seg) /\ e.width = c.width /\ e.min = b.min
                        /\ e.scale = Scale(range, c.width, 0)
                        /\ HalfStepFits(range, t, c.width, 0)
  <2>1. SUFFICES ASSUME e.width # Raw
                 PROVE  /\ ~HasNonFinite(seg) /\ e.width = c.width /\ e.min = b.min
                        /\ e.scale = Scale(range, c.width, 0)
                        /\ HalfStepFits(range, t, c.width, 0)
    OBVIOUS
  <2> DEFINE w == PredictedWidth(x, c, seg)
  <2>2. /\ ~HasNonFinite(seg) /\ e.width = w /\ e.min = b.min
        /\ e.scale = HostScale(x, c, seg)
    <3>. HIDE DEF seg
    <3>. QED BY <1>1, <1>3, <2>1, EncodedGroupIs
  <2>3. w = IF HalfStepFits(range, t, c.width, 0) THEN c.width ELSE Raw
    BY <1>2, <2>2 DEF PredictedWidth
  <2>4. HostScale(x, c, seg) = Scale(range, w, 0)
    BY DEF HostScale
  <2>. HIDE DEF w, e, range, t, b, seg
  <2>. QED BY <2>1, <2>2, <2>3, <2>4
<1>11. DevOk(x, c, d, g) => /\ ~HasNonFinite(seg) /\ DevStats(x, c, g) = b
                            /\ DevScale(x, c, d, g) = Scale(range, c.width, d)
                            /\ HalfStepFits(range, t, c.width, d)
  <2>1. SUFFICES ASSUME DevOk(x, c, d, g)
                 PROVE  /\ ~HasNonFinite(seg) /\ DevStats(x, c, g) = b
                        /\ DevScale(x, c, d, g) = Scale(range, c.width, d)
                        /\ HalfStepFits(range, t, c.width, d)
    OBVIOUS
  <2>2. DevFits(x, c, d, g)
    BY <2>1 DEF DevOk
  <2>3. ~HasNonFinite(seg) /\ DevStats(x, c, g) = b
    BY <1>1, <1>2, <2>2, DevTypes
  <2>4. DevScale(x, c, d, g) = Scale(range, c.width, d)
    BY Zenon, <2>2, <2>3 DEF DevScale
  <2>5. HalfStepFits(range, t, c.width, d)
    BY Zenon, <2>2, <2>3 DEF DevFits
  <2>. QED BY <2>3, <2>4, <2>5
<1>. HIDE DEF seg, e, b, t, range, doubtful
<1>12. e.width # Raw => doubtful
  BY <1>7, <1>8, <1>9, <1>10 DEF HalfStepFits
<1>13. DevOk(x, c, d, g) => doubtful
  BY <1>7, <1>8, <1>9, <1>11 DEF HalfStepFits
<1>14. d = 0 => (e.width # Raw <=> DevOk(x, c, d, g))
  <2>1. SUFFICES ASSUME d = 0 PROVE e.width # Raw <=> DevOk(x, c, 0, g)
    OBVIOUS
  <2>2. DevWritten(x, c, 0, g, buf)
    BY <2>1
  <2>3. DevAlike(x, c, g)
    BY <2>2, GroupsAlike
  <2>4. e.width = IF DevOk(x, c, 0, g) THEN c.width ELSE Raw
    BY Zenon, <1>4, <2>3 DEF DevAlike
  <2>. QED BY <1>3, <2>4
<1>15. e.width \in {Raw, c.width}
  BY <1>10
<1>16. (e.width # Raw) # DevOk(x, c, d, g) => d # 0 /\ doubtful
  <2>1. DevOk(x, c, d, g) \in BOOLEAN
    BY DEF DevOk, DevFits
  <2>. QED BY <1>12, <1>13, <1>14, <2>1
<1>17. e.width # Raw /\ DevOk(x, c, d, g) =>
         e.min = DevStats(x, c, g).min /\ Abs(e.scale - DevScale(x, c, d, g)) <= 1
  <2>1. SUFFICES ASSUME e.width # Raw, DevOk(x, c, d, g)
                 PROVE  e.min = DevStats(x, c, g).min /\ Abs(e.scale - DevScale(x, c, d, g)) <= 1
    OBVIOUS
  <2>2. e.min = b.min /\ e.scale = Scale(range, c.width, 0) /\ DevStats(x, c, g) = b
        /\ DevScale(x, c, d, g) = Scale(range, c.width, d)
    BY <1>10, <1>11, <2>1
  <2>. QED BY Zenon, <1>8, <2>2
<1>. QED BY Zenon, <1>4, <1>15, <1>16, <1>17 DEF DevNear, doubtful, seg

\* Two buffers of one tensor and the same widths are of one length.
LEMMA SameLength ==
  ASSUME NEW x, NEW G, Grouped(x, G), NEW n \in Nat,
         NEW u, NEW v, NEW K, NEW L, Carries(u, x, G, n, K), Carries(v, x, G, n, L),
         u.widths = v.widths
  PROVE  Len(u.body) = Len(v.body)
<1> DEFINE seg(g) == Segment(x, G, g - 1)
           z == [g \in 1..n |-> GroupBytes(x.dtype, Len(seg(g)), u.widths[g])]
           o == Starts(z)
<1>1. \A g \in 1..n : seg(g) \in Seq(Int)
  BY SegmentType
<1>2. ASSUME NEW buf, NEW codes, Carries(buf, x, G, n, codes), buf.widths = u.widths
      PROVE  Len(buf.body) = o[n + 1]
  <2> DEFINE s == [g \in 1..n |-> Chunk(seg(g), codes[g], buf.widths[g], x.dtype)]
  <2>1. \A g \in 1..n : buf.widths[g] \in Widths \union {Raw} /\ CodesFor(codes[g], buf.widths[g], seg(g))
    BY <1>2 DEF Carries
  <2>2. \A g \in 1..n : s[g] \in Seq(Int) /\ Len(s[g]) = z[g] /\ z[g] \in Nat
    <3> TAKE g \in 1..n
    <3> DEFINE c == Chunk(seg(g), codes[g], buf.widths[g], x.dtype)
    <3>1. seg(g) \in Seq(Int)
      BY <1>1
    <3>2. buf.widths[g] \in Widths \union {Raw} /\ CodesFor(codes[g], buf.widths[g], seg(g))
      BY <2>1
    <3>3. /\ c \in Seq(Int) /\ Len(c) = GroupBytes(x.dtype, Len(seg(g)), buf.widths[g])
          /\ GroupBytes(x.dtype, Len(seg(g)), buf.widths[g]) \in Nat
      <4>. HIDE DEF seg
      <4>. QED BY <3>1, <3>2, ChunkType
    <3>4. s[g] = c /\ z[g] = GroupBytes(x.dtype, Len(seg(g)), buf.widths[g])
      BY <1>2
    <3>. QED BY <3>3, <3>4
  <2>3. s \in [1..n -> Seq(Int)] /\ z \in [1..n -> Nat]
    <3>1. s = [g \in 1..n |-> s[g]] /\ z = [g \in 1..n |-> z[g]]
      OBVIOUS
    <3>. HIDE DEF s, z
    <3>. QED BY <2>2, <3>1
  <2>4. buf.body = FlattenSeq(s)
    BY <1>2 DEF Carries
  <2>. HIDE DEF s
  <2>5. /\ o \in [1..(n + 1) -> Nat] /\ o[1] = 0
        /\ \A g \in 1..n : o[g + 1] = o[g] + z[g]
    <3>. HIDE DEF z
    <3>. QED BY <2>3, StartsAre
  <2>. HIDE DEF o
  <2>6. \A g \in 1..n : o[g + 1] = o[g] + Len(s[g])
    BY Zenon, <2>2, <2>5
  <2>. HIDE DEF z
  <2>7. Laid(Int, n, s, o)
    BY <2>3, <2>5, <2>6, FlattenLaid
  <2>. QED BY Zenon, <2>4, <2>7 DEF Laid
<1>. HIDE DEF o
<1>3. Len(u.body) = o[n + 1]
  BY <1>2
<1>4. Len(v.body) = o[n + 1]
  BY <1>2
<1>. QED BY <1>3, <1>4

\* What the two write, side by side: the second half of EncodersAgree.
Near(r, g, x, c, d) ==
  /\ DOMAIN r.buf.widths = DOMAIN g.buf.widths
  /\ r.stats.nonfinite = g.stats.nonfinite
  /\ \A k \in DOMAIN r.buf.widths :
       /\ r.buf.widths[k] # g.buf.widths[k] => d # 0 /\ DoubtfulSeg(x, c, DevSeg(x, c, k))
       /\ r.buf.widths[k] # Raw /\ g.buf.widths[k] # Raw =>
            r.buf.mins[k] = g.buf.mins[k] /\ Abs(r.buf.scales[k] - g.buf.scales[k]) <= 1
  /\ r.buf.widths = g.buf.widths => r.stats.bytes = g.stats.bytes

LEMMA ResultsNear ==
  ASSUME NEW x, NEW c, WellFormed(x, c), GpuAccepts(x, c), Supported(x),
         (c.block * c.width) % 8 = 0, NEW d \in Offs
  PROVE  Near(ReferenceEncode(x, c), GpuEncode(x, c, d), x, c, d)
<1>1. CASE Len(x.data) < c.block
  <2>1. GpuEncode(x, c, d) = ReferenceEncode(x, c)
    BY <1>1 DEF GpuEncode
  <2>2. BypassReasonOf(x, c) # "none"
    BY <1>1 DEF BypassReasonOf
  <2>3. ReferenceEncode(x, c).buf.widths = << >>
    <3>1. ReferenceEncode(x, c) = Bypass(x, c, BypassReasonOf(x, c))
      BY <2>2 DEF ReferenceEncode
    <3>. QED BY <3>1 DEF Bypass, Written
  <2>. QED BY <2>1, <2>3 DEF Near
<1>2. CASE ~(Len(x.data) < c.block)
  <2> DEFINE n == NGroups(GroupsOf(x, c))
             R == ReferenceEncode(x, c)
             D == GpuEncode(x, c, d)
  <2>1. /\ DevTakes(x, c) /\ BypassReasonOf(x, c) = "none" /\ c.allocation = "blockwise"
        /\ d \in Int /\ Grouped(x, GroupsOf(x, c))
    BY <1>2, InputFacts DEF DevTakes, BypassReasonOf, GpuAccepts, Offs
  <2>2. HostWrites(x, c, n, R.buf, R.stats)
    BY <2>1, ReferenceWrites
  <2>3. DevWrites(x, c, d, n, D.buf, D.stats)
    BY <1>2, <2>1, GpuWrites
  <2>4. \A g \in 1..n : DevNear(x, c, d, g)
    <3> TAKE g \in 1..n
    <3>1. DevWritten(x, c, d, g, D.buf)
      <4>. HIDE DEF D
      <4>. QED BY <2>1, <2>3, DevWritesGroups
    <3>. QED BY <2>1, <3>1, GroupsNear
  <2>5. DevWidths(x, c, d) = [g \in 1..n |-> IF DevOk(x, c, d, g) THEN c.width ELSE Raw]
    BY DEF DevWidths
  <2>6. Carries(R.buf, x, GroupsOf(x, c), n, AllHostCodes(x, c)) /\ n \in Nat
    BY <2>1, ReferenceCarries
  <2>7. Carries(D.buf, x, GroupsOf(x, c), n, AllDevCodes(x, c, d))
    <3>. HIDE DEF D
    <3>. QED BY <2>1, <2>3, GpuCarries
  <2>8. c.width # Raw
    BY DEF GpuAccepts, Raw, Adaptive
  <2>. HIDE DEF n, R, D
  <2>9. /\ R.buf.widths = [g \in 1..n |-> HostGroup(x, c, g).width]
        /\ R.buf.mins = [g \in 1..n |-> HostGroup(x, c, g).min]
        /\ R.buf.scales = [g \in 1..n |-> HostGroup(x, c, g).scale]
        /\ R.stats.bytes = PayloadBytes(R.buf)
        /\ R.stats.nonfinite = Cardinality({g \in 1..n : HasNonFinite(DevSeg(x, c, g))})
    BY Zenon, <2>2 DEF HostWrites, DevSeg
  <2>10. /\ D.buf.widths = [g \in 1..n |-> IF DevOk(x, c, d, g) THEN c.width ELSE Raw]
         /\ D.buf.mins = [g \in 1..n |-> DevStats(x, c, g).min]
         /\ D.buf.scales = [g \in 1..n |-> IF DevOk(x, c, d, g) THEN DevScale(x, c, d, g) ELSE 0]
         /\ D.stats.bytes = PayloadBytes(D.buf)
         /\ D.stats.nonfinite = Cardinality({g \in 1..n : HasNonFinite(DevSeg(x, c, g))})
    BY Zenon, <2>3, <2>5 DEF DevWrites
  <2>11. DOMAIN R.buf.widths = 1..n /\ DOMAIN D.buf.widths = 1..n
    BY <2>9, <2>10
  <2>12. ASSUME NEW k \in 1..n
         PROVE  /\ R.buf.widths[k] # D.buf.widths[k] => d # 0 /\ DoubtfulSeg(x, c, DevSeg(x, c, k))
                /\ R.buf.widths[k] # Raw /\ D.buf.widths[k] # Raw =>
                     R.buf.mins[k] = D.buf.mins[k] /\ Abs(R.buf.scales[k] - D.buf.scales[k]) <= 1
    <3>1. /\ R.buf.widths[k] = HostGroup(x, c, k).width
          /\ R.buf.mins[k] = HostGroup(x, c, k).min
          /\ R.buf.scales[k] = HostGroup(x, c, k).scale
          /\ D.buf.widths[k] = IF DevOk(x, c, d, k) THEN c.width ELSE Raw
          /\ D.buf.mins[k] = DevStats(x, c, k).min
          /\ D.buf.scales[k] = IF DevOk(x, c, d, k) THEN DevScale(x, c, d, k) ELSE 0
      BY <2>9, <2>10
    <3>2. DevNear(x, c, d, k)
      BY <2>4
    <3>3. R.buf.widths[k] # D.buf.widths[k] => d # 0 /\ DoubtfulSeg(x, c, DevSeg(x, c, k))
      <4>1. SUFFICES ASSUME R.buf.widths[k] # D.buf.widths[k]
                     PROVE  d # 0 /\ DoubtfulSeg(x, c, DevSeg(x, c, k))
        OBVIOUS
      <4>2. HostGroup(x, c, k).width \in {Raw, c.width}
        BY <3>2 DEF DevNear
      <4>3. CASE DevOk(x, c, d, k)
        <5>1. ~(HostGroup(x, c, k).width # Raw)
          BY <3>1, <4>1, <4>2, <4>3
        <5>2. (HostGroup(x, c, k).width # Raw) # DevOk(x, c, d, k)
          BY <4>3, <5>1
        <5>. QED BY Zenon, <3>2, <5>2 DEF DevNear
      <4>4. CASE ~DevOk(x, c, d, k)
        <5>1. HostGroup(x, c, k).width # Raw
          BY <3>1, <4>1, <4>4
        <5>2. (HostGroup(x, c, k).width # Raw) # DevOk(x, c, d, k)
          BY <4>4, <5>1
        <5>. QED BY Zenon, <3>2, <5>2 DEF DevNear
      <4>. QED BY <4>3, <4>4
    <3>4. R.buf.widths[k] # Raw /\ D.buf.widths[k] # Raw =>
            R.buf.mins[k] = D.buf.mins[k] /\ Abs(R.buf.scales[k] - D.buf.scales[k]) <= 1
      BY Zenon, <3>1, <3>2 DEF DevNear
    <3>. QED BY <3>3, <3>4
  <2>13. R.buf.widths = D.buf.widths => R.stats.bytes = D.stats.bytes
    <3>1. SUFFICES ASSUME R.buf.widths = D.buf.widths PROVE R.stats.bytes = D.stats.bytes
      OBVIOUS
    <3>2. Len(R.buf.body) = Len(D.buf.body)
      BY <2>1, <2>6, <2>7, <3>1, SameLength
    <3>. QED BY Zenon, <2>9, <2>10, <3>1, <3>2 DEF PayloadBytes
  <2>14. R.stats.nonfinite = D.stats.nonfinite
    BY Zenon, <2>9, <2>10
  <2>15. Near(R, D, x, c, d)
    BY Zenon, <2>11, <2>12, <2>13, <2>14 DEF Near
  <2>. QED BY <2>15 DEF R, D
<1>. QED BY <1>1, <1>2

\* The receivers of the two buffers agree within twice the bound, and exactly on a group
\* that is not finite; of a dtype the codec knows the buffers have the same groups and
\* sizes, differ in what they compress only in a group whose prediction the device's
\* rounding leaves in doubt, and are the same bytes when the divisions agree
\* (tests/test_gpu_equivalence.py).
THEOREM EncodersAgreeAlways ==
  ASSUME WholeBytes, NoOverflow
  PROVE  Spec => []EncodersAgree
<1>1. LinkInv => EncodersAgree
  <2> SUFFICES ASSUME LinkInv, gpu.status = "encoded" PROVE EncodersAgree
    BY DEF EncodersAgree
  <2>1. gpu # Nothing
    BY DEF Nothing
  <2>2. gpu = DeviceResult /\ ref = HostResult
    BY <2>1 DEF LinkInv, EncodersInv
  <2>3. GpuAccepts(tensor, cfg)
    BY <2>2 DEF DeviceResult
  <2>4. gpu.result = GpuEncode(tensor, cfg, off) /\ ref.result = ReferenceEncode(tensor, cfg)
    BY <2>2, <2>3 DEF DeviceResult, HostResult
  <2>5. PICK i \in Inputs : tensor = i.tensor /\ cfg = i.cfg
    BY DEF LinkInv, InputInv
  <2>6. WellFormed(tensor, cfg) /\ (cfg.block * cfg.width) % 8 = 0 /\ off \in Offs
    BY <2>3, <2>5, CodecAssumption DEF LinkInv, OffInv, WholeBytes
  <2>7. Sent(ref.result.buf, tensor, cfg) /\ Sent(gpu.result.buf, tensor, cfg)
    <3>1. Sent(ReferenceEncode(i.tensor, i.cfg).buf, i.tensor, i.cfg)
      BY ReferenceSends
    <3>2. Sent(GpuEncode(i.tensor, i.cfg, off).buf, i.tensor, i.cfg)
      BY Zenon, <2>3, <2>5, <2>6, GpuSends
    <3>. QED BY Zenon, <2>4, <2>5, <3>1, <3>2
  <2> DEFINE r == ref.result.buf
             g == gpu.result.buf
  <2>8. ASSUME NEW j \in DOMAIN tensor.data
        PROVE  Abs(Decode(g)[j] - Decode(r)[j]) <= IF AllFinite(GroupOf(j)) THEN 2 * cfg.eps ELSE 0
    <3> DEFINE a == Decode(r)[j]
               b == Decode(g)[j]
               v == tensor.data[j]
    <3>1. j \in 1..Len(tensor.data) /\ v \in Int /\ cfg.eps \in Nat
      BY <2>6, InputFacts DEF WellFormed
    <3>2. AllFinite(GroupOf(j)) <=> GroupFiniteAt(tensor, cfg, j)
      BY GroupIsFinite
    <3>3. /\ a \in Int /\ (~AllFinite(GroupOf(j)) => a = v)
          /\ (AllFinite(GroupOf(j)) => Abs(a - v) <= cfg.eps)
      <4>. HIDE DEF r
      <4>. QED BY <2>6, <2>7, <3>1, <3>2, SentDecodes DEF r
    <3>4. /\ b \in Int /\ (~AllFinite(GroupOf(j)) => b = v)
          /\ (AllFinite(GroupOf(j)) => Abs(b - v) <= cfg.eps)
      <4>. HIDE DEF g
      <4>. QED BY <2>6, <2>7, <3>1, <3>2, SentDecodes DEF g
    <3>. HIDE DEF a, b, v
    <3>5. \A p, q, m \in Int : \A k \in Nat :
            Abs(p - m) <= k /\ Abs(q - m) <= k => Abs(q - p) <= 2 * k
      BY DEF Abs
    <3>6. CASE AllFinite(GroupOf(j))
      <4>1. Abs(b - a) <= 2 * cfg.eps
        BY <3>1, <3>3, <3>4, <3>5, <3>6
      <4>. QED BY <3>6, <4>1 DEF a, b
    <3>7. CASE ~AllFinite(GroupOf(j))
      <4>1. b - a = 0
        BY <3>1, <3>3, <3>4, <3>7
      <4>2. Abs(b - a) <= 0
        BY <4>1 DEF Abs
      <4>. QED BY <3>7, <4>2 DEF a, b
    <3>. QED BY <3>6, <3>7
  <2>9. ASSUME Supported(tensor)
        PROVE  /\ DOMAIN r.widths = DOMAIN g.widths
               /\ ref.result.stats.nonfinite = gpu.result.stats.nonfinite
               /\ \A k \in DOMAIN r.widths :
                    /\ r.widths[k] # g.widths[k] => off # 0 /\ Doubtful(k)
                    /\ r.widths[k] # Raw /\ g.widths[k] # Raw =>
                         r.mins[k] = g.mins[k] /\ Abs(r.scales[k] - g.scales[k]) <= 1
               /\ r.widths = g.widths => ref.result.stats.bytes = gpu.result.stats.bytes
               /\ off = 0 => r.scales = g.scales /\ r.body = g.body
    <3>1. Near(ref.result, gpu.result, tensor, cfg, off)
      BY Zenon, <2>3, <2>4, <2>6, <2>9, ResultsNear
    <3>2. off = 0 => Alike(ref.result, gpu.result)
      <4>1. Alike(ReferenceEncode(tensor, cfg), GpuEncode(tensor, cfg, 0))
        BY Zenon, <2>3, <2>6, <2>9, ResultsAlike
      <4>. QED BY Zenon, <2>4, <4>1
    <3>3. \A k : DoubtfulSeg(tensor, cfg, DevSeg(tensor, cfg, k)) <=> Doubtful(k)
      BY Zenon DEF DoubtfulSeg, Doubtful, DevSeg, GroupsOf, Groups
    <3>. QED BY Zenon, <3>1, <3>2, <3>3 DEF Near, Alike
  <2>. HIDE DEF r, g
  <2>10. EncodersAgree
    BY Zenon, <2>8, <2>9 DEF EncodersAgree, r, g
  <2>. QED BY <2>10
<1>. QED BY <1>1, InitLinkInv, NextLinkInv, PTL DEF Spec
-----------------------------------------------------------------------------
(* What the host's buffer decodes to, and what its statistics say of it.     *)

HostBack(x, c, seg) ==
  ReadBack(seg, HostCodes(x, c, seg), EncodedGroup(x, c, seg).width, EncodedGroup(x, c, seg).min,
           EncodedGroup(x, c, seg).scale, x.dtype)

LEMMA HostDecodes ==
  ASSUME NEW x, NEW c, WellFormed(x, c), BypassReasonOf(x, c) = "none"
  PROVE  Decode(ReferenceEncode(x, c).buf)
           = [i \in 1..Len(x.data) |->
                HostBack(x, c, Segment(x, GroupsOf(x, c), GroupsOf(x, c)[i]))[Place(GroupsOf(x, c), i)]]
<1> DEFINE G == GroupsOf(x, c)
           n == NGroups(G)
           m == Len(x.data)
           buf == ReferenceEncode(x, c).buf
           codes == AllHostCodes(x, c)
           seg(i) == Segment(x, G, G[i])
           back(i) == ReadBack(seg(i), codes[G[i] + 1], buf.widths[G[i] + 1],
                               buf.mins[G[i] + 1], buf.scales[G[i] + 1], x.dtype)
<1>1. Carries(buf, x, G, n, codes) /\ m > 0 /\ n \in Nat \ {0}
  BY ReferenceCarries
<1>2. Grouped(x, G) /\ Numel(x.shape) = m /\ m \in Nat
  BY InputFacts
<1>3. /\ buf.widths = [g \in 1..n |-> HostGroup(x, c, g).width]
      /\ buf.mins = [g \in 1..n |-> HostGroup(x, c, g).min]
      /\ buf.scales = [g \in 1..n |-> HostGroup(x, c, g).scale]
  <2>1. HostWrites(x, c, n, buf, ReferenceEncode(x, c).stats)
    BY ReferenceWrites
  <2>. HIDE DEF n, buf
  <2>. QED BY <2>1 DEF HostWrites
<1>4. \A i \in 1..m : G[i] + 1 \in 1..n /\ (G[i] + 1) - 1 = G[i]
  <2>1. m \in Nat \ {0} /\ G \in [1..m -> Nat]
    BY <1>1, <1>2 DEF Grouped
  <2>. HIDE DEF G, m
  <2>2. \A i \in 1..m : G[i] + 1 \in 1..NGroups(G)
    BY <2>1, NGroupsType
  <2>3. \A i \in 1..m : (G[i] + 1) - 1 = G[i]
    <3>1. \A i \in 1..m : G[i] \in Nat
      BY <2>1
    <3>2. \A v \in Nat : (v + 1) - 1 = v
      OBVIOUS
    <3>. QED BY Zenon, <3>1, <3>2
  <2>. QED BY <2>2, <2>3 DEF n
<1>5. Decode(buf) = [i \in 1..m |-> back(i)[Place(G, i)]]
  <2>1. n = NGroups(G)
    OBVIOUS
  <2>. HIDE DEF G, n, buf, codes
  <2>. QED BY <1>1, <1>2, <2>1, DecodeCarried
<1>6. \A i \in 1..m : back(i) = HostBack(x, c, seg(i))
  <2> TAKE i \in 1..m
  <2> DEFINE g == G[i] + 1
  <2>1. g \in 1..n /\ g - 1 = G[i]
    BY <1>4
  <2>2. codes[g] = HostCodes(x, c, Segment(x, G, g - 1))
    BY <2>1 DEF AllHostCodes
  <2>3. HostGroup(x, c, g) = EncodedGroup(x, c, Segment(x, G, g - 1))
    BY DEF HostGroup
  <2>4. Segment(x, G, g - 1) = seg(i)
    BY Zenon, <2>1
  <2>. HIDE DEF buf, codes, n, g, seg
  <2>5. /\ buf.widths[g] = HostGroup(x, c, g).width /\ buf.mins[g] = HostGroup(x, c, g).min
        /\ buf.scales[g] = HostGroup(x, c, g).scale
    BY <1>3, <2>1
  <2>6. ReadBack(seg(i), codes[g], buf.widths[g], buf.mins[g], buf.scales[g], x.dtype)
          = HostBack(x, c, seg(i))
    BY Zenon, <2>2, <2>3, <2>4, <2>5 DEF HostBack
  <2>. QED BY <2>6 DEF g
<1>. HIDE DEF back, seg
<1>7. Decode(buf) = [i \in 1..m |-> HostBack(x, c, seg(i))[Place(G, i)]]
  BY Zenon, <1>5, <1>6
<1>. QED BY Zenon, <1>7 DEF buf, m, G, seg

LEMMA HostBackIs ==
  ASSUME NEW x, NEW c, c.width \in Widths \union {Adaptive}, NEW seg \in Seq(Int)
  PROVE  LET e == EncodedGroup(x, c, seg)
             r == HostBack(x, c, seg)
         IN  /\ e.width = Raw => r = seg /\ e.error = 0
             /\ e.width # Raw =>
                  /\ r \in Seq(Int) /\ Len(r) = Len(seg) /\ e.error = WorstError(seg, r)
                  /\ HostFinite(x, c, seg) => \A p \in 1..Len(seg) : Finite(r[p])
<1> DEFINE e == EncodedGroup(x, c, seg)
           r == HostBack(x, c, seg)
           w == PredictedWidth(x, c, seg)
           b == GroupBounds(seg)
           scale == Scale(b.max - b.min, w, 0)
           R == ReadBack(seg, HostCodes(x, c, seg), e.width, e.min, e.scale, x.dtype)
<1>1. r = R
  BY DEF HostBack
<1>2. /\ e.min = b.min
      /\ e.width = Raw => e.error = 0
      /\ e.width # Raw =>
           /\ R \in Seq(Int) /\ Len(R) = Len(seg) /\ e.error = WorstError(seg, R)
           /\ e.width = w /\ e.scale = HostScale(x, c, seg)
  BY EncodedGroupIs
<1>3. e.width = Raw => r = seg
  BY Zenon, <1>1 DEF ReadBack
<1>4. ASSUME e.width # Raw, HostFinite(x, c, seg), NEW p \in 1..Len(seg)
      PROVE  Finite(r[p])
  <2>1. e.width = w /\ w # Raw /\ e.min = b.min /\ e.scale = scale
    BY <1>2, <1>4 DEF HostScale
  <2>2. p \in DOMAIN seg
    OBVIOUS
  <2>3. HostCodes(x, c, seg)[p] = Quantise(seg[p], b.min, scale, w)
    BY Zenon, <2>2 DEF HostCodes, GroupCodes, HostScale
  <2>4. r[p] = Dequantise(b.min, HostCodes(x, c, seg)[p], scale, x.dtype)
    <3>1. r = [q \in 1..Len(seg) |-> Dequantise(b.min, HostCodes(x, c, seg)[q], scale, x.dtype)]
      BY Zenon, <1>1, <2>1 DEF ReadBack
    <3>. HIDE DEF r, scale, b
    <3>. QED BY Zenon, <3>1
  <2>5. Finite(Dequantise(b.min, Quantise(seg[p], b.min, scale, w), scale, x.dtype))
    BY Zenon, <1>4, <2>1, <2>2 DEF HostFinite
  <2>. QED BY Zenon, <2>3, <2>4, <2>5
<1>. HIDE DEF e, r, R, w, b
<1>5. /\ e.width = Raw => r = seg /\ e.error = 0
      /\ e.width # Raw =>
           /\ r \in Seq(Int) /\ Len(r) = Len(seg) /\ e.error = WorstError(seg, r)
           /\ HostFinite(x, c, seg) => \A p \in 1..Len(seg) : Finite(r[p])
  BY Zenon, <1>1, <1>2, <1>3, <1>4
<1>. QED BY <1>5 DEF e, r

\* A value of the host's, as the receiver gets it.
HostAt(x, c, i, seg, p) ==
  /\ seg = Segment(x, GroupsOf(x, c), GroupsOf(x, c)[i]) /\ p \in 1..Len(seg) /\ seg \in Seq(Int)
  /\ seg[p] = x.data[i] /\ x.data[i] \in Int
  /\ Decode(ReferenceEncode(x, c).buf)[i] = HostBack(x, c, seg)[p]

LEMMA HostValues ==
  ASSUME NEW x, NEW c, WellFormed(x, c), BypassReasonOf(x, c) = "none", NEW i \in 1..Len(x.data)
  PROVE  HostAt(x, c, i, Segment(x, GroupsOf(x, c), GroupsOf(x, c)[i]), Place(GroupsOf(x, c), i))
<1> DEFINE G == GroupsOf(x, c)
           seg == Segment(x, G, G[i])
           p == Place(G, i)
<1>1. Grouped(x, G) /\ x.data[i] \in Int
  BY InputFacts
<1>2. seg[p] = x.data[i] /\ p \in 1..Len(seg) /\ seg \in Seq(Int)
  <2>. HIDE DEF G
  <2>. QED BY <1>1, SegmentAt, SegmentType
<1>3. Decode(ReferenceEncode(x, c).buf)[i] = HostBack(x, c, seg)[p]
  <2> DEFINE y == Decode(ReferenceEncode(x, c).buf)
             f == [q \in 1..Len(x.data) |->
                     HostBack(x, c, Segment(x, GroupsOf(x, c), GroupsOf(x, c)[q]))[Place(GroupsOf(x, c), q)]]
  <2>1. y = f
    BY HostDecodes
  <2>2. f[i] = HostBack(x, c, seg)[p]
    BY Zenon
  <2>. HIDE DEF f
  <2>. QED BY Zenon, <2>1, <2>2
<1>. HIDE DEF p
<1>. QED BY Zenon, <1>1, <1>2, <1>3 DEF HostAt, p

LEMMA AbsFlips == \A a, b \in Int : Abs(a - b) = Abs(b - a) /\ Abs(a - a) = 0 /\ Abs(a - b) \in Nat
BY DEF Abs

\* The reported error is the largest one received, over the finite values.
Realised(x, y) ==
  {0} \union {Abs(y[i] - x.data[i]) : i \in {j \in DOMAIN x.data : Finite(x.data[j])}}

LEMMA RealisedFinite ==
  ASSUME NEW x, NEW m \in Nat, DOMAIN x.data = 1..m, \A i \in 1..m : x.data[i] \in Int, NEW y,
         \A i \in 1..m : y[i] \in Int
  PROVE  /\ Max(Realised(x, y)) \in Realised(x, y)
         /\ \A v \in Realised(x, y) : v <= Max(Realised(x, y)) /\ v \in Nat
<1> DEFINE F == {j \in 1..m : Finite(x.data[j])}
           f == [i \in 1..m |-> Abs(y[i] - x.data[i])]
           A == {f[i] : i \in 1..m}
<1>1. IsFiniteSet(A)
  <2>1. DOMAIN f = 1..m
    OBVIOUS
  <2>. HIDE DEF f
  <2>. QED BY <2>1, ValuesFinite
<1>2. Realised(x, y) \subseteq {0} \union A /\ 0 \in Realised(x, y)
  <2>1. Realised(x, y) = {0} \union {Abs(y[i] - x.data[i]) : i \in F}
    BY DEF Realised
  <2>2. \A i \in F : Abs(y[i] - x.data[i]) = f[i] /\ i \in 1..m
    OBVIOUS
  <2>. HIDE DEF f
  <2>. QED BY <2>1, <2>2
<1>3. IsFiniteSet({0} \union A)
  <2>1. IsFiniteSet({0})
    BY FS_Singleton
  <2>. HIDE DEF A
  <2>. QED BY <1>1, <2>1, FS_Union
<1>4. {0} \union A \subseteq Nat
  <2>1. \A i \in 1..m : f[i] \in Nat
    <3> TAKE i \in 1..m
    <3>1. y[i] - x.data[i] \in Int
      OBVIOUS
    <3>. QED BY <3>1, AbsType
  <2>. HIDE DEF f
  <2>. QED BY <2>1
<1>. HIDE DEF A
<1>5. IsFiniteSet(Realised(x, y)) /\ Realised(x, y) \subseteq Int /\ Realised(x, y) # {}
      /\ Realised(x, y) \subseteq Nat
  BY <1>2, <1>3, <1>4, FS_Subset
<1>. QED BY <1>5, FiniteMax

LEMMA ErrorIsRealised ==
  ASSUME NEW i \in Inputs, NoOverflow, NEW x, NEW c, x = i.tensor, c = i.cfg,
         BypassReasonOf(x, c) = "none"
  PROVE  ReferenceEncode(x, c).stats.error = Max(Realised(x, Decode(ReferenceEncode(x, c).buf)))
<1> DEFINE G == GroupsOf(x, c)
           n == NGroups(G)
           m == Len(x.data)
           y == Decode(ReferenceEncode(x, c).buf)
           s == ReferenceEncode(x, c).stats
           seg(g) == Segment(x, G, g - 1)
           E == {HostGroup(x, c, g).error : g \in 1..n}
<1>1. WellFormed(x, c)
  BY CodecAssumption
<1>2. /\ Grouped(x, G) /\ m \in Nat /\ DOMAIN x.data = 1..m /\ \A j \in 1..m : x.data[j] \in Int
      /\ c.width \in Widths \union {Adaptive}
  <2>1. Grouped(x, G) /\ m \in Nat /\ (\A j \in 1..m : x.data[j] \in Int)
        /\ c.width \in Widths \union {Adaptive}
    BY <1>1, InputFacts
  <2>2. DOMAIN x.data = 1..m
    BY <1>1 DEF WellFormed
  <2>. QED BY <2>1, <2>2
<1>3. n \in Nat \ {0} /\ m > 0
  BY <1>1, ReferenceCarries
<1>4. s.error = Max(E)
  <2>1. HostWrites(x, c, n, ReferenceEncode(x, c).buf, s)
    BY ReferenceWrites
  <2>. HIDE DEF n, s
  <2>. QED BY Zenon, <2>1 DEF HostWrites
<1>5. ASSUME NEW g \in 1..n
      PROVE  /\ seg(g) \in Seq(Int) /\ Len(seg(g)) > 0 /\ HostFinite(x, c, seg(g))
             /\ HostGroup(x, c, g) = EncodedGroup(x, c, seg(g))
  <2>1. seg(g) \in Seq(Int) /\ Len(seg(g)) = Size(G, g - 1)
    <3>. HIDE DEF G
    <3>. QED BY <1>2, SegmentType
  <2>2. Size(G, g - 1) > 0
    BY <1>1, <1>3, GroupFilled
  <2>3. HostFinite(x, c, seg(g))
    <3>1. g - 1 \in 0..(NGroups(GroupsOf(i.tensor, i.cfg)) - 1)
      BY <1>3
    <3>2. HostFinite(i.tensor, i.cfg, Segment(i.tensor, GroupsOf(i.tensor, i.cfg), g - 1))
      BY <3>1, HostFiniteAt
    <3>. QED BY <3>2
  <2>4. HostGroup(x, c, g) = EncodedGroup(x, c, seg(g))
    BY DEF HostGroup
  <2>. HIDE DEF seg
  <2>. QED BY <2>1, <2>2, <2>3, <2>4
<1>6. \A j \in 1..m : /\ G[j] + 1 \in 1..n /\ seg(G[j] + 1) = Segment(x, G, G[j])
                      /\ HostAt(x, c, j, Segment(x, G, G[j]), Place(G, j))
  <2> TAKE j \in 1..m
  <2>1. m \in Nat \ {0} /\ G \in [1..m -> Nat]
    BY <1>2, <1>3 DEF Grouped
  <2>2. HostAt(x, c, j, Segment(x, G, G[j]), Place(G, j))
    BY <1>1, HostValues
  <2>. HIDE DEF G, m
  <2>3. G[j] + 1 \in 1..NGroups(G)
    BY <2>1, NGroupsType
  <2>4. (G[j] + 1) - 1 = G[j]
    <3>1. G[j] \in Nat /\ \A v \in Nat : (v + 1) - 1 = v
      BY <2>1
    <3>. QED BY <3>1
  <2>5. seg(G[j] + 1) = Segment(x, G, G[j])
    BY Zenon, <2>4
  <2>. QED BY <2>2, <2>3, <2>5 DEF n
<1>7. \A g \in 1..n : HostGroup(x, c, g).error \in Nat
  <2> TAKE g \in 1..n
  <2> DEFINE r == HostBack(x, c, seg(g))
  <2>1. /\ seg(g) \in Seq(Int) /\ Len(seg(g)) > 0
        /\ HostGroup(x, c, g) = EncodedGroup(x, c, seg(g))
    BY <1>5
  <2>. HIDE DEF seg
  <2>2. /\ EncodedGroup(x, c, seg(g)).width = Raw => EncodedGroup(x, c, seg(g)).error = 0
        /\ EncodedGroup(x, c, seg(g)).width # Raw =>
             /\ r \in Seq(Int) /\ Len(r) = Len(seg(g))
             /\ EncodedGroup(x, c, seg(g)).error = WorstError(seg(g), r)
    BY <1>2, <2>1, HostBackIs
  <2>. HIDE DEF r
  <2>3. r \in Seq(Int) /\ Len(r) = Len(seg(g)) => WorstError(seg(g), r) \in Nat
    <3>1. 1 \in 1..Len(seg(g))
      BY <2>1
    <3>. QED BY <2>1, <3>1, WorstErrorBounds
  <2>. QED BY <2>1, <2>2, <2>3
<1>8. IsFiniteSet(E) /\ E \subseteq Int /\ E # {}
  <2> DEFINE f == [g \in 1..n |-> HostGroup(x, c, g).error]
  <2>1. IsFiniteSet({f[g] : g \in 1..n})
    <3>1. DOMAIN f = 1..n /\ n \in Nat
      BY <1>3
    <3>. HIDE DEF f
    <3>. QED BY <3>1, ValuesFinite
  <2>2. E = {f[g] : g \in 1..n}
    OBVIOUS
  <2>3. 1 \in 1..n
    BY <1>3
  <2>. HIDE DEF f
  <2>. QED BY <1>7, <2>1, <2>2, <2>3
<1>9. s.error \in E /\ (\A v \in E : v <= s.error) /\ s.error \in Nat
  <2>1. Max(E) \in E /\ \A v \in E : v <= Max(E)
    <3>. HIDE DEF E
    <3>. QED BY <1>8, FiniteMax
  <2>2. E \subseteq Nat
    BY <1>7
  <2>. HIDE DEF E, s
  <2>. QED BY <1>4, <2>1, <2>2
<1>. HIDE DEF y, s
<1>10. ASSUME NEW j \in 1..m
       PROVE  /\ y[j] \in Int
              /\ Finite(x.data[j]) => Abs(y[j] - x.data[j]) <= s.error
  <2> DEFINE g == G[j] + 1
             sg == Segment(x, G, G[j])
             p == Place(G, j)
             e == EncodedGroup(x, c, sg)
             r == HostBack(x, c, sg)
  <2>1. g \in 1..n /\ seg(g) = sg /\ HostAt(x, c, j, sg, p)
    BY <1>6
  <2>2. p \in 1..Len(sg) /\ sg \in Seq(Int) /\ sg[p] = x.data[j] /\ x.data[j] \in Int /\ y[j] = r[p]
    BY Zenon, <2>1 DEF HostAt, y
  <2>3. HostFinite(x, c, sg) /\ HostGroup(x, c, g) = e
    BY Zenon, <1>5, <2>1
  <2>4. e.error \in E
    BY <2>1, <2>3
  <2>5. e.error <= s.error
    BY <1>9, <2>4
  <2>. HIDE DEF sg, p, E, g
  <2>6. /\ e.width = Raw => r = sg /\ e.error = 0
        /\ e.width # Raw =>
             /\ r \in Seq(Int) /\ Len(r) = Len(sg) /\ e.error = WorstError(sg, r)
             /\ HostFinite(x, c, sg) => \A q \in 1..Len(sg) : Finite(r[q])
    BY <1>2, <2>2, HostBackIs
  <2>. HIDE DEF e, r
  <2>7. CASE e.width = Raw
    <3>1. y[j] = x.data[j]
      BY Zenon, <2>2, <2>6, <2>7
    <3>2. Abs(y[j] - x.data[j]) = 0
      BY <2>2, <3>1, AbsFlips
    <3>. QED BY <1>9, <2>2, <3>1, <3>2
  <2>8. CASE e.width # Raw
    <3>1. r \in Seq(Int) /\ Len(r) = Len(sg) /\ e.error = WorstError(sg, r) /\ Finite(r[p])
      BY Zenon, <2>2, <2>3, <2>6, <2>8
    <3>2. r[p] \in Int
      BY <2>2, <3>1
    <3>3. Finite(sg[p]) => Abs(sg[p] - r[p]) <= WorstError(sg, r)
      BY <2>2, <3>1, WorstErrorBounds
    <3>4. Abs(sg[p] - r[p]) = Abs(y[j] - x.data[j]) /\ Abs(sg[p] - r[p]) \in Nat
      <4>1. Abs(x.data[j] - y[j]) = Abs(y[j] - x.data[j]) /\ Abs(x.data[j] - y[j]) \in Nat
        BY <2>2, <3>2, AbsFlips
      <4>. QED BY Zenon, <2>2, <4>1
    <3>5. WorstError(sg, r) \in Nat
      BY <2>2, <3>1, WorstErrorBounds
    <3>. QED BY <1>9, <2>2, <2>5, <3>1, <3>2, <3>3, <3>4, <3>5
  <2>. QED BY <2>7, <2>8
<1>11. s.error \in Realised(x, y)
  <2>1. PICK g \in 1..n : s.error = HostGroup(x, c, g).error
    BY <1>9
  <2> DEFINE sg == Segment(x, G, g - 1)
             e == EncodedGroup(x, c, sg)
             r == HostBack(x, c, sg)
  <2>2. sg \in Seq(Int) /\ Len(sg) > 0 /\ s.error = e.error
    BY <1>5, <2>1
  <2>3. 0 \in Realised(x, y)
    BY DEF Realised
  <2>4. \A q \in 1..Len(sg) : \E j \in 1..m :
           Segment(x, G, G[j]) = sg /\ Place(G, j) = q /\ sg[q] = x.data[j]
    <3> TAKE q \in 1..Len(sg)
    <3>1. Filled(x, G, g - 1, q)
      <4>. HIDE DEF G
      <4>. QED BY <1>2, SegmentFilled
    <3>2. PICK j \in 1..m : G[j] = g - 1 /\ Place(G, j) = q /\ sg[q] = x.data[j]
      BY Zenon, <3>1 DEF Filled
    <3>3. Segment(x, G, G[j]) = sg
      BY Zenon, <3>2
    <3>. QED BY Zenon, <3>2, <3>3
  <2>. HIDE DEF sg
  <2>5. /\ e.width = Raw => e.error = 0
        /\ e.width # Raw =>
             r \in Seq(Int) /\ Len(r) = Len(sg) /\ e.error = WorstError(sg, r)
    BY <1>2, <2>2, HostBackIs
  <2>. HIDE DEF e, r
  <2>6. CASE e.width = Raw
    BY <2>2, <2>3, <2>5, <2>6
  <2>7. CASE e.width # Raw
    <3>1. r \in Seq(Int) /\ Len(r) = Len(sg) /\ e.error = WorstError(sg, r)
      BY <2>5, <2>7
    <3>2. 1 \in 1..Len(sg)
      BY <2>2
    <3>3. PICK q \in 1..Len(sg) : WorstError(sg, r) =
            IF Finite(sg[q]) /\ Finite(r[q]) THEN Abs(sg[q] - r[q]) ELSE 0
      BY <2>2, <3>1, <3>2, WorstErrorBounds
    <3>4. PICK j \in 1..m : Segment(x, G, G[j]) = sg /\ Place(G, j) = q /\ sg[q] = x.data[j]
      BY <2>4
    <3>5. y[j] = r[q]
      <4>1. HostAt(x, c, j, Segment(x, G, G[j]), Place(G, j))
        BY <1>6
      <4>2. HostAt(x, c, j, sg, q)
        BY Zenon, <3>4, <4>1
      <4>. QED BY Zenon, <4>2 DEF HostAt, y, r
    <3>6. Abs(sg[q] - r[q]) = Abs(y[j] - x.data[j])
      <4>1. x.data[j] \in Int /\ y[j] \in Int
        BY <1>2, <1>10
      <4>2. Abs(x.data[j] - y[j]) = Abs(y[j] - x.data[j])
        BY <4>1, AbsFlips
      <4>. QED BY Zenon, <3>4, <3>5, <4>2
    <3>7. Finite(sg[q]) => Abs(y[j] - x.data[j]) \in Realised(x, y)
      BY <1>2, <3>4 DEF Realised
    <3>. QED BY Zenon, <2>2, <2>3, <3>1, <3>3, <3>6, <3>7
  <2>. QED BY <2>6, <2>7
<1>12. /\ Max(Realised(x, y)) \in Realised(x, y)
       /\ \A v \in Realised(x, y) : v <= Max(Realised(x, y)) /\ v \in Nat
  <2>1. \A j \in 1..m : y[j] \in Int
    BY <1>10
  <2>. QED BY <1>2, <2>1, RealisedFinite
<1>13. \A v \in Realised(x, y) : v <= s.error
  BY <1>2, <1>9, <1>10 DEF Realised
<1>14. s.error = Max(Realised(x, y))
  BY <1>9, <1>11, <1>12, <1>13
<1>. QED BY <1>14 DEF s, y
LEMMA BypassIsTrue ==
  ASSUME NEW x, NEW c, WellFormed(x, c), BypassReasonOf(x, c) # "none"
  PROVE  LET r == ReferenceEncode(x, c)
         IN  /\ r.stats.error = Max(Realised(x, Decode(r.buf)))
             /\ r.stats.reason # "none" /\ r.buf.header.groups = 0
<1> DEFINE r == ReferenceEncode(x, c)
           b == Bypass(x, c, BypassReasonOf(x, c))
<1>1. r = b
  BY DEF ReferenceEncode
<1>2. /\ Sent(b.buf, x, c) /\ b.buf.header.groups = 0
      /\ b.stats.reason = BypassReasonOf(x, c) /\ b.stats.error = 0
  BY BypassSends
<1>. HIDE DEF b, r
<1>3. Decode(b.buf) = x.data
  BY Zenon, <1>2 DEF Sent
<1>4. Realised(x, x.data) = {0}
  <2>1. DOMAIN x.data = 1..Len(x.data) /\ \A i \in 1..Len(x.data) : x.data[i] \in Int
    BY InputFacts DEF WellFormed
  <2>2. \A i \in DOMAIN x.data : Abs(x.data[i] - x.data[i]) = 0
    BY <2>1, AbsFlips
  <2>. QED BY Zenon, <2>2 DEF Realised
<1>5. Max({0}) = 0
  <2>1. IsFiniteSet({0})
    BY FS_Singleton
  <2>2. {0} \subseteq Int /\ {0} # {}
    OBVIOUS
  <2>. QED BY <2>1, <2>2, FiniteMax
<1>6. /\ r.stats.error = Max(Realised(x, Decode(r.buf)))
      /\ r.stats.reason # "none" /\ r.buf.header.groups = 0
  BY Zenon, <1>1, <1>2, <1>3, <1>4, <1>5
<1>. QED BY <1>6 DEF r

LEMMA EncodedIsTrue ==
  ASSUME NEW i \in Inputs, NoOverflow, NEW x, NEW c, x = i.tensor, c = i.cfg,
         BypassReasonOf(x, c) = "none"
  PROVE  LET r == ReferenceEncode(x, c)
         IN  /\ r.stats.error = Max(Realised(x, Decode(r.buf)))
             /\ r.stats.reason = "none" /\ r.buf.header.groups \in Nat \ {0}
<1> DEFINE r == ReferenceEncode(x, c)
           n == NGroups(GroupsOf(x, c))
<1>1. WellFormed(x, c)
  BY CodecAssumption
<1>2. r.stats.error = Max(Realised(x, Decode(r.buf)))
  BY ErrorIsRealised
<1>3. r.stats.reason = "none"
  <2>1. HostWrites(x, c, n, r.buf, r.stats)
    BY ReferenceWrites
  <2>. HIDE DEF r, n
  <2>. QED BY <2>1 DEF HostWrites
<1>4. r.buf.header.groups \in Nat \ {0}
  <2>1. Carries(r.buf, x, GroupsOf(x, c), n, AllHostCodes(x, c)) /\ n \in Nat \ {0}
    BY <1>1, ReferenceCarries
  <2>. HIDE DEF r, n
  <2>. QED BY <2>1 DEF Carries
<1>. HIDE DEF r
<1>5. /\ r.stats.error = Max(Realised(x, Decode(r.buf)))
      /\ r.stats.reason = "none" /\ r.buf.header.groups \in Nat \ {0}
  BY <1>2, <1>3, <1>4
<1>. QED BY <1>5 DEF r

\* The error the host reports is the largest one among the values received, and it
\* names a reason exactly when the tensor bypassed the codec (reference.encode's stats).
THEOREM StatsAreKept ==
  ASSUME WholeBytes, NoOverflow
  PROVE  Spec => []StatsAreTrue
<1>1. LinkInv => StatsAreTrue
  <2> SUFFICES ASSUME LinkInv, by = "host", got.status = "decoded"
               PROVE  /\ ref.result.stats.error = Max(Realised(tensor, got.data))
                      /\ ref.result.stats.reason = "none" <=> wire.buf.header.groups > 0
    BY DEF StatsAreTrue, Realised
  <2> DEFINE r == ReferenceEncode(tensor, cfg)
  <2>1. /\ WellFormed(tensor, cfg) /\ wire.status = "intact" /\ got.data = Decode(wire.buf)
    BY ReceivedDecodes
  <2>2. ref # Nothing /\ wire.buf = ref.result.buf
    BY <2>1 DEF LinkInv, WireInv
  <2>3. ref.result = r
    BY <2>2 DEF LinkInv, EncodersInv, HostResult
  <2>4. \/ /\ r.stats.error = Max(Realised(tensor, Decode(r.buf)))
           /\ r.stats.reason # "none" /\ r.buf.header.groups = 0
        \/ /\ r.stats.error = Max(Realised(tensor, Decode(r.buf)))
           /\ r.stats.reason = "none" /\ r.buf.header.groups \in Nat \ {0}
    <3>1. CASE BypassReasonOf(tensor, cfg) # "none"
      BY <2>1, <3>1, BypassIsTrue
    <3>2. CASE BypassReasonOf(tensor, cfg) = "none"
      <4>1. PICK i \in Inputs : tensor = i.tensor /\ cfg = i.cfg
        BY DEF LinkInv, InputInv
      <4>. QED BY <3>2, <4>1, EncodedIsTrue
    <3>. QED BY <3>1, <3>2
  <2>. HIDE DEF r
  <2>5. got.data = Decode(r.buf) /\ wire.buf = r.buf
    BY Zenon, <2>1, <2>2, <2>3
  <2>6. r.buf.header.groups > 0 <=> r.stats.reason = "none"
    BY <2>4
  <2>. QED BY Zenon, <2>3, <2>4, <2>5, <2>6
<1>. QED BY <1>1, InitLinkInv, NextLinkInv, PTL DEF Spec-----------------------------------------------------------------------------
(* A tensor in two pieces.  A group of a piece is a group of the tensor, so   *)
(* it is encoded and read back the same.                                     *)

Unit(x, c) == IF c.allocation = "blockwise" \/ Len(x.shape) < 2 THEN c.block ELSE x.shape[2]

\* The elements after a up to e, as a tensor.
PieceOf(x, a, e) ==
  [data  |-> SubSeq(x.data, a + 1, e), dtype |-> x.dtype,
   shape |-> IF Len(x.shape) = 1 THEN <<e - a>> ELSE <<(e - a) \div x.shape[2], x.shape[2]>>,
   contiguous |-> x.contiguous]

\* They begin at a boundary and end at one or with the tensor, in whole rows.
CutOut(x, c, a, e) ==
  /\ a \in Nat /\ e \in Nat /\ a + c.block <= e /\ e <= Len(x.data)
  /\ \E k \in Nat : a = k * Unit(x, c)
  /\ e = Len(x.data) \/ \E k \in Nat : e = k * Unit(x, c)
  /\ Len(x.shape) = 2 => \E k \in Nat \ {0} : e - a = k * x.shape[2]

LEMMA UnitBlocks ==
  ASSUME NEW x, NEW c, WellFormed(x, c), c.allocation # "per_channel", Len(x.data) > 0
  PROVE  Blocked(GroupsOf(x, c), Len(x.data), Unit(x, c)) /\ Unit(x, c) \in Nat \ {0}
<1>1. /\ Numel(x.shape) = Len(x.data) /\ Len(x.data) \in Nat /\ c.block \in Nat \ {0}
      /\ x.shape \in Seq(Nat \ {0}) /\ Len(x.shape) \in {1, 2}
      /\ c.allocation \in {"blockwise", "per_token"}
  BY InputFacts DEF WellFormed
<1>2. Unit(x, c) \in Nat \ {0}
  BY <1>1 DEF Unit
<1>3. GroupsOf(x, c) = [i \in 1..Len(x.data) |-> (i - 1) \div Unit(x, c)]
  <2>1. CASE c.allocation = "blockwise" \/ Len(x.shape) < 2
    BY <1>1, <2>1 DEF GroupsOf, Partition, Unit
  <2>2. CASE ~(c.allocation = "blockwise" \/ Len(x.shape) < 2)
    BY <1>1, <2>2 DEF GroupsOf, Partition, Unit
  <2>. QED BY <2>1, <2>2
<1>. QED BY <1>1, <1>2, <1>3 DEF Blocked

LEMMA PieceIs ==
  ASSUME NEW x, NEW c, WellFormed(x, c), BypassReasonOf(x, c) = "none",
         NEW a, NEW e, CutOut(x, c, a, e)
  PROVE  LET y == PieceOf(x, a, e)
         IN  /\ WellFormed(y, c) /\ BypassReasonOf(y, c) = "none" /\ y.dtype = x.dtype
             /\ Len(y.data) = e - a /\ e - a \in Nat \ {0} /\ Unit(y, c) = Unit(x, c)
             /\ \A p \in 1..(e - a) : y.data[p] = x.data[a + p]
<1> DEFINE y == PieceOf(x, a, e)
           h == IF Len(x.shape) = 1 THEN <<e - a>> ELSE <<(e - a) \div x.shape[2], x.shape[2]>>
<1>1. /\ x \in [data : Seq(Int), dtype : STRING, shape : Seq(Nat \ {0}), contiguous : BOOLEAN]
      /\ c.block \in Nat \ {0} /\ Len(x.shape) \in {1, 2}
      /\ \A p \in 1..Len(x.data) : Finite(x.data[p]) \/ x.data[p] \in {NaN, Inf}
  BY DEF WellFormed
<1>2. a \in Nat /\ e \in Nat /\ a + c.block <= e /\ e <= Len(x.data)
  BY DEF CutOut
<1>3. e - a \in Nat \ {0} /\ c.block <= e - a
  BY <1>1, <1>2
<1>4. /\ y.data = SubSeq(x.data, a + 1, e) /\ y.shape = h
      /\ y.dtype = x.dtype /\ y.contiguous = x.contiguous
      /\ y = [data |-> SubSeq(x.data, a + 1, e), dtype |-> x.dtype, shape |-> h,
              contiguous |-> x.contiguous]
  BY <1>1 DEF PieceOf
<1>. HIDE DEF y
<1>5. x.data \in Seq(Int) /\ x.shape \in Seq(Nat \ {0}) /\ x.dtype \in STRING /\ x.contiguous \in BOOLEAN
  BY <1>1
<1>6. y.data = [p \in 1..(e - a) |-> x.data[a + p]] /\ y.data \in Seq(Int) /\ Len(y.data) = e - a
  <2>1. SubSeq(x.data, a + 1, e) = [p \in 1..(e - a) |-> x.data[a + p]]
    <3>1. SubSeq(x.data, a + 1, e) = [p \in 1..(e - (a + 1) + 1) |-> x.data[(a + 1) + p - 1]]
      BY <1>2, <1>5
    <3>2. e - (a + 1) + 1 = e - a /\ \A p \in 1..(e - a) : (a + 1) + p - 1 = a + p
      BY <1>2
    <3>. QED BY <3>1, <3>2
  <2>2. \A p \in 1..(e - a) : a + p \in 1..Len(x.data)
    BY <1>2
  <2>3. \A p \in 1..(e - a) : x.data[a + p] \in Int
    BY <1>5, <2>2
  <2> DEFINE f == [p \in 1..(e - a) |-> x.data[a + p]]
  <2>4. f \in [1..(e - a) -> Int]
    BY <2>3
  <2>5. y.data = f
    BY Zenon, <1>4, <2>1
  <2>. HIDE DEF f
  <2>6. f \in Seq(Int) /\ Len(f) = e - a
    BY <1>3, <2>4
  <2>7. y.data = f /\ y.data \in Seq(Int) /\ Len(y.data) = e - a
    BY Zenon, <2>5, <2>6
  <2>. QED BY <2>7 DEF f
<1>7. \A p \in DOMAIN y.data : Finite(y.data[p]) \/ y.data[p] \in {NaN, Inf}
  <2> TAKE p \in DOMAIN y.data
  <2>1. p \in 1..(e - a) /\ y.data[p] = x.data[a + p] /\ a + p \in 1..Len(x.data)
    BY <1>2, <1>6
  <2>. QED BY <1>1, <2>1
<1>8. h \in Seq(Nat \ {0}) /\ Len(h) = Len(x.shape) /\ Numel(h) = e - a
      /\ (Len(x.shape) = 2 => h[2] = x.shape[2])
  <2>1. CASE Len(x.shape) = 1
    BY <1>3, <2>1 DEF Numel
  <2>2. CASE Len(x.shape) = 2
    <3> DEFINE v == x.shape[2]
    <3>1. v \in Nat \ {0}
      BY <1>5, <2>2
    <3>2. PICK k \in Nat \ {0} : e - a = k * v
      BY <2>2 DEF CutOut
    <3>. HIDE DEF v
    <3>3. (e - a) \div v = k
      <4>1. k * v <= e - a /\ e - a < k * v + v
        BY <1>3, <3>1, <3>2
      <4>. QED BY <1>3, <3>1, <4>1, DivIs
    <3>4. h = <<k, v>>
      BY <2>2, <3>3 DEF v
    <3>. HIDE DEF h
    <3>. QED BY <2>2, <3>1, <3>2, <3>4 DEF Numel, v
  <2>. QED BY <1>1, <2>1, <2>2
<1>. HIDE DEF h
<1>9. y \in [data : Seq(Int), dtype : STRING, shape : Seq(Nat \ {0}), contiguous : BOOLEAN]
  BY <1>4, <1>5, <1>6, <1>8
<1>10. WellFormed(y, c)
  <2>1. Len(y.shape) \in {1, 2} /\ Numel(y.shape) = Len(y.data)
    BY <1>1, <1>4, <1>6, <1>8
  <2>2. y.dtype \in {"bf16", "fp16", "fp32", "int32"}
    BY <1>4 DEF WellFormed
  <2>3. ASSUME y.dtype = "int32", NEW p \in DOMAIN y.data
        PROVE  Finite(y.data[p])
    <3>1. p \in 1..(e - a) /\ y.data[p] = x.data[a + p] /\ a + p \in 1..Len(x.data)
      BY <1>2, <1>6
    <3>2. x.dtype = "int32" /\ a + p \in DOMAIN x.data
      BY <1>4, <1>5, <2>3, <3>1
    <3>. QED BY <3>1, <3>2 DEF WellFormed
  <2>. QED BY <1>7, <1>9, <2>1, <2>2, <2>3 DEF WellFormed
<1>11. BypassReasonOf(y, c) = "none"
  <2>1. Supported(x) /\ x.contiguous
    BY DEF BypassReasonOf
  <2>2. Supported(y) /\ y.contiguous /\ ~(Len(y.data) < c.block)
    BY <1>1, <1>3, <1>4, <1>6, <2>1 DEF Supported
  <2>. QED BY <2>2 DEF BypassReasonOf
<1>12. Unit(y, c) = Unit(x, c)
  BY <1>1, <1>4, <1>8 DEF Unit
<1>. QED BY <1>3, <1>4, <1>6, <1>10, <1>11, <1>12 DEF y
MemberAt(G, b, q, p) == Member(G, q, p) = q * b + p

LEMMA BlockMember ==
  ASSUME NEW G, NEW m, NEW b, Blocked(G, m, b), NEW q \in Nat, q * b < m, NEW p \in 1..Size(G, q)
  PROVE  MemberAt(G, b, q, p)
<1>1. \A a \in 1..Size(G, q) : Member(G, q, a) = q * b + a /\ q * b + a \in 1..m
  BY BlockSize
<1>. QED BY Zenon, <1>1 DEF MemberAt

\* The block of element i: it follows the first st elements and has z of them.
RunAt(x, G, u, i, st, z) ==
  /\ BlockAt(G, Len(x.data), u, st, z) /\ z \in Nat /\ st < i
  /\ Segment(x, G, G[i]) = [p \in 1..z |-> x.data[st + p]] /\ Place(G, i) = i - st

LEMMA RunIs ==
  ASSUME NEW x, NEW G, Grouped(x, G), NEW u, Blocked(G, Len(x.data), u), NEW i \in 1..Len(x.data)
  PROVE  RunAt(x, G, u, i, G[i] * u, Size(G, G[i]))
<1> DEFINE m == Len(x.data)
           q == G[i]
           z == Size(G, q)
<1>1. Place(G, i) = i - q * u /\ q \in Nat /\ q * u \in Nat /\ q * u < i
  BY BlockPlace
<1>2. i <= m /\ i \in Nat /\ m \in Nat
  BY DEF Blocked
<1>3. q * u < m
  <2>. HIDE DEF q, m
  <2>. QED BY <1>1, <1>2
<1>. HIDE DEF q
<1>4. BlockAt(G, m, u, q * u, z)
  BY <1>1, <1>3, BlockIs
<1>5. z \in Nat
  BY <1>4 DEF BlockAt, Blocked
<1>6. \A p \in 1..z : Member(G, q, p) = q * u + p
  <2> TAKE p \in 1..z
  <2>1. MemberAt(G, u, q, p)
    BY <1>1, <1>3, BlockMember
  <2>. QED BY Zenon, <2>1 DEF MemberAt
<1>7. Segment(x, G, q) = [p \in 1..z |-> x.data[q * u + p]]
  <2>1. Segment(x, G, q) = [p \in 1..z |-> x.data[Member(G, q, p)]]
    BY DEF Segment
  <2>2. \A p \in 1..z : x.data[Member(G, q, p)] = x.data[q * u + p]
    BY Zenon, <1>6
  <2>. HIDE DEF z
  <2>. QED BY <2>1, <2>2
<1>. HIDE DEF z, m
<1>8. RunAt(x, G, u, i, q * u, z)
  BY Zenon, <1>1, <1>4, <1>5, <1>7 DEF RunAt, q, m
<1>. QED BY <1>8 DEF q, z

LEMMA BlockSpan ==
  ASSUME NEW G, NEW m, NEW u, Blocked(G, m, u), NEW i \in 1..m, NEW q \in Nat
  PROVE  G[i] = q <=> q * u + 1 <= i /\ i <= q * u + u
BY BlockOf

\* y is what lies in x after place a up to place e, cut at multiples of u.
PartOf(x, y, u, a, e) ==
  /\ a \in Nat /\ e \in Nat /\ e <= Len(x.data) /\ Len(y.data) = e - a
  /\ \A p \in 1..(e - a) : y.data[p] = x.data[a + p]
  /\ \E k \in Nat : a = k * u
  /\ e = Len(x.data) \/ \E k \in Nat : e = k * u

\* A block of a piece lies in the tensor where a block of the tensor does.
LEMMA PieceSegments ==
  ASSUME NEW x, NEW G, Grouped(x, G), NEW u, Blocked(G, Len(x.data), u),
         NEW y, NEW H, Grouped(y, H), Blocked(H, Len(y.data), u),
         NEW a, NEW e, PartOf(x, y, u, a, e), NEW j \in 1..(e - a)
  PROVE  Segment(y, H, H[j]) = Segment(x, G, G[a + j]) /\ Place(H, j) = Place(G, a + j)
<1> DEFINE m == Len(x.data)
           q == H[j]
           w == Size(H, q)
           z == Size(G, G[a + j])
<1>0. /\ m \in Nat /\ u \in Nat \ {0}
      /\ a \in Nat /\ e \in Nat /\ e <= Len(x.data) /\ Len(y.data) = e - a
      /\ \A p \in 1..(e - a) : y.data[p] = x.data[a + p]
      /\ e = m \/ \E k \in Nat : e = k * u
  BY DEF Blocked, PartOf
<1>1. PICK k \in Nat : a = k * u
  BY DEF PartOf
<1>2. a + j \in 1..m
  <2>. HIDE DEF m
  <2>. QED BY <1>0 DEF m
<1>3. q \in Nat /\ q * u \in Nat /\ q * u + 1 <= j /\ j <= q * u + u
  <2>1. j \in 1..Len(y.data) /\ 0 \in Nat
    BY <1>0
  <2>2. q \in Nat /\ q * u \in Nat
    BY <2>1, BlockPlace
  <2>. HIDE DEF q
  <2>3. q * u + 1 <= j /\ j <= q * u + u
    BY <2>1, <2>2, BlockSpan DEF q
  <2>. QED BY <2>2, <2>3
<1>. HIDE DEF q
<1>4. (q + k) * u = q * u + a /\ q + k \in Nat
  <2>1. \A s, t, v \in Nat : (s + t) * v = s * v + t * v
    OBVIOUS
  <2>2. (q + k) * u = q * u + k * u
    BY <1>0, <1>3, <2>1
  <2>. QED BY <1>0, <1>1, <1>3, <2>2
<1>5. G[a + j] = q + k
  <2>1. (q + k) * u + 1 <= a + j /\ a + j <= (q + k) * u + u
    BY <1>0, <1>3, <1>4
  <2>2. G[a + j] = q + k <=> (q + k) * u + 1 <= a + j /\ a + j <= (q + k) * u + u
    BY <1>2, <1>4, BlockSpan
  <2>. QED BY <2>1, <2>2
<1>6. RunAt(y, H, u, j, q * u, w)
  <2>1. j \in 1..Len(y.data)
    BY <1>0
  <2>. QED BY <2>1, RunIs DEF q
<1>7. RunAt(x, G, u, a + j, q * u + a, z)
  <2>1. RunAt(x, G, u, a + j, G[a + j] * u, z)
    BY <1>2, RunIs
  <2>. HIDE DEF z
  <2>. QED BY Zenon, <1>4, <1>5, <2>1
<1>. HIDE DEF w, z
<1>8. /\ w \in Nat /\ w <= u /\ q * u + w <= e - a /\ (w = u \/ q * u + w = e - a)
      /\ z \in Nat /\ z <= u /\ q * u + a + z <= m /\ (z = u \/ q * u + a + z = m)
  BY <1>0, <1>6, <1>7 DEF RunAt, BlockAt
<1>9. w = z
  <2>1. CASE e = m
    BY <1>0, <1>3, <1>8, <2>1
  <2>2. CASE \E l \in Nat : e = l * u
    <3>1. PICK l \in Nat : e = l * u
      BY <2>2
    <3>2. (q + k) * u < l * u
      <4>1. q * u + a < e
        <5> DEFINE st == q * u
        <5>1. st \in Nat /\ st + 1 <= j
          BY <1>3
        <5>. HIDE DEF st
        <5>2. st + a < e
          BY <1>0, <5>1
        <5>. QED BY <5>2 DEF st
      <4>. QED BY Zenon, <1>4, <3>1, <4>1
    <3>3. q + k < l
      <4>1. CASE l < q + k
        <5>1. l * u + u <= (q + k) * u
          BY <1>0, <1>4, <4>1, TimesGrows
        <5>. QED BY <1>0, <1>3, <1>4, <3>1, <3>2, <5>1
      <4>2. CASE l = q + k
        BY <1>3, <1>4, <3>1, <3>2, <4>2
      <4>. QED BY <1>4, <4>1, <4>2
    <3>4. (q + k) * u + u <= l * u
      BY <1>0, <1>4, <3>3, TimesGrows
    <3>5. q * u + a + u <= e
      BY <1>0, <1>3, <1>4, <3>1, <3>4
    <3>. QED BY <1>0, <1>3, <1>8, <3>5
  <2>. QED BY <1>0, <2>1, <2>2
<1>10. [p \in 1..w |-> y.data[q * u + p]] = [p \in 1..z |-> x.data[(q * u + a) + p]]
  <2>1. \A p \in 1..w : q * u + p \in 1..(e - a) /\ a + (q * u + p) = (q * u + a) + p
    <3> DEFINE st == q * u
    <3>1. st \in Nat /\ w \in Nat /\ st + w <= e - a
      BY <1>3, <1>8
    <3>. HIDE DEF st
    <3>2. \A p \in 1..w : st + p \in 1..(e - a) /\ a + (st + p) = (st + a) + p
      BY <1>0, <3>1
    <3>. QED BY <3>2 DEF st
  <2>2. \A p \in 1..w : y.data[q * u + p] = x.data[(q * u + a) + p]
    <3> TAKE p \in 1..w
    <3>1. q * u + p \in 1..(e - a) /\ a + (q * u + p) = (q * u + a) + p
      BY <2>1
    <3>2. y.data[q * u + p] = x.data[a + (q * u + p)]
      BY <1>0, <3>1
    <3>. QED BY Zenon, <3>1, <3>2
  <2>. QED BY Zenon, <1>9, <2>2
<1>11. Segment(y, H, H[j]) = Segment(x, G, G[a + j])
  <2>1. Segment(y, H, H[j]) = [p \in 1..w |-> y.data[q * u + p]]
    BY Zenon, <1>6 DEF RunAt
  <2>2. Segment(x, G, G[a + j]) = [p \in 1..z |-> x.data[(q * u + a) + p]]
    BY Zenon, <1>7 DEF RunAt
  <2>. QED BY Zenon, <1>10, <2>1, <2>2
<1>12. Place(H, j) = Place(G, a + j)
  <2>1. Place(H, j) = j - q * u /\ Place(G, a + j) = (a + j) - (q * u + a)
    BY Zenon, <1>6, <1>7 DEF RunAt
  <2>2. j - q * u = (a + j) - (q * u + a)
    BY <1>0, <1>3
  <2>. QED BY <2>1, <2>2
<1>. QED BY <1>11, <1>12

\* A group is read back by its values and the dtype, whatever tensor it is of.
LEMMA BackByDtype ==
  ASSUME NEW x, NEW y, y.dtype = x.dtype, NEW c, NEW seg
  PROVE  HostBack(y, c, seg) = HostBack(x, c, seg)
<1>1. \A b : Budget2(y, c, b) = Budget2(x, c, b)
  BY Zenon DEF Budget2
<1>2. PredictedWidth(y, c, seg) = PredictedWidth(x, c, seg)
  <2>1. Budget2(y, c, GroupBounds(seg)) = Budget2(x, c, GroupBounds(seg))
    BY <1>1
  <2>. QED BY <2>1 DEF PredictedWidth
<1>3. EncodedGroup(y, c, seg) = EncodedGroup(x, c, seg)
  BY Zenon, <1>2 DEF EncodedGroup
<1>4. HostCodes(y, c, seg) = HostCodes(x, c, seg)
  BY Zenon, <1>2 DEF HostCodes, HostScale
<1>. QED BY Zenon, <1>3, <1>4 DEF HostBack
LEMMA BackIsNumbers ==
  ASSUME NEW x, NEW c, WellFormed(x, c), BypassReasonOf(x, c) = "none"
  PROVE  /\ Decode(ReferenceEncode(x, c).buf) \in Seq(Int)
         /\ Len(Decode(ReferenceEncode(x, c).buf)) = Len(x.data)
<1> DEFINE f == Decode(ReferenceEncode(x, c).buf)
           m == Len(x.data)
           G == GroupsOf(x, c)
           seg(i) == Segment(x, G, G[i])
<1>1. m \in Nat /\ c.width \in Widths \union {Adaptive}
  BY InputFacts
<1>2. f = [i \in 1..m |-> HostBack(x, c, seg(i))[Place(G, i)]]
  BY HostDecodes
<1>3. \A i \in 1..m : HostBack(x, c, seg(i))[Place(G, i)] \in Int
  <2> TAKE i \in 1..m
  <2> DEFINE sg == Segment(x, G, G[i])
             p == Place(G, i)
             r == HostBack(x, c, sg)
             e == EncodedGroup(x, c, sg)
  <2>1. HostAt(x, c, i, sg, p)
    BY HostValues
  <2>2. p \in 1..Len(sg) /\ sg \in Seq(Int)
    BY Zenon, <2>1 DEF HostAt
  <2>. HIDE DEF sg, p
  <2>3. /\ e.width = Raw => r = sg
        /\ e.width # Raw => r \in Seq(Int) /\ Len(r) = Len(sg)
    BY <1>1, <2>2, HostBackIs
  <2>. HIDE DEF e, r
  <2>4. r \in Seq(Int) /\ Len(r) = Len(sg)
    BY <2>2, <2>3
  <2>5. r[p] \in Int
    BY <2>2, <2>4
  <2>. QED BY <2>5 DEF r, sg, p
<1>. HIDE DEF seg, f, m
<1>4. f \in [1..m -> Int]
  BY <1>2, <1>3
<1>5. f \in Seq(Int) /\ Len(f) = m
  BY <1>1, <1>4
<1>. QED BY <1>5 DEF f, m

LEMMA PieceDecodes ==
  ASSUME NEW x, NEW c, WellFormed(x, c), BypassReasonOf(x, c) = "none",
         c.allocation # "per_channel", NEW a, NEW e, CutOut(x, c, a, e)
  PROVE  Decode(ReferenceEncode(PieceOf(x, a, e), c).buf)
           = [j \in 1..(e - a) |-> Decode(ReferenceEncode(x, c).buf)[a + j]]
<1> DEFINE y == PieceOf(x, a, e)
           G == GroupsOf(x, c)
           H == GroupsOf(y, c)
           u == Unit(x, c)
           f == Decode(ReferenceEncode(x, c).buf)
<1>1. /\ WellFormed(y, c) /\ BypassReasonOf(y, c) = "none" /\ y.dtype = x.dtype
      /\ Len(y.data) = e - a /\ e - a \in Nat \ {0} /\ Unit(y, c) = u
      /\ \A p \in 1..(e - a) : y.data[p] = x.data[a + p]
  BY PieceIs
<1>2. /\ a \in Nat /\ e \in Nat /\ e <= Len(x.data)
      /\ \E k \in Nat : a = k * u
      /\ e = Len(x.data) \/ \E k \in Nat : e = k * u
  BY DEF CutOut
<1>. HIDE DEF y
<1>3. Grouped(x, G) /\ Len(x.data) \in Nat /\ Grouped(y, H)
  BY <1>1, InputFacts
<1>4. Len(x.data) > 0 /\ Len(y.data) > 0
  BY <1>1, <1>2, <1>3
<1>5. Blocked(G, Len(x.data), u)
  BY <1>4, UnitBlocks
<1>6. Blocked(H, Len(y.data), u)
  <2>. HIDE DEF u
  <2>. QED BY <1>1, <1>4, UnitBlocks
<1>7. \A j \in 1..(e - a) : HostBack(y, c, Segment(y, H, H[j]))[Place(H, j)] = f[a + j]
  <2> TAKE j \in 1..(e - a)
  <2>1. Segment(y, H, H[j]) = Segment(x, G, G[a + j]) /\ Place(H, j) = Place(G, a + j)
    <3>1. PartOf(x, y, u, a, e)
      BY <1>1, <1>2 DEF PartOf
    <3>. HIDE DEF G, H, u
    <3>. QED BY <1>3, <1>5, <1>6, <3>1, PieceSegments
  <2>2. a + j \in 1..Len(x.data)
    BY <1>1, <1>2, <1>3
  <2>3. HostAt(x, c, a + j, Segment(x, G, G[a + j]), Place(G, a + j))
    BY <2>2, HostValues
  <2>4. f[a + j] = HostBack(x, c, Segment(x, G, G[a + j]))[Place(G, a + j)]
    BY Zenon, <2>3 DEF HostAt
  <2>5. HostBack(y, c, Segment(y, H, H[j])) = HostBack(x, c, Segment(x, G, G[a + j]))
    <3>1. HostBack(y, c, Segment(x, G, G[a + j])) = HostBack(x, c, Segment(x, G, G[a + j]))
      BY <1>1, BackByDtype
    <3>. QED BY Zenon, <2>1, <3>1
  <2>. HIDE DEF f
  <2>. QED BY Zenon, <2>1, <2>4, <2>5
<1>8. Decode(ReferenceEncode(y, c).buf)
        = [j \in 1..Len(y.data) |-> HostBack(y, c, Segment(y, H, H[j]))[Place(H, j)]]
  BY <1>1, HostDecodes
<1>. HIDE DEF f
<1>9. Decode(ReferenceEncode(y, c).buf) = [j \in 1..(e - a) |-> f[a + j]]
  BY Zenon, <1>1, <1>7, <1>8
<1>. QED BY <1>9 DEF f, y

LEMMA JoinedSequences ==
  /\ \A n \in Nat : \A q \in [1..n -> Int] : q \in Seq(Int) /\ Len(q) = n
  /\ \A q, r \in Seq(Int) :
       /\ q \o r \in Seq(Int) /\ Len(q \o r) = Len(q) + Len(r)
       /\ \A j \in 1..(Len(q) + Len(r)) :
            (q \o r)[j] = IF j <= Len(q) THEN q[j] ELSE r[j - Len(q)]
  /\ \A q, r \in Seq(Int) :
       Len(q) = Len(r) /\ (\A j \in 1..Len(q) : q[j] = r[j]) => q = r
<1>1. \A n \in Nat : \A q \in [1..n -> Int] : q \in Seq(Int) /\ Len(q) = n
  OBVIOUS
<1>2. \A q, r \in Seq(Int) :
        /\ q \o r \in Seq(Int) /\ Len(q \o r) = Len(q) + Len(r)
        /\ \A j \in 1..(Len(q) + Len(r)) :
             (q \o r)[j] = IF j <= Len(q) THEN q[j] ELSE r[j - Len(q)]
  OBVIOUS
<1>3. \A q, r \in Seq(Int) :
        Len(q) = Len(r) /\ (\A j \in 1..Len(q) : q[j] = r[j]) => q = r
  OBVIOUS
<1>. QED BY <1>1, <1>2, <1>3

LEMMA Rejoined ==
  ASSUME NEW f \in Seq(Int), NEW c \in Nat, c <= Len(f)
  PROVE  [j \in 1..(c - 0) |-> f[0 + j]] \o [j \in 1..(Len(f) - c) |-> f[c + j]] = f
<1> DEFINE d == Len(f) - c
           p == [j \in 1..(c - 0) |-> f[0 + j]]
           s == [j \in 1..d |-> f[c + j]]
<1>0. d \in Nat /\ Len(f) = c + d /\ c - 0 = c
  OBVIOUS
<1>1. \A j \in 1..(c - 0) : f[0 + j] \in Int /\ 0 + j = j
  OBVIOUS
<1>2. \A j \in 1..d : f[c + j] \in Int
  OBVIOUS
<1>3. p \in [1..c -> Int] /\ s \in [1..d -> Int]
  BY <1>0, <1>1, <1>2
<1>4. \A j \in 1..c : p[j] = f[j]
  BY <1>0, <1>1
<1>5. \A j \in 1..d : s[j] = f[c + j]
  OBVIOUS
<1>. HIDE DEF p, s, d
<1>6. p \in Seq(Int) /\ Len(p) = c /\ s \in Seq(Int) /\ Len(s) = d
  BY <1>0, <1>3, JoinedSequences
<1>7. p \o s = f
  <2>1. /\ p \o s \in Seq(Int) /\ Len(p \o s) = Len(f)
        /\ \A j \in 1..(c + d) : (p \o s)[j] = IF j <= c THEN p[j] ELSE s[j - c]
    <3>1. /\ p \o s \in Seq(Int) /\ Len(p \o s) = Len(p) + Len(s)
          /\ \A j \in 1..(Len(p) + Len(s)) :
               (p \o s)[j] = IF j <= Len(p) THEN p[j] ELSE s[j - Len(p)]
      BY Zenon, <1>6, JoinedSequences
    <3>. QED BY Zenon, <1>0, <1>6, <3>1
  <2>2. ASSUME NEW j \in 1..(c + d) PROVE (p \o s)[j] = f[j]
    <3>1. CASE j <= c
      <4>1. j \in 1..c
        BY <3>1
      <4>. QED BY <1>4, <2>1, <3>1, <4>1
    <3>2. CASE ~(j <= c)
      <4>1. j - c \in 1..d /\ c + (j - c) = j
        BY <1>0, <3>2
      <4>2. s[j - c] = f[c + (j - c)]
        BY <1>5, <4>1
      <4>. QED BY <2>1, <3>2, <4>1, <4>2
    <3>. QED BY <3>1, <3>2
  <2>. QED BY <1>0, <2>1, <2>2, JoinedSequences
<1>. QED BY <1>7 DEF p, s, d

\* The pieces together are the tensor as it is received whole.
LEMMA PiecesJoin ==
  ASSUME NEW x, NEW c, WellFormed(x, c), BypassReasonOf(x, c) = "none",
         c.allocation # "per_channel", NEW cut,
         CutOut(x, c, 0, cut), CutOut(x, c, cut, Len(x.data))
  PROVE  Decode(ReferenceEncode(PieceOf(x, 0, cut), c).buf)
           \o Decode(ReferenceEncode(PieceOf(x, cut, Len(x.data)), c).buf)
         = Decode(ReferenceEncode(x, c).buf)
<1> DEFINE f == Decode(ReferenceEncode(x, c).buf)
           m == Len(x.data)
<1>1. Decode(ReferenceEncode(PieceOf(x, 0, cut), c).buf) = [j \in 1..(cut - 0) |-> f[0 + j]]
  BY PieceDecodes
<1>2. Decode(ReferenceEncode(PieceOf(x, cut, m), c).buf) = [j \in 1..(m - cut) |-> f[cut + j]]
  BY PieceDecodes
<1>3. cut \in Nat /\ cut <= m /\ m \in Nat
  BY DEF CutOut
<1>4. f \in Seq(Int) /\ Len(f) = m
  BY <1>3, BackIsNumbers
<1>. HIDE DEF f, m
<1>5. [j \in 1..(cut - 0) |-> f[0 + j]] \o [j \in 1..(m - cut) |-> f[cut + j]] = f
  BY <1>3, <1>4, Rejoined
<1>. QED BY <1>1, <1>2, <1>5 DEF f, m
\* A boundary splits the tensor in two such pieces.
LEMMA BoundaryCuts ==
  ASSUME WellFormed(tensor, cfg), NEW cut \in Boundaries
  PROVE  /\ cfg.allocation # "per_channel" /\ Piece(0, cut) = PieceOf(tensor, 0, cut)
         /\ Piece(cut, Len(tensor.data)) = PieceOf(tensor, cut, Len(tensor.data))
         /\ CutOut(tensor, cfg, 0, cut) /\ CutOut(tensor, cfg, cut, Len(tensor.data))
<1> DEFINE m == Len(tensor.data)
           u == Unit(tensor, cfg)
<1>1. /\ m \in Nat /\ cfg.block \in Nat \ {0} /\ Numel(tensor.shape) = m
      /\ tensor.shape \in Seq(Nat \ {0}) /\ Len(tensor.shape) \in {1, 2}
  BY InputFacts DEF WellFormed
<1>2. /\ cut \in cfg.block..(m - cfg.block) /\ cfg.allocation # "per_channel" /\ cut % u = 0
      /\ Len(tensor.shape) = 2 => cut % tensor.shape[2] = 0
  BY DEF Boundaries, Unit
<1>3. cut \in Nat /\ cfg.block <= cut /\ cut + cfg.block <= m
  BY <1>1, <1>2
<1>4. u \in Nat \ {0}
  BY <1>1 DEF Unit
<1>. HIDE DEF u
<1>5. \E k \in Nat : cut = k * u
  <2>1. cut \div u \in Nat /\ cut = ((cut \div u) * u) + (cut % u)
    BY <1>3, <1>4, DivLaw
  <2>2. (cut \div u) * u \in Nat
    BY <1>4, <2>1, Products
  <2>. QED BY <1>2, <2>1, <2>2
<1>6. \E k \in Nat : 0 = k * u
  <2>1. 0 = 0 * u
    BY <1>4
  <2>. QED BY <2>1
<1>7. ASSUME Len(tensor.shape) = 2
      PROVE  /\ \E k \in Nat \ {0} : cut - 0 = k * tensor.shape[2]
             /\ \E k \in Nat \ {0} : m - cut = k * tensor.shape[2]
  <2> DEFINE v == tensor.shape[2]
             h == tensor.shape[1]
             k == cut \div v
  <2>1. v \in Nat \ {0} /\ h \in Nat \ {0} /\ m = h * v
    BY <1>1, <1>7 DEF Numel
  <2>. HIDE DEF v, h
  <2>2. k \in Nat /\ cut = k * v
    <3>1. cut \div v \in Nat /\ cut = ((cut \div v) * v) + (cut % v)
      BY <1>3, <2>1, DivLaw
    <3>2. (cut \div v) * v \in Nat
      BY <2>1, <3>1, Products
    <3>3. cut % v = 0
      BY <1>2, <1>7 DEF v
    <3>. QED BY <3>1, <3>2, <3>3
  <2>. HIDE DEF k
  <2>3. k # 0
    BY <1>1, <1>3, <2>1, <2>2
  <2>4. k < h
    <3>1. k * v < h * v
      BY <1>1, <1>3, <2>1, <2>2
    <3>2. k * v \in Nat /\ h * v \in Nat
      BY <2>1, <2>2, Products
    <3>3. ASSUME h < k PROVE FALSE
      <4>1. h * v + v <= k * v
        BY <2>1, <2>2, <3>3, TimesGrows
      <4>. QED BY <2>1, <3>1, <3>2, <4>1
    <3>. QED BY <2>1, <2>2, <3>1, <3>3
  <2>5. h - k \in Nat \ {0} /\ (h - k) * v = h * v - k * v
    BY <2>1, <2>2, <2>4
  <2>6. m - cut = (h - k) * v /\ cut - 0 = k * v /\ k \in Nat \ {0}
    BY <1>3, <2>1, <2>2, <2>3, <2>5
  <2>. QED BY <2>5, <2>6 DEF v
<1>8. CutOut(tensor, cfg, 0, cut) /\ CutOut(tensor, cfg, cut, m)
  <2>. HIDE DEF m
  <2>1. CutOut(tensor, cfg, 0, cut)
    BY <1>1, <1>3, <1>5, <1>6, <1>7 DEF CutOut, u, m
  <2>2. CutOut(tensor, cfg, cut, m)
    BY <1>1, <1>3, <1>5, <1>7 DEF CutOut, u, m
  <2>. QED BY <2>1, <2>2
<1>9. Piece(0, cut) = PieceOf(tensor, 0, cut) /\ Piece(cut, m) = PieceOf(tensor, cut, m)
  BY Zenon DEF Piece, PieceOf
<1>. QED BY <1>2, <1>8, <1>9

PiecesInv ==
  pieces # Nothing => ref # Nothing /\ pieces.data = Decode(ReferenceEncode(tensor, cfg).buf)

LEMMA InitPiecesInv == Init => PiecesInv
BY DEF Init, PiecesInv

LEMMA NextPiecesInv == LinkInv /\ PiecesInv /\ [Next]_vars => PiecesInv'
<1> SUFFICES ASSUME LinkInv, PiecesInv, [Next]_vars PROVE PiecesInv'
  OBVIOUS
<1>1. CASE EncodeInPieces
  <2>0. WellFormed(tensor, cfg)
    BY CodecAssumption DEF LinkInv, InputInv
  <2> DEFINE Back(x) == Decode(ReferenceEncode(x, cfg).buf)
  <2>1. PICK cut \in Boundaries :
          pieces' = [data |-> [x \in {Piece(0, cut), Piece(cut, Len(tensor.data))} |->
                                 Back(x)][Piece(0, cut)]
                              \o [x \in {Piece(0, cut), Piece(cut, Len(tensor.data))} |->
                                    Back(x)][Piece(cut, Len(tensor.data))]]
    BY Zenon, <1>1 DEF EncodeInPieces
  <2>. HIDE DEF Back
  <2>2. pieces' = [data |-> Back(Piece(0, cut)) \o Back(Piece(cut, Len(tensor.data)))]
    BY Zenon, <2>1
  <2>3. Back(Piece(0, cut)) \o Back(Piece(cut, Len(tensor.data))) = Back(tensor)
    <3>1. BypassReasonOf(tensor, cfg) = "none"
      BY <1>1 DEF EncodeInPieces
    <3>2. /\ cfg.allocation # "per_channel" /\ Piece(0, cut) = PieceOf(tensor, 0, cut)
          /\ Piece(cut, Len(tensor.data)) = PieceOf(tensor, cut, Len(tensor.data))
          /\ CutOut(tensor, cfg, 0, cut) /\ CutOut(tensor, cfg, cut, Len(tensor.data))
      BY <2>0, BoundaryCuts
    <3>3. Back(PieceOf(tensor, 0, cut)) \o Back(PieceOf(tensor, cut, Len(tensor.data)))
            = Back(tensor)
      BY <2>0, <3>1, <3>2, PiecesJoin DEF Back
    <3>. QED BY Zenon, <3>2, <3>3
  <2>4. pieces'.data = Back(tensor)
    BY <2>2, <2>3
  <2>5. ref' # Nothing /\ tensor' = tensor /\ cfg' = cfg
    BY <1>1 DEF EncodeInPieces
  <2>. QED BY <2>4, <2>5 DEF PiecesInv, Back
<1>2. CASE EncodeOnHost
  <2>1. /\ tensor' = tensor /\ cfg' = cfg /\ pieces' = pieces /\ ref' # Nothing
    BY <1>2 DEF EncodeOnHost, Nothing
  <2>. QED BY <2>1 DEF PiecesInv
<1>3. CASE UNCHANGED <<tensor, cfg, ref, pieces>>
  BY <1>3 DEF PiecesInv
<1>4. EncodeOnGpu \/ Damage \/ Receive \/ Send("host", ref) \/ Send("gpu", gpu) \/ UNCHANGED vars
        => UNCHANGED <<tensor, cfg, ref, pieces>>
  BY DEF EncodeOnGpu, Damage, Receive, Send, vars
<1>. QED BY <1>1, <1>2, <1>3, <1>4 DEF Next

\* Sent in two chunks split at a boundary, each at least a block long, the tensor is
\* received as it is when sent whole, to the last bit (allocation.py).
THEOREM ChunksAreIndependent ==
  ASSUME WholeBytes
  PROVE  Spec => []ChunkIndependent
<1>1. LinkInv /\ PiecesInv => ChunkIndependent
  <2> SUFFICES ASSUME LinkInv, PiecesInv, pieces # Nothing
               PROVE  pieces.data = Decode(ref.result.buf)
    BY DEF ChunkIndependent
  <2>1. ref = HostResult /\ pieces.data = Decode(ReferenceEncode(tensor, cfg).buf)
    BY DEF LinkInv, EncodersInv, PiecesInv
  <2>2. ref.result = ReferenceEncode(tensor, cfg)
    BY <2>1 DEF HostResult
  <2>. QED BY <2>1, <2>2
<1>. QED BY <1>1, InitLinkInv, NextLinkInv, InitPiecesInv, NextPiecesInv, PTL DEF Spec
=============================================================================
