---------------------------- MODULE OffloadProofs ----------------------------
(***************************************************************************)
(* fsync_offload.py, for every cache, list of configurations and number of *)
(* repetitions, and with failing calls and a machine that stops anywhere:  *)
(* what was acknowledged behind an fsync is on the disk, what a pass       *)
(* returns over has no hole, and the table is complete.                    *)
(*                                                                         *)
(* Offsets and FlattenSeq are recursive functions; what they compute is    *)
(* proved by the least number for which it would not hold.                 *)
(***************************************************************************)
EXTENDS OffloadFile, SequenceTheorems, WellFoundedInduction, TLAPS

-----------------------------------------------------------------------------
(* Least numbers and recursive functions.                                   *)

LEMMA LeastNumber ==
  ASSUME NEW S, S \subseteq Nat, S # {}
  PROVE  \E m \in S : \A k \in S : m <= k
<1>1. IsWellFoundedOn(OpToRel(<, Nat), Nat)
  BY NatLessThanWellFounded
<1>2. PICK m \in S : ~(\E y \in S : <<y, m>> \in OpToRel(<, Nat))
  BY <1>1, WFMin
<1>3. \A y \in S : <<y, m>> \notin OpToRel(<, Nat)
  BY <1>2
<1>4. \A y \in S : ~(y < m)
  BY <1>3 DEF OpToRel
<1>. QED BY <1>4

\* Induction up to n, over the set of numbers for which something holds.
LEMMA UpTo ==
  ASSUME NEW n \in Nat, NEW Good, n >= 1 => 1 \in Good,
         \A k \in 2..n : k - 1 \in Good => k \in Good
  PROVE  \A k \in 1..n : k \in Good
<1> DEFINE Bad == {k \in 1..n : k \notin Good}
<1> SUFFICES ASSUME Bad # {} PROVE FALSE
  OBVIOUS
<1>1. Bad \subseteq Nat
  OBVIOUS
<1>2. PICK m \in Bad : \A k \in Bad : m <= k
  <2>. HIDE DEF Bad
  <2>. QED BY <1>1, LeastNumber
<1>3. m \in 2..n
  BY <1>2
<1>4. m - 1 \notin Bad
  <2>1. m \in Int /\ ~(m <= m - 1)
    BY <1>3
  <2>. HIDE DEF Bad
  <2>. QED BY <1>2, <2>1
<1>. QED BY <1>2, <1>3, <1>4

\* Running sums of a sequence exist.
LEMMA SumsExist ==
  ASSUME NEW n \in Nat, NEW s \in [1..n -> Nat]
  PROVE  \A k \in 1..(n + 1) : \E g \in [1..k -> Nat] :
           g = [t \in 1..k |-> IF t = 1 THEN 0 ELSE g[t - 1] + s[t - 1]]
<1> DEFINE Has(k) == \E g \in [1..k -> Nat] :
                       g = [t \in 1..k |-> IF t = 1 THEN 0 ELSE g[t - 1] + s[t - 1]]
           Good == {k \in 1..(n + 1) : Has(k)}
<1>1. Has(1)
  <2> DEFINE g == [t \in 1..1 |-> 0]
  <2>1. g \in [1..1 -> Nat]
    OBVIOUS
  <2>2. g = [t \in 1..1 |-> IF t = 1 THEN 0 ELSE g[t - 1] + s[t - 1]]
    OBVIOUS
  <2>. QED BY <2>1, <2>2
<1>2. ASSUME NEW m \in 2..(n + 1), Has(m - 1)
      PROVE  Has(m)
  <2>1. PICK g \in [1..(m - 1) -> Nat] :
          g = [t \in 1..(m - 1) |-> IF t = 1 THEN 0 ELSE g[t - 1] + s[t - 1]]
    BY <1>2
  <2> DEFINE h == [t \in 1..m |-> IF t = m THEN g[m - 1] + s[m - 1] ELSE g[t]]
  <2>2. h \in [1..m -> Nat]
    OBVIOUS
  <2>3. \A t \in 1..m : h[t] = IF t = 1 THEN 0 ELSE h[t - 1] + s[t - 1]
    <3> TAKE t \in 1..m
    <3>1. CASE t = m
      BY <3>1
    <3>2. CASE t # m
      <4>1. t \in 1..(m - 1)
        BY <3>2
      <4>2. g[t] = IF t = 1 THEN 0 ELSE g[t - 1] + s[t - 1]
        BY <2>1, <4>1
      <4>. QED BY <3>2, <4>1, <4>2
    <3>. QED BY <3>1, <3>2
  <2>4. h = [t \in 1..m |-> IF t = 1 THEN 0 ELSE h[t - 1] + s[t - 1]]
    BY <2>2, <2>3
  <2>. QED BY <2>2, <2>4
<1>3. \A k \in 1..(n + 1) : k \in Good
  <2>1. 1 \in Good /\ \A k \in 2..(n + 1) : k - 1 \in Good => k \in Good
    <3>. HIDE DEF Has
    <3>. QED BY <1>1, <1>2
  <2>2. n + 1 \in Nat
    OBVIOUS
  <2>. HIDE DEF Good
  <2>. QED BY <2>1, <2>2, UpTo
<1>. QED BY <1>3

\* So do running concatenations.
LEMMA ConcatsExist ==
  ASSUME NEW n \in Nat, NEW s
  PROVE  \A k \in 1..n : \E g :
           g = [t \in 1..k |-> IF t = 1 THEN s[t] ELSE g[t - 1] \o s[t]]
<1> DEFINE Has(k) == \E g : g = [t \in 1..k |-> IF t = 1 THEN s[t] ELSE g[t - 1] \o s[t]]
           Good == {k \in 1..n : Has(k)}
<1>1. Has(1)
  <2> DEFINE g == [t \in 1..1 |-> s[t]]
  <2>1. g = [t \in 1..1 |-> IF t = 1 THEN s[t] ELSE g[t - 1] \o s[t]]
    OBVIOUS
  <2>. QED BY <2>1
<1>2. ASSUME NEW m \in 2..n, Has(m - 1)
      PROVE  Has(m)
  <2>1. PICK g : g = [t \in 1..(m - 1) |-> IF t = 1 THEN s[t] ELSE g[t - 1] \o s[t]]
    BY <1>2
  <2> DEFINE h == [t \in 1..m |-> IF t = m THEN g[m - 1] \o s[m] ELSE g[t]]
  <2>3. \A t \in 1..m : h[t] = IF t = 1 THEN s[t] ELSE h[t - 1] \o s[t]
    <3> TAKE t \in 1..m
    <3>1. CASE t = m
      <4>1. m - 1 \in 1..m /\ m \in 1..m /\ m - 1 # m /\ m # 1
        OBVIOUS
      <4>2. h[m - 1] = g[m - 1]
        BY <4>1
      <4>3. h[m] = g[m - 1] \o s[m]
        BY <4>1
      <4>. QED BY <3>1, <4>1, <4>2, <4>3
    <3>2. CASE t # m
      <4>1. t \in 1..(m - 1)
        BY <3>2
      <4>2. g[t] = IF t = 1 THEN s[t] ELSE g[t - 1] \o s[t]
        BY <2>1, <4>1
      <4>. QED BY <3>2, <4>1, <4>2
    <3>. QED BY <3>1, <3>2
  <2>4. h = [t \in 1..m |-> IF t = 1 THEN s[t] ELSE h[t - 1] \o s[t]]
    BY <2>3
  <2>. QED BY <2>4
<1>3. \A k \in 1..n : k \in Good
  <2>1. /\ n >= 1 => 1 \in Good
        /\ \A k \in 2..n : k - 1 \in Good => k \in Good
    <3>. HIDE DEF Has
    <3>. QED BY <1>1, <1>2
  <2>. HIDE DEF Good
  <2>. QED BY <2>1, UpTo
<1>. QED BY <1>3

-----------------------------------------------------------------------------
(* How a payload is laid out.                                               *)

LEMMA TensorsOf ==
  ASSUME NEW a \in Arms
  PROVE  /\ NTensors \in Nat \ {0}
         /\ Sizes[a] \in [1..NTensors -> Nat \ {0}]
<1>1. \A b \in Arms : Sizes[b] \in Seq(Nat \ {0}) /\ Len(Sizes[b]) = NTensors
  BY OffloadAssumption DEF Arms, NTensors
<1>2. NTensors # 0
  BY <1>1, OffloadAssumption, EmptySeq DEF Arms
<1>. QED BY <1>1, <1>2

LEMMA OffsetsLaid ==
  ASSUME NEW a \in Arms
  PROVE  /\ Offsets(a) \in [1..(NTensors + 1) -> Nat]
         /\ Offsets(a)[1] = 0
         /\ \A t \in 1..NTensors : Offsets(a)[t + 1] = Offsets(a)[t] + Sizes[a][t]
<1> DEFINE n == NTensors
           s == Sizes[a]
           acc == Offsets(a)
<1>1. n \in Nat /\ s \in [1..n -> Nat]
  BY TensorsOf
<1>2. acc = CHOOSE g : g = [t \in 1..(n + 1) |-> IF t = 1 THEN 0 ELSE g[t - 1] + s[t - 1]]
  BY DEF Offsets
<1>3. PICK g \in [1..(n + 1) -> Nat] :
        g = [t \in 1..(n + 1) |-> IF t = 1 THEN 0 ELSE g[t - 1] + s[t - 1]]
  <2>1. n + 1 \in 1..(n + 1)
    BY <1>1
  <2>. HIDE DEF n, s
  <2>. QED BY <1>1, <2>1, SumsExist
<1>4. acc = [t \in 1..(n + 1) |-> IF t = 1 THEN 0 ELSE acc[t - 1] + s[t - 1]]
  <2>. HIDE DEF acc, n, s
  <2>. QED BY <1>2, <1>3
<1> HIDE DEF acc, n, s
<1> DEFINE Good == {t \in 1..(n + 1) : acc[t] \in Nat}
<1>5. \A t \in 1..(n + 1) : t \in Good
  <2>1. 1 \in Good
    BY <1>1, <1>4
  <2>2. ASSUME NEW t \in 2..(n + 1), t - 1 \in Good
        PROVE  t \in Good
    <3>1. acc[t] = acc[t - 1] + s[t - 1]
      BY <1>1, <1>4
    <3>. QED BY <1>1, <2>2, <3>1
  <2>3. n + 1 \in Nat
    BY <1>1
  <2>. HIDE DEF Good
  <2>. QED BY <2>1, <2>2, <2>3, UpTo
<1>6. acc \in [1..(n + 1) -> Nat] /\ acc[1] = 0
  BY <1>1, <1>4, <1>5
<1>7. \A t \in 1..n : acc[t + 1] = acc[t] + s[t]
  <2> TAKE t \in 1..n
  <2>1. t + 1 \in 1..(n + 1) /\ t + 1 # 1 /\ (t + 1) - 1 = t
    BY <1>1
  <2>. QED BY <1>4, <2>1
<1>. QED BY <1>6, <1>7 DEF acc, n, s

LEMMA LaidTypes ==
  ASSUME NEW a \in Arms
  PROVE  /\ \A t \in 1..(NTensors + 1) : Offsets(a)[t] \in Nat
         /\ \A t \in 1..NTensors : t \in 1..(NTensors + 1) /\ Sizes[a][t] \in Nat \ {0}
         /\ Total(a) \in Nat
<1>1. NTensors \in Nat /\ Sizes[a] \in [1..NTensors -> Nat \ {0}]
  BY TensorsOf
<1>2. Offsets(a) \in [1..(NTensors + 1) -> Nat]
  BY OffsetsLaid
<1>3. NTensors + 1 \in 1..(NTensors + 1)
  BY <1>1
<1>. QED BY <1>1, <1>2, <1>3 DEF Total

\* Regions do not overlap.
LEMMA OffsetsGrow ==
  ASSUME NEW a \in Arms
  PROVE  \A t \in 1..NTensors : \A u \in 1..(NTensors + 1) :
           t < u => Offsets(a)[t] + Sizes[a][t] <= Offsets(a)[u]
<1> TAKE t \in 1..NTensors
<1> DEFINE Good == {u \in 1..(NTensors + 1) :
                      t < u => Offsets(a)[t] + Sizes[a][t] <= Offsets(a)[u]}
<1>1. NTensors \in Nat
  BY TensorsOf
<1>2. 1 \in Good
  BY <1>1
<1>3. ASSUME NEW u \in 2..(NTensors + 1), u - 1 \in Good
      PROVE  u \in Good
  <2>1. u - 1 \in 1..NTensors /\ (u - 1) + 1 = u
    BY <1>1
  <2>2. Offsets(a)[u] = Offsets(a)[u - 1] + Sizes[a][u - 1]
    BY <2>1, OffsetsLaid
  <2>3. Offsets(a)[u - 1] \in Nat /\ Offsets(a)[u] \in Nat /\ Offsets(a)[t] \in Nat
        /\ Sizes[a][u - 1] \in Nat /\ Sizes[a][t] \in Nat
    BY <2>1, LaidTypes
  <2>4. CASE t < u - 1
    BY <1>3, <2>2, <2>3, <2>4
  <2>5. CASE t = u - 1
    BY <2>2, <2>3, <2>5
  <2>6. CASE u - 1 < t
    BY <2>1, <2>6
  <2>. QED BY <2>1, <2>4, <2>5, <2>6
<1>4. NTensors + 1 \in Nat
  BY <1>1
<1>5. \A u \in 1..(NTensors + 1) : u \in Good
  <2>. HIDE DEF Good
  <2>. QED BY <1>2, <1>3, <1>4, UpTo
<1>. QED BY <1>5

\* Every position of the file is some tensor's.
LEMMA PositionsCovered ==
  ASSUME NEW a \in Arms, NEW p \in 1..Total(a)
  PROVE  \E t \in 1..NTensors : \E k \in 1..Sizes[a][t] : p = Offsets(a)[t] + k
<1> DEFINE Reaching == {u \in 1..(NTensors + 1) : p <= Offsets(a)[u]}
<1>1. NTensors \in Nat /\ Offsets(a)[1] = 0
  BY TensorsOf, OffsetsLaid
<1>2. NTensors + 1 \in Reaching /\ Reaching \subseteq Nat
  BY <1>1 DEF Total
<1>3. PICK m \in Reaching : \A k \in Reaching : m <= k
  <2>. HIDE DEF Reaching
  <2>. QED BY <1>2, LeastNumber
<1>4. m \in 2..(NTensors + 1)
  BY <1>1, <1>3
<1>5. m - 1 \notin Reaching
  <2>1. m \in Int /\ ~(m <= m - 1)
    BY <1>4
  <2>. HIDE DEF Reaching
  <2>. QED BY <1>3, <2>1
<1> DEFINE t == m - 1
           k == p - Offsets(a)[t]
<1>6. t \in 1..NTensors /\ t + 1 = m
  BY <1>1, <1>4
<1>7. Offsets(a)[m] = Offsets(a)[t] + Sizes[a][t] /\ Offsets(a)[t] \in Nat /\ Sizes[a][t] \in Nat
      /\ Total(a) \in Nat
  <2>. HIDE DEF t
  <2>. QED BY <1>6, OffsetsLaid, LaidTypes
<1>8. ~(p <= Offsets(a)[t]) /\ p <= Offsets(a)[m]
  BY <1>1, <1>3, <1>4, <1>5
<1>9. k \in 1..Sizes[a][t] /\ p = Offsets(a)[t] + k
  BY <1>7, <1>8
<1>. QED BY <1>6, <1>9

LEMMA RegionInside ==
  ASSUME NEW a \in Arms, NEW t \in 1..NTensors, NEW k \in 1..Sizes[a][t]
  PROVE  Offsets(a)[t] + k \in 1..Total(a)
<1>1. /\ NTensors + 1 \in 1..(NTensors + 1) /\ t < NTensors + 1 /\ t \in 1..(NTensors + 1)
      /\ Sizes[a][t] \in Nat
  BY TensorsOf, LaidTypes
<1>2. Offsets(a)[t] + Sizes[a][t] <= Total(a)
  BY <1>1, OffsetsGrow DEF Total
<1>3. Offsets(a)[t] \in Nat /\ Total(a) \in Nat
  BY <1>1, LaidTypes
<1>. QED BY <1>1, <1>2, <1>3

\* The staging copy knows whose bytes a position is for.
LEMMA OwnerIs ==
  ASSUME arm \in Arms, NEW t \in 1..NTensors, NEW k \in 1..Sizes[arm][t]
  PROVE  Owner(Offsets(arm)[t] + k) = t
<1> DEFINE S == {u \in 1..NTensors : Offsets(arm)[u] < Offsets(arm)[t] + k}
<1>1. NTensors \in Nat /\ \A u \in 1..NTensors : Offsets(arm)[u] \in Nat /\ Sizes[arm][u] \in Nat
  BY TensorsOf, LaidTypes
<1>2. t \in S /\ S \subseteq Int
  BY <1>1
<1>3. \A u \in S : t >= u
  <2> TAKE u \in S
  <2>1. CASE t < u
    <3>1. Offsets(arm)[t] + Sizes[arm][t] <= Offsets(arm)[u]
      BY <1>1, <2>1, OffsetsGrow
    <3>. QED BY <1>1, <3>1
  <2>. QED BY <1>1, <2>1
<1>4. Max(S) = t
  <2>1. \A x \in S : (\A y \in S : x >= y) => x = t
    <3>. HIDE DEF S
    <3>1. SUFFICES ASSUME NEW x \in S, \A y \in S : x >= y PROVE x = t
      OBVIOUS
    <3>2. x >= t /\ t >= x /\ x \in Int /\ t \in Int
      BY <1>2, <1>3, <3>1
    <3>. QED BY <3>2
  <2>2. Max(S) = CHOOSE x \in S : \A y \in S : x >= y
    BY DEF Max
  <2>. HIDE DEF S
  <2>. QED BY <1>2, <1>3, <2>1, <2>2
<1>. QED BY <1>4 DEF Owner

PageSet == [arm : Arms \union {"none"}, tensor : Nat, page : Nat]

LEMMA PayloadLaid ==
  ASSUME NEW a \in Arms
  PROVE  /\ Payload(a) \in Seq(PageSet)
         /\ Len(Payload(a)) = Total(a)
         /\ \A t \in 1..NTensors : \A k \in 1..Sizes[a][t] :
              Payload(a)[Offsets(a)[t] + k] = Page(a, t, k)
<1> DEFINE s == [t \in 1..NTensors |-> [k \in 1..Sizes[a][t] |-> Page(a, t, k)]]
           f == CHOOSE g : g = [t \in 1..NTensors |->
                                  IF t = 1 THEN s[t] ELSE g[t - 1] \o s[t]]
<1>1. NTensors \in Nat \ {0} /\ \A t \in 1..NTensors : Sizes[a][t] \in Nat \ {0}
  BY TensorsOf
<1>2. Len(s) = NTensors
  BY <1>1
<1>3. Payload(a) = f[NTensors]
  BY <1>1, <1>2 DEF Payload, FlattenSeq
<1>4. f = [t \in 1..NTensors |-> IF t = 1 THEN s[t] ELSE f[t - 1] \o s[t]]
  <2>1. NTensors \in 1..NTensors
    BY <1>1
  <2>. HIDE DEF s
  <2>2. PICK g : g = [t \in 1..NTensors |-> IF t = 1 THEN s[t] ELSE g[t - 1] \o s[t]]
    BY <1>1, <2>1, ConcatsExist
  <2>. QED BY <2>2
<1>5. \A t \in 1..NTensors : s[t] \in Seq(PageSet) /\ Len(s[t]) = Sizes[a][t]
  <2> TAKE t \in 1..NTensors
  <2>1. s[t] = [k \in 1..Sizes[a][t] |-> Page(a, t, k)] /\ Sizes[a][t] \in Nat
    BY <1>1
  <2>2. \A k \in 1..Sizes[a][t] : Page(a, t, k) \in PageSet
    BY DEF Page, PageSet
  <2>3. s[t] \in [1..Sizes[a][t] -> PageSet]
    BY <2>1, <2>2
  <2>. HIDE DEF s
  <2>. QED BY <2>1, <2>3
<1>6. \A t \in 1..NTensors : \A k \in 1..Sizes[a][t] : s[t][k] = Page(a, t, k)
  OBVIOUS
<1> HIDE DEF s, f
<1> DEFINE Placed(i) == \A t \in 1..i : \A k \in 1..Sizes[a][t] :
                          f[i][Offsets(a)[t] + k] = Page(a, t, k)
           Good == {i \in 1..NTensors :
                      f[i] \in Seq(PageSet) /\ Len(f[i]) = Offsets(a)[i + 1] /\ Placed(i)}
<1>7. 1 \in Good
  <2>1. f[1] = s[1] /\ 1 \in 1..NTensors
    BY <1>1, <1>4
  <2>2. Offsets(a)[1] = 0 /\ Offsets(a)[1 + 1] = Offsets(a)[1] + Sizes[a][1]
    BY <2>1, OffsetsLaid
  <2>3. Len(f[1]) = Offsets(a)[1 + 1]
    BY <1>1, <1>5, <2>1, <2>2
  <2>4. Placed(1)
    BY <1>1, <1>6, <2>1, <2>2
  <2>. QED BY <1>5, <2>1, <2>3, <2>4
<1>8. ASSUME NEW i \in 2..NTensors, i - 1 \in Good
      PROVE  i \in Good
  <2>1. i \in 1..NTensors /\ i # 1 /\ i - 1 \in 1..NTensors /\ (i - 1) + 1 = i
    BY <1>1
  <2>2. f[i] = f[i - 1] \o s[i]
    BY <1>4, <2>1
  <2>3. f[i - 1] \in Seq(PageSet) /\ Len(f[i - 1]) = Offsets(a)[i] /\ Placed(i - 1)
    BY <1>8, <2>1
  <2>4. s[i] \in Seq(PageSet) /\ Len(s[i]) = Sizes[a][i]
    BY <1>5, <2>1
  <2>5. /\ f[i] \in Seq(PageSet) /\ Len(f[i]) = Len(f[i - 1]) + Len(s[i])
        /\ \A p \in 1..(Len(f[i - 1]) + Len(s[i])) :
             f[i][p] = IF p <= Len(f[i - 1]) THEN f[i - 1][p] ELSE s[i][p - Len(f[i - 1])]
    <3>1. \A u, v \in Seq(PageSet) :
            /\ u \o v \in Seq(PageSet) /\ Len(u \o v) = Len(u) + Len(v)
            /\ \A p \in 1..(Len(u) + Len(v)) :
                 (u \o v)[p] = IF p <= Len(u) THEN u[p] ELSE v[p - Len(u)]
      BY ConcatProperties
    <3>2. f[i - 1] \in Seq(PageSet)
      BY <2>3
    <3>3. s[i] \in Seq(PageSet)
      BY <2>4
    <3> DEFINE u == f[i - 1]
               v == s[i]
    <3>4. /\ u \o v \in Seq(PageSet) /\ Len(u \o v) = Len(u) + Len(v)
          /\ \A p \in 1..(Len(u) + Len(v)) :
               (u \o v)[p] = IF p <= Len(u) THEN u[p] ELSE v[p - Len(u)]
      <4>. HIDE DEF u, v
      <4>1. u \in Seq(PageSet) /\ v \in Seq(PageSet)
        BY <3>2, <3>3 DEF u, v
      <4>. QED BY <4>1, <3>1
    <3>5. f[i] = u \o v
      BY <2>2
    <3>. HIDE DEF Placed, u, v
    <3>6. /\ f[i] \in Seq(PageSet) /\ Len(f[i]) = Len(u) + Len(v)
          /\ \A p \in 1..(Len(u) + Len(v)) :
               f[i][p] = IF p <= Len(u) THEN u[p] ELSE v[p - Len(u)]
      BY Zenon, <3>4, <3>5
    <3>. QED BY Zenon, <3>6 DEF u, v
  <2>6. Len(f[i]) = Offsets(a)[i + 1]
    BY <2>1, <2>3, <2>4, <2>5, OffsetsLaid
  <2>7. ASSUME NEW t \in 1..i, NEW k \in 1..Sizes[a][t]
        PROVE  f[i][Offsets(a)[t] + k] = Page(a, t, k)
    <3>1. t \in 1..NTensors /\ Offsets(a)[t] \in Nat /\ Sizes[a][t] \in Nat
          /\ Offsets(a)[i] \in Nat /\ Sizes[a][i] \in Nat
      <4>1. t \in 1..NTensors
        BY <1>1
      <4>. QED BY <2>1, <4>1, LaidTypes
    <3>2. CASE t = i
      <4>1. Offsets(a)[i] + k \in 1..(Len(f[i - 1]) + Len(s[i]))
            /\ ~(Offsets(a)[i] + k <= Len(f[i - 1]))
            /\ (Offsets(a)[i] + k) - Len(f[i - 1]) = k
        <5>1. Len(f[i - 1]) = Offsets(a)[i] /\ Len(s[i]) = Sizes[a][i] /\ k \in 1..Sizes[a][i]
          BY <2>3, <2>4, <3>2
        <5>2. \A x, y \in Nat : \A j \in 1..y :
                x + j \in 1..(x + y) /\ ~(x + j <= x) /\ (x + j) - x = j
          OBVIOUS
        <5>. QED BY Zenon, <3>1, <5>1, <5>2
      <4>2. f[i][Offsets(a)[i] + k] = s[i][k]
        BY <2>5, <4>1
      <4>. QED BY <1>6, <2>1, <3>2, <4>2
    <3>3. CASE t < i
      <4>1. i \in 1..(NTensors + 1) /\ t \in 1..(i - 1)
        BY <1>1, <2>1, <3>3
      <4>2. Offsets(a)[t] + Sizes[a][t] <= Offsets(a)[i]
        BY <3>1, <3>3, <4>1, OffsetsGrow
      <4>3. Offsets(a)[t] + k \in 1..(Len(f[i - 1]) + Len(s[i]))
            /\ Offsets(a)[t] + k <= Len(f[i - 1])
        <5>1. Len(f[i - 1]) = Offsets(a)[i] /\ Len(s[i]) = Sizes[a][i]
          BY <2>3, <2>4
        <5>2. \A x, y, o, z \in Nat : \A j \in 1..z :
                o + z <= x => o + j \in 1..(x + y) /\ o + j <= x
          OBVIOUS
        <5>. QED BY Zenon, <3>1, <4>2, <5>1, <5>2
      <4>4. f[i][Offsets(a)[t] + k] = f[i - 1][Offsets(a)[t] + k]
        BY <2>5, <4>3
      <4>. QED BY <2>3, <4>1, <4>4
    <3>. QED BY <2>1, <3>2, <3>3
  <2>. QED BY <2>1, <2>5, <2>6, <2>7
<1>9. NTensors \in Good
  <2>1. NTensors \in 1..NTensors
    BY <1>1
  <2>. HIDE DEF Good
  <2>. QED BY <1>1, <1>7, <1>8, <2>1, UpTo
<1>. QED BY <1>3, <1>9 DEF Total
\* A file is an arm's payload when every tensor's every page is in its place.
LEMMA PayloadIs ==
  ASSUME NEW a \in Arms, NEW file, file = [p \in 1..Total(a) |-> file[p]],
         \A t \in 1..NTensors : \A k \in 1..Sizes[a][t] :
           file[Offsets(a)[t] + k] = Page(a, t, k)
  PROVE  file = Payload(a)
<1>1. Payload(a) = [p \in 1..Total(a) |-> Payload(a)[p]]
  <2>1. Payload(a) \in Seq(PageSet) /\ Len(Payload(a)) = Total(a)
    BY PayloadLaid
  <2>. QED BY <2>1
<1>2. \A p \in 1..Total(a) : file[p] = Payload(a)[p]
  <2> TAKE p \in 1..Total(a)
  <2>1. PICK t \in 1..NTensors : \E k \in 1..Sizes[a][t] : p = Offsets(a)[t] + k
    BY PositionsCovered
  <2>2. PICK k \in 1..Sizes[a][t] : p = Offsets(a)[t] + k
    BY <2>1
  <2>3. Payload(a)[Offsets(a)[t] + k] = Page(a, t, k)
    BY PayloadLaid
  <2>. QED BY <2>2, <2>3
<1>. QED BY Zenon, <1>1, <1>2

\* What Stage leaves in host memory.
Copied == [p \in 1..Total(arm) |-> Page(arm, Owner(p), p - Offsets(arm)[Owner(p)])]

LEMMA CopiedIsPayload ==
  ASSUME arm \in Arms
  PROVE  Copied = Payload(arm)
<1>1. ASSUME NEW t \in 1..NTensors, NEW k \in 1..Sizes[arm][t]
      PROVE  Copied[Offsets(arm)[t] + k] = Page(arm, t, k)
  <2>1. Offsets(arm)[t] + k \in 1..Total(arm) /\ Owner(Offsets(arm)[t] + k) = t
    BY RegionInside, OwnerIs
  <2>2. (Offsets(arm)[t] + k) - Offsets(arm)[t] = k
    BY LaidTypes
  <2>. QED BY <2>1, <2>2 DEF Copied
<1>2. Copied = [p \in 1..Total(arm) |-> Copied[p]]
  BY DEF Copied
<1>. QED BY <1>1, <1>2, PayloadIs

-----------------------------------------------------------------------------
(* The inductive invariant.                                                 *)

Types ==
  /\ config \in 1..Len(Configs) /\ arm \in Arms /\ round \in Nat
  /\ DOMAIN staged = Arms

\* While the calls are issued, everything up to where they have got is in place.
PlacedInv ==
  pc = "write" =>
    /\ staged[arm] = Payload(arm)
    /\ call \in 1..Calls /\ pos \in 0..CallLength
    /\ \A p \in 1..Total(arm) : p <= CallStart + pos => cached[p] = Payload(arm)[p]

\* What the file is worth at each place of offload.
FileInv ==
  /\ pc \in {"stage", "write"} => cached = [p \in 1..Total(arm) |-> cached[p]]
  /\ pc \in {"fsync", "close", "verify", "returned"} => cached = Payload(arm)
  /\ pc \in {"close", "verify", "returned"} /\ Configs[config].fsync => disk = cached
  /\ pc = "done" => cached = Gone

\* An acknowledgement stands until the file is opened again; until then nothing
\* is left for the filesystem to write back behind it.
AckInv ==
  acked # "none" =>
    /\ acked = arm /\ pc \in {"verify", "returned", "preallocate", "raised", "stopped"}
    /\ pc # "stopped" => cached = Payload(arm)
    /\ Configs[config].fsync => disk = Payload(arm)

Row(r) == [config |-> (r + 1) \div 2,
           arm |-> IF r % 2 = 1 THEN "raw" ELSE "compressed"]

Recorded ==
  IF pc = "done" THEN 2 * Len(Configs)
  ELSE IF arm = "raw" THEN 2 * config - 2 ELSE 2 * config - 1

RowsInv == rows = [r \in 1..Recorded |-> Row(r)]

IInv == Types /\ PlacedInv /\ FileInv /\ AckInv /\ RowsInv

LEMMA ConfigTypes ==
  ASSUME Types
  PROVE  /\ Len(Configs) \in Nat \ {0}
         /\ Configs[config].fsync \in BOOLEAN /\ Configs[config].perTensor \in BOOLEAN
         /\ config \in Nat
<1>1. Configs \in Seq([perTensor : BOOLEAN, fsync : BOOLEAN]) /\ Configs # << >>
  BY OffloadAssumption
<1>2. Len(Configs) \in Nat /\ Len(Configs) # 0
  BY <1>1, EmptySeq
<1>3. config \in 1..Len(Configs)
  BY DEF Types
<1>4. Configs[config] \in [perTensor : BOOLEAN, fsync : BOOLEAN]
  <2> DEFINE S == [perTensor : BOOLEAN, fsync : BOOLEAN]
  <2>1. Configs \in Seq(S)
    BY <1>1
  <2>. HIDE DEF S
  <2>2. Configs[config] \in S
    BY <1>3, <2>1, ElementOfSeq
  <2>. QED BY <2>2 DEF S
<1>. QED BY <1>2, <1>3, <1>4

\* Calls tile the payload: each ends where the next one starts, the last at the end.
LEMMA CallsTile ==
  ASSUME Types, call \in 1..Calls
  PROVE  /\ CallStart \in Nat /\ CallLength \in Nat /\ Calls \in Nat \ {0}
         /\ call < Calls => /\ Configs[config].perTensor
                            /\ CallStart + CallLength = Offsets(arm)[call + 1]
         /\ call = Calls => CallStart + CallLength = Total(arm)
<1>1. arm \in Arms
  BY DEF Types
<1>2. NTensors \in Nat \ {0} /\ Total(arm) \in Nat
  BY <1>1, TensorsOf, LaidTypes
<1>3. CASE Configs[config].perTensor
  <2>1. Calls = NTensors /\ CallStart = Offsets(arm)[call] /\ CallLength = Sizes[arm][call]
    BY <1>3 DEF Calls, CallStart, CallLength
  <2>2. call \in 1..NTensors
    BY <2>1
  <2>3. Offsets(arm)[call] \in Nat /\ Sizes[arm][call] \in Nat
        /\ Offsets(arm)[call + 1] = Offsets(arm)[call] + Sizes[arm][call]
    BY <1>1, <2>2, LaidTypes, OffsetsLaid
  <2>. QED BY <1>2, <1>3, <2>1, <2>2, <2>3 DEF Total
<1>4. CASE ~Configs[config].perTensor
  <2>1. Calls = 1 /\ CallStart = 0 /\ CallLength = Total(arm)
    BY <1>4 DEF Calls, CallStart, CallLength
  <2>. QED BY <1>2, <2>1
<1>. QED BY <1>3, <1>4
LEMMA InitIInv == Init => IInv
<1> SUFFICES ASSUME Init PROVE IInv
  OBVIOUS
<1>1. Types
  <2>1. Len(Configs) \in Nat /\ Len(Configs) # 0
    BY OffloadAssumption, EmptySeq
  <2>. QED BY <2>1 DEF Init, Types, Arms
<1>2. PlacedInv /\ FileInv /\ AckInv
  BY DEF Init, PlacedInv, FileInv, AckInv, Gone
<1>3. RowsInv
  <2>1. Recorded = 0 /\ rows = << >>
    BY DEF Init, Recorded
  <2>. QED BY <2>1 DEF RowsInv
<1>. QED BY <1>1, <1>2, <1>3 DEF IInv

LEMMA NextIInv == IInv /\ [Next]_vars => IInv'
<1> SUFFICES ASSUME Types, PlacedInv, FileInv, AckInv, RowsInv, [Next]_vars
             PROVE  IInv'
  BY DEF IInv
<1>a. arm \in Arms /\ round \in Nat /\ config \in 1..Len(Configs) /\ DOMAIN staged = Arms
  BY DEF Types
<1>b. "none" \notin Arms
  BY DEF Arms
<1>1. CASE Preallocate
  <2>1. Types' /\ RowsInv'
    BY <1>1 DEF Preallocate, Types, RowsInv, Recorded
  <2>2. PlacedInv' /\ AckInv'
    BY <1>1 DEF Preallocate, PlacedInv, AckInv
  <2>3. FileInv'
    BY <1>1 DEF Preallocate, FileInv
  <2>. QED BY <2>1, <2>2, <2>3 DEF IInv
<1>2. CASE Stage
  <2>1. Types' /\ RowsInv'
    BY <1>2 DEF Stage, Types, RowsInv, Recorded
  <2>2. acked' = "none"
    BY <1>2 DEF Stage, AckInv
  <2>3. PlacedInv'
    <3>1. staged' = [staged EXCEPT ![arm] = Copied]
      BY <1>2 DEF Stage, Copied
    <3>2. staged'[arm] = Payload(arm)
      BY <1>a, <3>1, CopiedIsPayload
    <3>3. /\ arm' = arm /\ config' = config /\ call' = 1 /\ pos' = 0 /\ cached' = cached
      BY <1>2 DEF Stage
    <3>4. NTensors \in Nat \ {0} /\ Total(arm) \in Nat /\ Offsets(arm)[1] = 0
          /\ Sizes[arm][1] \in Nat
      BY <1>a, TensorsOf, LaidTypes, OffsetsLaid
    <3>5. 1 \in 1..Calls' /\ 0 \in 0..CallLength' /\ CallStart' = 0
      BY <3>3, <3>4 DEF Calls, CallLength, CallStart
    <3>. QED BY <3>2, <3>3, <3>5 DEF PlacedInv
  <2>4. FileInv'
    BY <1>2 DEF Stage, FileInv
  <2>5. AckInv'
    BY <2>2 DEF AckInv
  <2>. QED BY <2>1, <2>3, <2>4, <2>5 DEF IInv
<1>3. CASE Pwrite
  <2>0. pc = "write" /\ call \in 1..Calls
    BY <1>3 DEF Pwrite, PlacedInv
  <2>1. PICK k \in 1..(CallLength - pos) :
          /\ cached' = [p \in DOMAIN cached |->
                          IF p \in (CallStart + pos + 1)..(CallStart + pos + k)
                          THEN staged[arm][p] ELSE cached[p]]
          /\ pos' = pos + k
    BY <1>3 DEF Pwrite, Advanced
  <2>2. /\ pc' = pc /\ config' = config /\ arm' = arm /\ round' = round /\ staged' = staged
        /\ call' = call /\ disk' = disk /\ acked' = acked /\ rows' = rows
    BY <1>3 DEF Pwrite
  <2>3. /\ CallStart' = CallStart /\ CallLength' = CallLength /\ Calls' = Calls
    BY <2>2 DEF CallStart, CallLength, Calls
  <2>4. CallStart \in Nat /\ CallLength \in Nat /\ pos \in 0..CallLength
    BY <2>0, CallsTile DEF PlacedInv
  <2>5. DOMAIN cached = 1..Total(arm) /\ Total(arm) \in Nat
    <3>1. Total(arm) \in Nat
      BY <1>a, LaidTypes
    <3>. QED BY <2>0, <3>1 DEF FileInv
  <2>6. Types' /\ RowsInv'
    BY <2>2 DEF Types, RowsInv, Recorded
  <2>7. PlacedInv'
    <3>1. pos' \in 0..CallLength
      BY <2>1, <2>4
    <3>2. ASSUME NEW p \in 1..Total(arm), p <= CallStart + pos'
          PROVE  cached'[p] = Payload(arm)[p]
      <4>1. cached'[p] = IF p \in (CallStart + pos + 1)..(CallStart + pos + k)
                         THEN staged[arm][p] ELSE cached[p]
        BY <2>1, <2>5
      <4>2. p \notin (CallStart + pos + 1)..(CallStart + pos + k) => p <= CallStart + pos
        BY <2>1, <2>4, <3>2
      <4>. QED BY <2>0, <4>1, <4>2 DEF PlacedInv
    <3>. QED BY <2>0, <2>2, <2>3, <3>1, <3>2 DEF PlacedInv
  <2>8. FileInv'
    <3>1. cached' = [p \in 1..Total(arm) |-> cached'[p]]
      BY <2>1, <2>5
    <3>. QED BY <2>0, <2>2, <3>1 DEF FileInv
  <2>9. AckInv'
    BY <2>0, <2>2 DEF AckInv
  <2>. QED BY <2>6, <2>7, <2>8, <2>9 DEF IInv
<1>4. CASE NextCall
  <2>0. pc = "write" /\ call \in 1..Calls /\ pos = CallLength
    BY <1>4 DEF NextCall, PlacedInv, CallPlaced
  <2>1. /\ config' = config /\ arm' = arm /\ round' = round /\ staged' = staged
        /\ cached' = cached /\ disk' = disk /\ acked' = acked /\ rows' = rows
        /\ call' = call + 1 /\ pos' = 0
        /\ pc' = IF call < Calls THEN "write"
                 ELSE IF Configs[config].fsync THEN "fsync" ELSE "close"
    BY <1>4 DEF NextCall
  <2>2. /\ CallStart \in Nat /\ CallLength \in Nat /\ Calls \in Nat \ {0}
        /\ call < Calls => /\ Configs[config].perTensor
                           /\ CallStart + CallLength = Offsets(arm)[call + 1]
        /\ call = Calls => CallStart + CallLength = Total(arm)
    BY <2>0, CallsTile
  <2>3. Total(arm) \in Nat
    BY <1>a, LaidTypes
  <2>4. acked = "none"
    BY <2>0 DEF AckInv
  <2>5. Types' /\ AckInv'
    BY <2>1, <2>4 DEF Types, AckInv
  <2>6. RowsInv'
    BY <2>0, <2>1 DEF RowsInv, Recorded
  <2>7. CASE call < Calls
    <3>1. pc' = "write" /\ Calls' = Calls /\ CallStart' = CallStart + CallLength
      BY <2>1, <2>2, <2>7 DEF Calls, CallStart
    <3>2. call + 1 \in 1..Calls
      BY <2>0, <2>2, <2>7
    <3>3. Calls = NTensors /\ CallLength' = Sizes[arm][call + 1]
      BY <2>1, <2>2, <2>7 DEF Calls, CallLength
    <3>4. CallLength' \in Nat
      BY <1>a, <3>2, <3>3, LaidTypes
    <3>5. 0 \in 0..CallLength' /\ CallStart' + 0 = CallStart + pos
      BY <2>0, <2>2, <3>1, <3>4
    <3>6. PlacedInv'
      <4>1. \A p \in 1..Total(arm) : p <= CallStart' + 0 => cached[p] = Payload(arm)[p]
        BY <2>0, <3>5 DEF PlacedInv
      <4>2. staged[arm] = Payload(arm)
        BY <2>0 DEF PlacedInv
      <4>. QED BY <2>1, <3>1, <3>2, <3>5, <4>1, <4>2 DEF PlacedInv
    <3>7. FileInv'
      BY <2>0, <2>1, <3>1 DEF FileInv
    <3>. QED BY <2>5, <2>6, <3>6, <3>7 DEF IInv
  <2>8. CASE ~(call < Calls)
    <3>1. call = Calls /\ pc' \in {"fsync", "close"}
      BY <2>0, <2>1, <2>2, <2>8
    <3>2. CallStart + pos = Total(arm)
      BY <2>0, <2>2, <3>1
    <3>3. \A p \in 1..Total(arm) : cached[p] = Payload(arm)[p]
      <4>1. \A p \in 1..Total(arm) : p <= CallStart + pos
        BY <2>3, <3>2
      <4>. QED BY <2>0, <4>1 DEF PlacedInv
    <3>4. cached = Payload(arm)
      <4>1. cached = [p \in 1..Total(arm) |-> cached[p]]
        BY <2>0 DEF FileInv
      <4>2. Payload(arm) = [p \in 1..Total(arm) |-> Payload(arm)[p]]
        <5>1. Payload(arm) \in Seq(PageSet) /\ Len(Payload(arm)) = Total(arm)
          BY <1>a, PayloadLaid
        <5>. QED BY <5>1
      <4>. QED BY Zenon, <3>3, <4>1, <4>2
    <3>5. FileInv'
      <4>1. pc' = "close" => ~Configs[config].fsync
        BY <2>1, <2>8
      <4>. QED BY <2>1, <3>1, <3>4, <4>1 DEF FileInv
    <3>6. PlacedInv'
      BY <3>1 DEF PlacedInv
    <3>. QED BY <2>5, <2>6, <3>5, <3>6 DEF IInv
  <2>. QED BY <2>7, <2>8
<1>5. CASE Fsync
  <2>1. Types' /\ RowsInv' /\ PlacedInv'
    BY <1>5 DEF Fsync, Types, RowsInv, Recorded, PlacedInv
  <2>2. FileInv'
    BY <1>5 DEF Fsync, Synced, FileInv
  <2>3. AckInv'
    BY <1>5 DEF Fsync, AckInv
  <2>. QED BY <2>1, <2>2, <2>3 DEF IInv
<1>6. CASE Close
  <2>1. Types' /\ RowsInv' /\ PlacedInv'
    BY <1>6 DEF Close, Types, RowsInv, Recorded, PlacedInv
  <2>2. FileInv'
    BY <1>6 DEF Close, FileInv
  <2>3. AckInv'
    BY <1>6 DEF Close, AckInv, FileInv
  <2>. QED BY <2>1, <2>2, <2>3 DEF IInv
<1>7. CASE Verify
  <2>1. Types' /\ RowsInv' /\ PlacedInv'
    BY <1>7 DEF Verify, Types, RowsInv, Recorded, PlacedInv
  <2>2. FileInv'
    BY <1>7 DEF Verify, FileInv
  <2>3. AckInv'
    BY <1>7 DEF Verify, AckInv
  <2>. QED BY <2>1, <2>2, <2>3 DEF IInv
<1>8. CASE NextRound
  <2>1. Types' /\ RowsInv' /\ PlacedInv'
    BY <1>8 DEF NextRound, Types, RowsInv, Recorded, PlacedInv
  <2>2. FileInv'
    BY <1>8 DEF NextRound, FileInv
  <2>3. AckInv'
    BY <1>8 DEF NextRound, AckInv
  <2>. QED BY <2>1, <2>2, <2>3 DEF IInv
<1>9. CASE NextArm
  <2>1. /\ pc = "returned" /\ rows' = Append(rows, [config |-> config, arm |-> arm])
        /\ cached' = Gone /\ acked' = "none" /\ round' = 0 /\ staged' = staged
        /\ pc' \in {"preallocate", "done"}
    BY <1>9 DEF NextArm, Unlinked
  <2>2. Types'
    <3>1. config' \in 1..Len(Configs)
      BY <1>a, <1>9, ConfigTypes DEF NextArm
    <3>2. arm' \in Arms
      BY <1>9 DEF NextArm, Arms
    <3>. QED BY <1>a, <2>1, <3>1, <3>2 DEF Types
  <2>3. PlacedInv' /\ FileInv' /\ AckInv'
    BY <2>1 DEF PlacedInv, FileInv, AckInv
  <2>4. RowsInv'
    <3>1. Recorded \in Nat /\ Recorded' = Recorded + 1
      <4>1. Len(Configs) \in Nat /\ config \in 1..Len(Configs) /\ arm \in {"raw", "compressed"}
        BY <1>a, ConfigTypes DEF Arms
      <4>2. CASE arm = "raw"
        <5>1. arm' = "compressed" /\ config' = config /\ pc' = "preallocate" /\ pc = "returned"
          BY <1>9, <4>2 DEF NextArm
        <5>. QED BY <4>1, <4>2, <5>1 DEF Recorded
      <4>3. CASE arm = "compressed"
        <5>1. arm' = "raw" /\ pc = "returned"
          BY <1>9, <4>3 DEF NextArm
        <5>2. CASE config < Len(Configs)
          <6>1. config' = config + 1 /\ pc' = "preallocate"
            BY <1>9, <4>3, <5>2 DEF NextArm
          <6>. QED BY <4>1, <4>3, <5>1, <6>1 DEF Recorded
        <5>3. CASE ~(config < Len(Configs))
          <6>1. config = Len(Configs) /\ pc' = "done"
            BY <1>9, <4>1, <4>3, <5>3 DEF NextArm
          <6>. QED BY <4>1, <4>3, <5>1, <6>1 DEF Recorded
        <5>. QED BY <5>2, <5>3
      <4>. QED BY <4>1, <4>2, <4>3
    <3>2. Row(Recorded + 1) = [config |-> config, arm |-> arm]
      <4>1. Len(Configs) \in Nat /\ config \in 1..Len(Configs) /\ arm \in {"raw", "compressed"}
        BY <1>a, ConfigTypes DEF Arms
      <4>2. CASE arm = "raw"
        <5>1. Recorded + 1 = 2 * config - 1
          BY <2>1, <4>1, <4>2 DEF Recorded
        <5>2. (2 * config - 1 + 1) \div 2 = config /\ (2 * config - 1) % 2 = 1
          BY <4>1
        <5>. QED BY <4>2, <5>1, <5>2 DEF Row
      <4>3. CASE arm = "compressed"
        <5>1. Recorded + 1 = 2 * config
          BY <2>1, <4>1, <4>3 DEF Recorded
        <5>2. (2 * config + 1) \div 2 = config /\ (2 * config) % 2 = 0
          BY <4>1
        <5>. QED BY <4>3, <5>1, <5>2 DEF Row
      <4>. QED BY <4>1, <4>2, <4>3
    <3> DEFINE n == Recorded
    <3>3. rows = [r \in 1..n |-> Row(r)] /\ n \in Nat
      BY <3>1 DEF RowsInv
    <3>4. Append(rows, Row(n + 1)) = [r \in 1..(n + 1) |-> Row(r)]
      <4>. HIDE DEF n
      <4>1. rows \in Seq({Row(r) : r \in Nat}) /\ Len(rows) = n
        BY <3>3
      <4>. QED BY <3>3, <4>1
    <3>5. rows' = [r \in 1..(n + 1) |-> Row(r)]
      BY <2>1, <3>2, <3>4
    <3>. QED BY <3>1, <3>5 DEF RowsInv
  <2>. QED BY <2>2, <2>3, <2>4 DEF IInv
<1>10. CASE WriteBack
  <2>1. Types' /\ RowsInv' /\ PlacedInv'
    BY <1>10 DEF WriteBack, Types, RowsInv, Recorded, PlacedInv, CallStart, CallLength, Calls
  <2>2. disk # cached /\ pc # "stopped" /\ cached' = cached /\ acked' = acked /\ arm' = arm
        /\ config' = config /\ pc' = pc
    BY <1>10 DEF WriteBack, Running
  <2>3. FileInv'
    BY <2>2 DEF FileInv
  <2>4. AckInv'
    BY <2>2 DEF AckInv
  <2>. QED BY <2>1, <2>3, <2>4 DEF IInv
<1>11. CASE CallFails
  <2>1. pc \in {"stage", "write", "fsync"} /\ pc' = "raised"
        /\ UNCHANGED <<config, arm, round, staged, call, pos, cached, disk, acked, rows>>
    BY <1>11 DEF CallFails
  <2>2. Types' /\ RowsInv'
    BY <2>1 DEF Types, RowsInv, Recorded
  <2>3. PlacedInv' /\ FileInv'
    BY <2>1 DEF PlacedInv, FileInv
  <2>4. AckInv'
    BY <2>1 DEF AckInv
  <2>. QED BY <2>2, <2>3, <2>4 DEF IInv
<1>12. CASE Stops
  <2>1. pc # "done" /\ pc # "stopped" /\ pc' = "stopped" /\ cached' = disk
        /\ UNCHANGED <<config, arm, round, staged, call, pos, disk, acked, rows>>
    BY <1>12 DEF Stops, Running
  <2>2. Types' /\ RowsInv'
    BY <2>1 DEF Types, RowsInv, Recorded
  <2>3. PlacedInv' /\ FileInv'
    BY <2>1 DEF PlacedInv, FileInv
  <2>4. AckInv'
    BY <2>1 DEF AckInv
  <2>. QED BY <2>2, <2>3, <2>4 DEF IInv
<1>13. CASE UNCHANGED vars
  <2>1. Types' /\ RowsInv' /\ FileInv' /\ AckInv'
    BY <1>13 DEF vars, Types, RowsInv, Recorded, FileInv, AckInv
  <2>2. PlacedInv'
    BY <1>13 DEF vars, PlacedInv, CallStart, CallLength, Calls
  <2>. QED BY <2>1, <2>2 DEF IInv
<1>. QED BY <1>1, <1>2, <1>3, <1>4, <1>5, <1>6, <1>7, <1>8, <1>9, <1>10, <1>11, <1>12, <1>13
         DEF Next, Program, Ended

-----------------------------------------------------------------------------

\* fsync_offload's "fsync-acknowledged offload write": behind an fsync, a payload
\* whose offload has returned is on the disk until the file is opened again,
\* however the calls were split and whenever the filesystem or the machine stopped.
THEOREM AcknowledgedIsOnDisk == Spec => []AckedIsDurable
<1>1. IInv => AckedIsDurable
  BY DEF IInv, AckInv, AckedIsDurable
<1>. QED BY <1>1, InitIInv, NextIInv, PTL DEF Spec

\* write_all and the offsets: every pass, timed or not, returns over the whole
\* payload in its place, for every cache and every split of the calls.
THEOREM PassesLeaveNoHole == Spec => []ReturnedIsWhole
<1>1. IInv => ReturnedIsWhole
  BY DEF IInv, FileInv, ReturnedIsWhole
<1>. QED BY <1>1, InitIInv, NextIInv, PTL DEF Spec

\* main's loops: at the end each configuration has its raw and its compressed row,
\* in order, and the file is gone, for every list of configurations.
THEOREM EveryRowIsThere == Spec => []TableIsComplete
<1>1. ASSUME IInv PROVE TableIsComplete
  <2>1. SUFFICES ASSUME pc = "done" PROVE /\ Len(rows) = 2 * Len(Configs) /\ cached = Gone
                                          /\ \A r \in DOMAIN rows : rows[r] = Row(r)
    BY DEF TableIsComplete, Row
  <2>2. cached = Gone
    BY <1>1, <2>1 DEF IInv, FileInv
  <2>3. rows = [r \in 1..(2 * Len(Configs)) |-> Row(r)]
    BY <1>1, <2>1 DEF IInv, RowsInv, Recorded
  <2>4. Len(Configs) \in Nat
    BY OffloadAssumption
  <2>5. 2 * Len(Configs) \in Nat
    BY <2>4
  <2>. QED BY <2>2, <2>3, <2>5
<1>. QED BY <1>1, InitIInv, NextIInv, PTL DEF Spec
=============================================================================
