---------------------------- MODULE LayoutProofs -----------------------------
(***************************************************************************)
(* How things are laid out, whatever they are: sequences one behind the    *)
(* other at their running offsets (staging buffers, files, the codec's     *)
(* payload), and codes of 4, 6 or 8 bits in bytes.  For every sequence of  *)
(* codes the kernels and packing.py write the same bytes, unpacking undoes *)
(* packing, and a packed buffer may be cut at group boundaries whenever a  *)
(* group's codes fill whole bytes.                                         *)
(***************************************************************************)
EXTENDS Packing, SequencesExt, SequenceTheorems, FiniteSetTheorems, WellFoundedInduction, TLAPS

-----------------------------------------------------------------------------
(* Least numbers and recursive functions.                                   *)

LEMMA LeastNumber ==
  ASSUME NEW S, S \subseteq Nat, S # {}
  PROVE  \E m \in S : \A k \in S : m <= k
<1>1. IsWellFoundedOn(OpToRel(<, Nat), Nat)
  BY NatLessThanWellFounded
<1>2. PICK m \in S : ~(\E y \in S : <<y, m>> \in OpToRel(<, Nat))
  BY <1>1, WFMin
<1>3. \A y \in S : <<y, m>> \notin OpToRel(<, Nat)
  BY <1>2
<1>4. \A y \in S : ~(y < m)
  BY <1>3 DEF OpToRel
<1>. QED BY <1>4

\* Induction up to n, over the set of numbers for which something holds.
LEMMA UpTo ==
  ASSUME NEW n \in Nat, NEW Good, n >= 1 => 1 \in Good,
         \A k \in 2..n : k - 1 \in Good => k \in Good
  PROVE  \A k \in 1..n : k \in Good
<1> DEFINE Bad == {k \in 1..n : k \notin Good}
<1> SUFFICES ASSUME Bad # {} PROVE FALSE
  OBVIOUS
<1>1. Bad \subseteq Nat
  OBVIOUS
<1>2. PICK m \in Bad : \A k \in Bad : m <= k
  <2>. HIDE DEF Bad
  <2>. QED BY <1>1, LeastNumber
<1>3. m \in 2..n
  BY <1>2
<1>4. m - 1 \notin Bad
  <2>1. m \in Int /\ ~(m <= m - 1)
    BY <1>3
  <2>. HIDE DEF Bad
  <2>. QED BY <1>2, <2>1
<1>. QED BY <1>2, <1>3, <1>4

\* Running sums of a sequence exist.
LEMMA SumsExist ==
  ASSUME NEW n \in Nat, NEW s \in [1..n -> Nat]
  PROVE  \A k \in 1..(n + 1) : \E g \in [1..k -> Nat] :
           g = [t \in 1..k |-> IF t = 1 THEN 0 ELSE g[t - 1] + s[t - 1]]
<1> DEFINE Has(k) == \E g \in [1..k -> Nat] :
                       g = [t \in 1..k |-> IF t = 1 THEN 0 ELSE g[t - 1] + s[t - 1]]
           Good == {k \in 1..(n + 1) : Has(k)}
<1>1. Has(1)
  <2> DEFINE g == [t \in 1..1 |-> 0]
  <2>1. g \in [1..1 -> Nat]
    OBVIOUS
  <2>2. g = [t \in 1..1 |-> IF t = 1 THEN 0 ELSE g[t - 1] + s[t - 1]]
    OBVIOUS
  <2>. QED BY <2>1, <2>2
<1>2. ASSUME NEW m \in 2..(n + 1), Has(m - 1)
      PROVE  Has(m)
  <2>1. PICK g \in [1..(m - 1) -> Nat] :
          g = [t \in 1..(m - 1) |-> IF t = 1 THEN 0 ELSE g[t - 1] + s[t - 1]]
    BY <1>2
  <2> DEFINE h == [t \in 1..m |-> IF t = m THEN g[m - 1] + s[m - 1] ELSE g[t]]
  <2>2. h \in [1..m -> Nat]
    OBVIOUS
  <2>3. \A t \in 1..m : h[t] = IF t = 1 THEN 0 ELSE h[t - 1] + s[t - 1]
    <3> TAKE t \in 1..m
    <3>1. CASE t = m
      BY <3>1
    <3>2. CASE t # m
      <4>1. t \in 1..(m - 1)
        BY <3>2
      <4>2. g[t] = IF t = 1 THEN 0 ELSE g[t - 1] + s[t - 1]
        BY <2>1, <4>1
      <4>. QED BY <3>2, <4>1, <4>2
    <3>. QED BY <3>1, <3>2
  <2>4. h = [t \in 1..m |-> IF t = 1 THEN 0 ELSE h[t - 1] + s[t - 1]]
    BY <2>2, <2>3
  <2>. QED BY <2>2, <2>4
<1>3. \A k \in 1..(n + 1) : k \in Good
  <2>1. 1 \in Good /\ \A k \in 2..(n + 1) : k - 1 \in Good => k \in Good
    <3>. HIDE DEF Has
    <3>. QED BY <1>1, <1>2
  <2>2. n + 1 \in Nat
    OBVIOUS
  <2>. HIDE DEF Good
  <2>. QED BY <2>1, <2>2, UpTo
<1>. QED BY <1>3

\* So do running concatenations.
LEMMA ConcatsExist ==
  ASSUME NEW n \in Nat, NEW s
  PROVE  \A k \in 1..n : \E g :
           g = [t \in 1..k |-> IF t = 1 THEN s[t] ELSE g[t - 1] \o s[t]]
<1> DEFINE Has(k) == \E g : g = [t \in 1..k |-> IF t = 1 THEN s[t] ELSE g[t - 1] \o s[t]]
           Good == {k \in 1..n : Has(k)}
<1>1. Has(1)
  <2> DEFINE g == [t \in 1..1 |-> s[t]]
  <2>1. g = [t \in 1..1 |-> IF t = 1 THEN s[t] ELSE g[t - 1] \o s[t]]
    OBVIOUS
  <2>. QED BY <2>1
<1>2. ASSUME NEW m \in 2..n, Has(m - 1)
      PROVE  Has(m)
  <2>1. PICK g : g = [t \in 1..(m - 1) |-> IF t = 1 THEN s[t] ELSE g[t - 1] \o s[t]]
    BY <1>2
  <2> DEFINE h == [t \in 1..m |-> IF t = m THEN g[m - 1] \o s[m] ELSE g[t]]
  <2>3. \A t \in 1..m : h[t] = IF t = 1 THEN s[t] ELSE h[t - 1] \o s[t]
    <3> TAKE t \in 1..m
    <3>1. CASE t = m
      <4>1. m - 1 \in 1..m /\ m \in 1..m /\ m - 1 # m /\ m # 1
        OBVIOUS
      <4>2. h[m - 1] = g[m - 1]
        BY <4>1
      <4>3. h[m] = g[m - 1] \o s[m]
        BY <4>1
      <4>. QED BY <3>1, <4>1, <4>2, <4>3
    <3>2. CASE t # m
      <4>1. t \in 1..(m - 1)
        BY <3>2
      <4>2. g[t] = IF t = 1 THEN s[t] ELSE g[t - 1] \o s[t]
        BY <2>1, <4>1
      <4>. QED BY <3>2, <4>1, <4>2
    <3>. QED BY <3>1, <3>2
  <2>4. h = [t \in 1..m |-> IF t = 1 THEN s[t] ELSE h[t - 1] \o s[t]]
    BY <2>3
  <2>. QED BY <2>4
<1>3. \A k \in 1..n : k \in Good
  <2>1. /\ n >= 1 => 1 \in Good
        /\ \A k \in 2..n : k - 1 \in Good => k \in Good
    <3>. HIDE DEF Has
    <3>. QED BY <1>1, <1>2
  <2>. HIDE DEF Good
  <2>. QED BY <2>1, UpTo
<1>. QED BY <1>3

-----------------------------------------------------------------------------
(* Running sums and concatenations, whatever is summed.                     *)

LEMMA SumsGrow ==
  ASSUME NEW n \in Nat, NEW z \in [1..n -> Nat], NEW o \in [1..(n + 1) -> Nat],
         \A i \in 1..n : o[i + 1] = o[i] + z[i]
  PROVE  \A t \in 1..n : \A u \in 1..(n + 1) : t < u => o[t] + z[t] <= o[u]
<1> TAKE t \in 1..n
<1> DEFINE Good == {u \in 1..(n + 1) : t < u => o[t] + z[t] <= o[u]}
<1>1. 1 \in Good
  OBVIOUS
<1>2. ASSUME NEW u \in 2..(n + 1), u - 1 \in Good
      PROVE  u \in Good
  <2>1. u - 1 \in 1..n /\ (u - 1) + 1 = u
    OBVIOUS
  <2>2. o[u] = o[u - 1] + z[u - 1]
    BY <2>1
  <2>3. o[u - 1] \in Nat /\ o[u] \in Nat /\ o[t] \in Nat /\ z[u - 1] \in Nat /\ z[t] \in Nat
    <3>1. u - 1 \in 1..n /\ u - 1 \in 1..(n + 1) /\ u \in 1..(n + 1) /\ t \in 1..(n + 1)
      BY <2>1
    <3>. HIDE DEF Good
    <3>. QED BY <3>1
  <2>4. CASE t < u - 1
    <3>1. o[t] + z[t] <= o[u - 1]
      BY <1>2, <2>4
    <3>2. o[t] + z[t] <= o[u]
      <4>1. \A a, b, c \in Nat : a <= b /\ c >= 0 => a <= b + c
        OBVIOUS
      <4>2. o[t] + z[t] \in Nat /\ z[u - 1] >= 0
        BY <2>3
      <4>. QED BY Zenon, <2>2, <2>3, <3>1, <4>1, <4>2
    <3>. QED BY <2>1, <3>2
  <2>5. CASE t = u - 1
    BY <2>2, <2>3, <2>5
  <2>6. CASE u - 1 < t
    BY <2>1, <2>6
  <2>. QED BY <2>1, <2>4, <2>5, <2>6
<1>3. \A u \in 1..(n + 1) : u \in Good
  <2>1. n + 1 \in Nat
    OBVIOUS
  <2>. HIDE DEF Good
  <2>. QED BY <1>1, <1>2, <2>1, UpTo
<1>. QED BY <1>3

\* Every position below a sum lies in one of the summands before it.
LEMMA SumsCover ==
  ASSUME NEW n \in Nat, NEW z \in [1..n -> Nat], NEW o \in [1..(n + 1) -> Nat], o[1] = 0,
         \A i \in 1..n : o[i + 1] = o[i] + z[i],
         NEW m \in 1..(n + 1), NEW p \in 1..o[m]
  PROVE  \E t \in 1..n : t < m /\ \E k \in 1..z[t] : p = o[t] + k
<1> DEFINE Reaching == {u \in 1..(n + 1) : p <= o[u]}
<1>1. m \in Reaching /\ Reaching \subseteq Nat
  OBVIOUS
<1>2. PICK l \in Reaching : \A k \in Reaching : l <= k
  <2>. HIDE DEF Reaching
  <2>. QED BY <1>1, LeastNumber
<1>3. l \in 2..(n + 1) /\ l <= m
  BY <1>1, <1>2
<1>4. l - 1 \notin Reaching
  <2>1. l \in Int /\ ~(l <= l - 1)
    BY <1>3
  <2>. HIDE DEF Reaching
  <2>. QED BY <1>2, <2>1
<1> DEFINE t == l - 1
<1>5. t \in 1..n /\ t + 1 = l /\ t < m
  BY <1>3
<1>6. o[l] = o[t] + z[t] /\ o[t] \in Nat /\ z[t] \in Nat
  BY <1>5
<1>7. ~(p <= o[t]) /\ p <= o[l]
  BY <1>2, <1>3, <1>4
<1>8. p - o[t] \in 1..z[t] /\ p = o[t] + (p - o[t])
  <2>1. \A q, a, b, c \in Int :
          c = a + b /\ ~(q <= a) /\ q <= c => (q - a \in 1..b /\ q = a + (q - a))
    OBVIOUS
  <2>2. p \in Int /\ o[t] \in Int /\ z[t] \in Int /\ o[l] \in Int
    BY <1>6
  <2>. HIDE DEF t
  <2>. QED BY Zenon, <1>6, <1>7, <2>1, <2>2
<1>. QED BY <1>5, <1>8

\* FlattenSeq puts the i-th sequence behind the lengths of those before it.
Laid(S, n, s, o) ==
  /\ FlattenSeq(s) \in Seq(S)
  /\ Len(FlattenSeq(s)) = o[n + 1]
  /\ \A i \in 1..n : \A k \in 1..Len(s[i]) : FlattenSeq(s)[o[i] + k] = s[i][k]

LEMMA FlattenLaid ==
  ASSUME NEW S, NEW n \in Nat, NEW s \in [1..n -> Seq(S)],
         NEW o \in [1..(n + 1) -> Nat], o[1] = 0,
         \A i \in 1..n : o[i + 1] = o[i] + Len(s[i])
  PROVE  Laid(S, n, s, o)
<1> USE DEF Laid
<1> DEFINE f == CHOOSE g : g = [i \in 1..n |-> IF i = 1 THEN s[i] ELSE g[i - 1] \o s[i]]
           z == [i \in 1..n |-> Len(s[i])]
<1>1. Len(s) = n
  OBVIOUS
<1>2. \A i \in 1..n : s[i] \in Seq(S) /\ Len(s[i]) \in Nat /\ o[i] \in Nat /\ o[i + 1] \in Nat
  <2> TAKE i \in 1..n
  <2>1. s[i] \in Seq(S)
    OBVIOUS
  <2>2. i \in 1..(n + 1) /\ i + 1 \in 1..(n + 1)
    OBVIOUS
  <2>. QED BY <2>1, <2>2, LenProperties
<1>3. CASE n = 0
  <2>1. FlattenSeq(s) = s
    BY <1>1, <1>3 DEF FlattenSeq
  <2>2. s = << >>
    BY <1>3
  <2>. QED BY <1>3, <2>1, <2>2, EmptySeq
<1>4. CASE n # 0
  <2>1. FlattenSeq(s) = f[n]
    BY <1>1, <1>4 DEF FlattenSeq
  <2>2. f = [i \in 1..n |-> IF i = 1 THEN s[i] ELSE f[i - 1] \o s[i]]
    <3>1. n \in 1..n
      BY <1>4
    <3>2. PICK g : g = [i \in 1..n |-> IF i = 1 THEN s[i] ELSE g[i - 1] \o s[i]]
      BY <3>1, ConcatsExist
    <3>. QED BY <3>2
  <2>3. \A t, u \in 1..n : t < u => o[t] + Len(s[t]) <= o[u]
    <3>1. z \in [1..n -> Nat] /\ \A i \in 1..n : o[i + 1] = o[i] + z[i]
      BY <1>2
    <3>. HIDE DEF z
    <3>2. \A t \in 1..n : \A u \in 1..(n + 1) : t < u => o[t] + z[t] <= o[u]
      BY <3>1, SumsGrow
    <3>. QED BY <3>2 DEF z
  <2> HIDE DEF f, z
  <2> DEFINE Placed(i) == \A t \in 1..i : \A k \in 1..Len(s[t]) : f[i][o[t] + k] = s[t][k]
             Good == {i \in 1..n : f[i] \in Seq(S) /\ Len(f[i]) = o[i + 1] /\ Placed(i)}
  <2>4. 1 \in Good
    <3>1. f[1] = s[1] /\ 1 \in 1..n
      BY <1>4, <2>2
    <3>2. s[1] \in Seq(S) /\ Len(s[1]) \in Nat
      BY <1>2, <3>1
    <3>3. o[1 + 1] = o[1] + Len(s[1])
      BY <3>1
    <3>4. Len(f[1]) = o[1 + 1]
      BY <3>1, <3>2, <3>3
    <3>5. Placed(1)
      <4>1. \A t \in 1..1 : t = 1
        OBVIOUS
      <4>2. \A k \in 1..Len(s[1]) : o[1] + k = k
        BY <3>2
      <4>. QED BY <3>1, <4>1, <4>2
    <3>. QED BY <3>1, <3>2, <3>4, <3>5
  <2>5. ASSUME NEW i \in 2..n, i - 1 \in Good
        PROVE  i \in Good
    <3>1. i \in 1..n /\ i # 1 /\ i - 1 \in 1..n /\ (i - 1) + 1 = i
      OBVIOUS
    <3>2. f[i] = f[i - 1] \o s[i]
      BY <2>2, <3>1
    <3>3. f[i - 1] \in Seq(S) /\ Len(f[i - 1]) = o[i] /\ Placed(i - 1)
      BY <2>5, <3>1
    <3>4. s[i] \in Seq(S) /\ Len(s[i]) \in Nat /\ o[i] \in Nat /\ o[i + 1] = o[i] + Len(s[i])
      BY <1>2, <3>1
    <3>5. /\ f[i - 1] \o s[i] \in Seq(S) /\ Len(f[i - 1] \o s[i]) = Len(f[i - 1]) + Len(s[i])
          /\ \A p \in 1..(Len(f[i - 1]) + Len(s[i])) :
               (f[i - 1] \o s[i])[p] = IF p <= Len(f[i - 1]) THEN f[i - 1][p]
                                       ELSE s[i][p - Len(f[i - 1])]
      <4>1. \A u, v \in Seq(S) :
              /\ u \o v \in Seq(S) /\ Len(u \o v) = Len(u) + Len(v)
              /\ \A p \in 1..(Len(u) + Len(v)) :
                   (u \o v)[p] = IF p <= Len(u) THEN u[p] ELSE v[p - Len(u)]
        BY ConcatProperties
      <4>. QED BY Zenon, <3>3, <3>4, <4>1
    <3>6. \A p \in 1..(o[i] + Len(s[i])) :
            f[i][p] = IF p <= o[i] THEN f[i - 1][p] ELSE s[i][p - o[i]]
      BY Zenon, <3>2, <3>3, <3>5
    <3>7. f[i] \in Seq(S) /\ Len(f[i]) = o[i + 1]
      <4>1. Len(f[i - 1]) + Len(s[i]) = o[i + 1]
        BY <3>3, <3>4
      <4>. QED BY Zenon, <3>2, <3>5, <4>1
    <3>8. ASSUME NEW t \in 1..i, NEW k \in 1..Len(s[t])
          PROVE  f[i][o[t] + k] = s[t][k]
      <4>1. t \in 1..n /\ o[t] \in Nat /\ Len(s[t]) \in Nat
        BY <1>2, <3>1
      <4>2. CASE t = i
        <5>1. o[i] + k \in 1..(o[i] + Len(s[i])) /\ ~(o[i] + k <= o[i]) /\ (o[i] + k) - o[i] = k
          <6>1. \A a, b \in Nat : \A j \in 1..b :
                  a + j \in 1..(a + b) /\ ~(a + j <= a) /\ (a + j) - a = j
            OBVIOUS
          <6>2. k \in 1..Len(s[i])
            BY <4>2
          <6>. QED BY Zenon, <3>4, <6>1, <6>2
        <5>. QED BY <3>6, <4>2, <5>1
      <4>3. CASE t # i
        <5>1. t \in 1..(i - 1) /\ t < i
          BY <4>3
        <5>2. o[t] + Len(s[t]) <= o[i]
          BY <2>3, <3>1, <4>1, <5>1
        <5>3. o[t] + k \in 1..(o[i] + Len(s[i])) /\ o[t] + k <= o[i]
          <6>1. \A a, b, c, d \in Nat : \A j \in 1..b :
                  a + b <= c => a + j \in 1..(c + d) /\ a + j <= c
            OBVIOUS
          <6>. QED BY Zenon, <3>4, <4>1, <5>2, <6>1
        <5>4. f[i][o[t] + k] = f[i - 1][o[t] + k]
          BY <3>6, <5>3
        <5>5. f[i - 1][o[t] + k] = s[t][k]
          BY <3>3, <3>8, <5>1
        <5>. QED BY <5>4, <5>5
      <4>. QED BY <4>2, <4>3
    <3>9. Placed(i)
      BY <3>8
    <3>. HIDE DEF Placed
    <3>. QED BY <3>1, <3>7, <3>9
  <2>6. \A i \in 1..n : i \in Good
    <3>. HIDE DEF Good
    <3>. QED BY <2>4, <2>5, UpTo
  <2>7. n \in 1..n
    BY <1>4
  <2>8. f[n] \in Seq(S) /\ Len(f[n]) = o[n + 1] /\ Placed(n)
    BY <2>6, <2>7
  <2>. QED BY <2>1, <2>8
<1>. QED BY <1>3, <1>4

-----------------------------------------------------------------------------
(* The extremes of finite sets of numbers.                                  *)

LEMMA FiniteMax ==
  ASSUME NEW S, S \subseteq Int, IsFiniteSet(S), S # {}
  PROVE  Max(S) \in S /\ \A y \in S : y <= Max(S)
<1>1. PICK n \in Nat : ExistsSurjection(1..n, S)
  BY FS_NatSurjection
<1>2. PICK f \in Surjection(1..n, S) : TRUE
  BY <1>1 DEF ExistsSurjection
<1>3. f \in [1..n -> S] /\ \A y \in S : \E j \in 1..n : f[j] = y
  BY <1>2 DEF Surjection
<1> DEFINE Good == {j \in 1..n : \E m \in 1..n : \A i \in 1..j : f[i] <= f[m]}
<1>4. n >= 1
  <2>1. PICK y \in S : TRUE
    OBVIOUS
  <2>2. PICK j \in 1..n : f[j] = y
    BY <1>3, <2>1
  <2>. QED BY <2>2
<1>5. \A j \in 1..n : f[j] \in Int
  BY <1>3
<1>6. 1 \in Good
  <2>1. 1 \in 1..n /\ f[1] <= f[1]
    BY <1>4, <1>5
  <2>2. \A i \in 1..1 : i = 1
    OBVIOUS
  <2>. QED BY <2>1, <2>2
<1>7. ASSUME NEW j \in 2..n, j - 1 \in Good
      PROVE  j \in Good
  <2>1. PICK m \in 1..n : \A i \in 1..(j - 1) : f[i] <= f[m]
    BY <1>7
  <2>2. j \in 1..n /\ \A i \in 1..j : i = j \/ i \in 1..(j - 1)
    OBVIOUS
  <2>3. f[j] \in Int /\ f[m] \in Int /\ \A i \in 1..(j - 1) : f[i] \in Int
    BY <1>5, <2>2
  <2>4. CASE f[j] <= f[m]
    BY <2>1, <2>2, <2>4
  <2>5. CASE ~(f[j] <= f[m])
    <3>1. \A i \in 1..j : f[i] <= f[j]
      <4>1. \A a, b, c \in Int : a <= b /\ ~(c <= b) => a <= c
        OBVIOUS
      <4>2. f[j] <= f[j]
        BY <2>3
      <4>. QED BY Zenon, <2>1, <2>2, <2>3, <2>5, <4>1, <4>2
    <3>. QED BY <2>2, <3>1
  <2>. QED BY <2>4, <2>5
<1>8. \A j \in 1..n : j \in Good
  <2>. HIDE DEF Good
  <2>. QED BY <1>6, <1>7, UpTo
<1>9. PICK m \in 1..n : \A i \in 1..n : f[i] <= f[m]
  <2>1. n \in 1..n
    BY <1>4
  <2>2. n \in Good
    BY <1>8, <2>1
  <2>. QED BY <2>2
<1>10. f[m] \in S /\ \A y \in S : f[m] >= y
  BY <1>3, <1>5, <1>9
<1>11. Max(S) \in S /\ \A y \in S : Max(S) >= y
  BY Zenon, <1>10 DEF Max
<1>. QED BY <1>11

LEMMA FiniteMin ==
  ASSUME NEW S, S \subseteq Int, IsFiniteSet(S), S # {}
  PROVE  Min(S) \in S /\ \A y \in S : Min(S) <= y
<1> DEFINE Neg == {-y : y \in S}
           f == [y \in S |-> -y]
<1>1. Neg \subseteq Int /\ Neg # {}
  <2>1. Neg \subseteq Int
    <3>1. \A y \in S : -y \in Int
      OBVIOUS
    <3>. QED BY Zenon, <3>1
  <2>2. PICK y \in S : TRUE
    OBVIOUS
  <2>3. -y \in Neg
    BY Zenon, <2>2
  <2>. QED BY <2>1, <2>3
<1>2. IsFiniteSet(Neg)
  <2>1. f \in Surjection(S, Neg)
    BY DEF Surjection
  <2>. HIDE DEF f, Neg
  <2>. QED BY <2>1, FS_Surjection
<1>3. Max(Neg) \in Neg /\ \A z \in Neg : z <= Max(Neg)
  <2>. HIDE DEF Neg
  <2>. QED BY <1>1, <1>2, FiniteMax
<1>4. PICK x \in S : Max(Neg) = -x
  BY <1>3
<1>5. \A y \in S : x <= y
  <2>. SUFFICES ASSUME NEW y \in S PROVE x <= y
    OBVIOUS
  <2>1. -y \in Neg
    OBVIOUS
  <2>2. -y <= -x
    BY Zenon, <1>3, <1>4, <2>1
  <2>3. x \in Int /\ y \in Int
    OBVIOUS
  <2>4. \A a, b \in Int : -b <= -a => a <= b
    OBVIOUS
  <2>. QED BY Zenon, <2>2, <2>3, <2>4
<1>6. Min(S) \in S /\ \A y \in S : Min(S) =< y
  BY Zenon, <1>5 DEF Min
<1>. QED BY <1>6

\* The values of a finite sequence.
LEMMA ValuesFinite ==
  ASSUME NEW n \in Nat, NEW f, DOMAIN f = 1..n
  PROVE  IsFiniteSet({f[j] : j \in 1..n})
<1> DEFINE S == {f[j] : j \in 1..n}
           g == [j \in 1..n |-> f[j]]
<1>1. g \in Surjection(1..n, S)
  BY DEF Surjection
<1>2. IsFiniteSet(1..n)
  BY FS_Interval
<1>. HIDE DEF g, S
<1>3. IsFiniteSet(S)
  BY <1>1, <1>2, FS_Surjection
<1>. QED BY <1>3 DEF S

\* The larger and the smaller of two numbers.
LEMMA PairExtremes ==
  ASSUME NEW a \in Int, NEW b \in Int
  PROVE  /\ Max({a, b}) \in {a, b} /\ a <= Max({a, b}) /\ b <= Max({a, b})
         /\ Min({a, b}) \in {a, b} /\ Min({a, b}) <= a /\ Min({a, b}) <= b
<1>1. IsFiniteSet({a, b})
  <2>1. IsFiniteSet({a})
    BY FS_Singleton
  <2>2. IsFiniteSet({a} \cup {b})
    BY <2>1, FS_AddElement
  <2>3. {a} \cup {b} = {a, b}
    OBVIOUS
  <2>. QED BY <2>2, <2>3
<1>2. {a, b} \subseteq Int /\ {a, b} # {} /\ a \in {a, b} /\ b \in {a, b}
  OBVIOUS
<1>. QED BY Zenon, <1>1, <1>2, FiniteMax, FiniteMin

-----------------------------------------------------------------------------
(* Bits in bytes.                                                           *)

\* The table of powers of two, as natural numbers.
LEMMA Powers ==
  /\ Power(0) = 1 /\ Power(1) = 2 /\ Power(2) = 4 /\ Power(3) = 8 /\ Power(4) = 16
  /\ Power(5) = 32 /\ Power(6) = 64 /\ Power(7) = 128 /\ Power(8) = 256
BY DEF Power

\* A bit of a code is 0 or 1.
LEMMA BitIsBinary ==
  ASSUME NEW c \in Int, NEW w \in {4, 6, 8}, NEW b \in 0..(w - 1)
  PROVE  BitOf(c, w, b) \in {0, 1}
<1>0. w - 1 - b \in 0..7
  OBVIOUS
<1>1. Power(w - 1 - b) \in {1, 2, 4, 8, 16, 32, 64, 128}
  BY <1>0, Powers, SMT
<1>2. c \div Power(w - 1 - b) \in Int
  BY <1>1, SMT
<1> QED BY <1>2, SMT DEF BitOf

\* The first w bits of a number give the number back: the weights of packing.py:43 and 58.
LEMMA BitsMakeCode ==
  ASSUME NEW w \in {4, 6, 8}, NEW c \in Codes(w)
  PROVE  FromBits([b \in 0..(w - 1) |-> BitOf(c, w, b)], w) = c
<1>1. CASE w = 4
  <2> DEFINE f == [b \in 0..(w - 1) |-> BitOf(c, w, b)]
  <2>1. /\ f[0] = (c \div 8) % 2
        /\ f[1] = (c \div 4) % 2
        /\ f[2] = (c \div 2) % 2
        /\ f[3] = (c \div 1) % 2
    BY <1>1, Powers DEF BitOf
  <2>2. c \in 0..15
    BY <1>1, Powers DEF Codes
  <2>3. FromBits(f, w) = f[0] * 8 + f[1] * 4 + f[2] * 2 + f[3] * 1
    BY <1>1, <2>1, <2>2, Powers, SMT DEF FromBits
  <2>4. ((c \div 8) % 2) * 8 + ((c \div 4) % 2) * 4 + ((c \div 2) % 2) * 2 + ((c \div 1) % 2) * 1 = c
    BY <2>2, SMT
  <2> QED BY <2>1, <2>3, <2>4
<1>2. CASE w = 6
  <2> DEFINE f == [b \in 0..(w - 1) |-> BitOf(c, w, b)]
  <2>1. /\ f[0] = (c \div 32) % 2
        /\ f[1] = (c \div 16) % 2
        /\ f[2] = (c \div 8) % 2
        /\ f[3] = (c \div 4) % 2
        /\ f[4] = (c \div 2) % 2
        /\ f[5] = (c \div 1) % 2
    BY <1>2, Powers DEF BitOf
  <2>2. c \in 0..63
    BY <1>2, Powers DEF Codes
  <2>3. FromBits(f, w) = f[0] * 32 + f[1] * 16 + f[2] * 8 + f[3] * 4 + f[4] * 2 + f[5] * 1
    BY <1>2, <2>1, <2>2, Powers, SMT DEF FromBits
  <2>4. ((c \div 32) % 2) * 32 + ((c \div 16) % 2) * 16 + ((c \div 8) % 2) * 8 + ((c \div 4) % 2) * 4 + ((c \div 2) % 2) * 2 + ((c \div 1) % 2) * 1 = c
    BY <2>2, SMT
  <2> QED BY <2>1, <2>3, <2>4
<1>3. CASE w = 8
  <2> DEFINE f == [b \in 0..(w - 1) |-> BitOf(c, w, b)]
  <2>1. /\ f[0] = (c \div 128) % 2
        /\ f[1] = (c \div 64) % 2
        /\ f[2] = (c \div 32) % 2
        /\ f[3] = (c \div 16) % 2
        /\ f[4] = (c \div 8) % 2
        /\ f[5] = (c \div 4) % 2
        /\ f[6] = (c \div 2) % 2
        /\ f[7] = (c \div 1) % 2
    BY <1>3, Powers DEF BitOf
  <2>2. c \in 0..255
    BY <1>3, Powers DEF Codes
  <2>3. FromBits(f, w) = f[0] * 128 + f[1] * 64 + f[2] * 32 + f[3] * 16 + f[4] * 8 + f[5] * 4 + f[6] * 2 + f[7] * 1
    BY <1>3, <2>1, <2>2, Powers, SMT DEF FromBits
  <2>4. ((c \div 128) % 2) * 128 + ((c \div 64) % 2) * 64 + ((c \div 32) % 2) * 32 + ((c \div 16) % 2) * 16 + ((c \div 8) % 2) * 8 + ((c \div 4) % 2) * 4 + ((c \div 2) % 2) * 2 + ((c \div 1) % 2) * 1 = c
    BY <2>2, SMT
  <2> QED BY <2>1, <2>3, <2>4
<1> QED BY <1>1, <1>2, <1>3

\* A number put together from w bits is a w-bit code whose bits are those.
LEMMA CodeHasBits ==
  ASSUME NEW bits \in [0..7 -> {0, 1}], NEW b \in 0..7
  PROVE  /\ FromBits(bits, 8) \in Bytes8
         /\ BitOf(FromBits(bits, 8), 8, b) = bits[b]
<1>1. /\ bits[0] \in {0, 1} /\ bits[1] \in {0, 1} /\ bits[2] \in {0, 1} /\ bits[3] \in {0, 1}
      /\ bits[4] \in {0, 1} /\ bits[5] \in {0, 1} /\ bits[6] \in {0, 1} /\ bits[7] \in {0, 1}
  OBVIOUS
<1> QED BY <1>1, Powers, SMTT(60) DEF FromBits, BitOf, Bytes8

-----------------------------------------------------------------------------
(* Where a bit of the stream of codes comes from. *)

\* Bit g of the codes' stream, zero past its end, as both packers see it.
StreamBit(codes, w, g) ==
  IF g \div w < Len(codes) THEN BitOf(codes[g \div w + 1], w, g % w) ELSE 0

\* What the provers need of \div and % to address a bit by byte or by code.
LEMMA Division ==
  ASSUME NEW w \in {4, 6, 8}, NEW n \in Nat, NEW g \in Nat
  PROVE  /\ g \div w \in Nat /\ g % w \in 0..(w - 1)
         /\ g = w * (g \div w) + (g % w)
         /\ g < n * w <=> g \div w < n
         /\ n * w \in Nat
<1>1. CASE w = 4 BY <1>1, SMT
<1>2. CASE w = 6 BY <1>2, SMT
<1>3. CASE w = 8 BY <1>3, SMT
<1> QED BY <1>1, <1>2, <1>3

\* The padded stream is exactly as long as the packed bytes.
LEMMA PaddedLength ==
  ASSUME NEW w \in {4, 6, 8}, NEW n \in Nat
  PROVE  /\ n * w \in Nat /\ Padding(n * w) \in 0..7
         /\ PackedBytes(n, w) \in Nat
         /\ n * w + Padding(n * w) = 8 * PackedBytes(n, w)
         /\ (n * w + Padding(n * w)) \div 8 = PackedBytes(n, w)
<1>1. CASE w = 4 BY <1>1, SMT DEF Padding, PackedBytes
<1>2. CASE w = 6 BY <1>2, SMT DEF Padding, PackedBytes
<1>3. CASE w = 8 BY <1>3, SMT DEF Padding, PackedBytes
<1> QED BY <1>1, <1>2, <1>3

\* packed_bytes is what pack returns.
LEMMA PackedLength ==
  ASSUME NEW w \in {4, 6, 8}, NEW codes \in Seq(Codes(w))
  PROVE  /\ Len(codes) \in Nat /\ Len(codes) * w \in Nat
         /\ PackedBytes(Len(codes), w) \in Nat
         /\ Padding(Len(codes) * w) \in 0..7
         /\ Len(codes) * w + Padding(Len(codes) * w) = 8 * PackedBytes(Len(codes), w)
         /\ (Len(codes) * w + Padding(Len(codes) * w)) \div 8 = PackedBytes(Len(codes), w)
<1>1. Len(codes) \in Nat
  OBVIOUS
<1> QED BY <1>1, PaddedLength

\* Bit b of byte j is one of the 8p bits of p bytes.
LEMMA BitInByte ==
  ASSUME NEW p \in Nat, NEW j \in 1..p, NEW b \in 0..7
  PROVE  /\ 8 * (j - 1) + b \in Nat
         /\ 8 * (j - 1) + b < 8 * p
         /\ 8 * (j - 1) + b \in 0..(8 * p - 1)
OBVIOUS

\* Bit b of code i is one of the n * w bits of n codes.
LEMMA BitInCode ==
  ASSUME NEW w \in {4, 6, 8}, NEW n \in Nat, NEW i \in 1..n, NEW b \in 0..(w - 1)
  PROVE  LET k == (i - 1) * w + b
         IN  /\ k \in Nat /\ k \div w = i - 1 /\ k % w = b
             /\ k \div 8 \in Nat /\ k % 8 \in 0..7 /\ k = 8 * (k \div 8) + (k % 8)
             /\ k \div 8 + 1 \in 1..PackedBytes(n, w)
<1>1. CASE w = 4 BY <1>1, SMT DEF PackedBytes
<1>2. CASE w = 6 BY <1>2, SMT DEF PackedBytes
<1>3. CASE w = 8 BY <1>3, SMT DEF PackedBytes
<1> QED BY <1>1, <1>2, <1>3

\* Functions over equal intervals are over the same domain.
LEMMA SameRange ==
  ASSUME NEW p, NEW q, p = q, NEW g \in 0..(q - 1)
  PROVE  g \in 0..(p - 1)
OBVIOUS

\* Every position of the stream holds a bit.
LEMMA StreamBitType ==
  ASSUME NEW w \in {4, 6, 8}, NEW codes \in Seq(Codes(w)), NEW g \in Nat
  PROVE  StreamBit(codes, w, g) \in {0, 1}
<1>1. CASE g \div w < Len(codes)
  <2>1. g \div w + 1 \in 1..Len(codes)
    BY <1>1, Division, SMT
  <2>2. codes[g \div w + 1] \in Int
    <3>1. codes[g \div w + 1] \in Codes(w)
      BY <2>1
    <3>2. Codes(w) \subseteq Int
      BY DEF Codes
    <3>. QED BY <3>1, <3>2
  <2> QED BY <1>1, <2>2, Division, BitIsBinary DEF StreamBit
<1>2. CASE ~(g \div w < Len(codes))
  BY <1>2 DEF StreamBit
<1> QED BY <1>1, <1>2

\* Byte j of packing.py's buffer, spelled with the stream.
LEMMA PackByBits ==
  ASSUME NEW w \in {4, 6, 8}, NEW codes \in Seq(Codes(w))
  PROVE  Pack(codes, w) =
           [j \in 1..PackedBytes(Len(codes), w) |->
              FromBits([b \in 0..7 |-> StreamBit(codes, w, 8 * (j - 1) + b)], 8)]
<1> DEFINE n == Len(codes)
           flat == FlatBits(codes, w)
<1>1. n \in Nat /\ PackedBytes(n, w) \in Nat /\ n * w + Padding(n * w) = 8 * PackedBytes(n, w)
  BY PackedLength
<1>2. (n * w + Padding(n * w)) \div 8 = PackedBytes(n, w)
  BY PackedLength
<1>3. ASSUME NEW j \in 1..PackedBytes(n, w)
      PROVE  [b \in 0..7 |-> flat[8 * (j - 1) + b]]
               = [b \in 0..7 |-> StreamBit(codes, w, 8 * (j - 1) + b)]
  <2>1. ASSUME NEW b \in 0..7
        PROVE  flat[8 * (j - 1) + b] = StreamBit(codes, w, 8 * (j - 1) + b)
    <3> DEFINE g == 8 * (j - 1) + b
    <3>1. g \in Nat /\ g \in 0..(8 * PackedBytes(n, w) - 1)
      BY <1>1, BitInByte
    <3>2. g \in 0..((n * w + Padding(n * w)) - 1)
      BY <3>1, <1>1, SameRange
    <3>3. flat[g] = IF g < n * w THEN BitOf(codes[g \div w + 1], w, g % w) ELSE 0
      BY <3>2 DEF FlatBits
    <3>4. g < n * w <=> g \div w < n
      BY <3>1, <1>1, Division
    <3> QED BY <3>3, <3>4 DEF StreamBit
  <2> QED BY <2>1
<1> QED BY <1>2, <1>3 DEF Pack

\* A packed byte is a byte.
LEMMA PackedByte ==
  ASSUME NEW w \in {4, 6, 8}, NEW codes \in Seq(Codes(w)),
         NEW j \in 1..PackedBytes(Len(codes), w)
  PROVE  Pack(codes, w)[j] = FromBits([b \in 0..7 |-> StreamBit(codes, w, 8 * (j - 1) + b)], 8)
BY PackByBits

\* The bits of the packed bytes are the stream's, and nothing else.
LEMMA PackedBits ==
  ASSUME NEW w \in {4, 6, 8}, NEW codes \in Seq(Codes(w)),
         NEW j \in 1..PackedBytes(Len(codes), w), NEW b \in 0..7
  PROVE  /\ Pack(codes, w)[j] \in Bytes8
         /\ BitOf(Pack(codes, w)[j], 8, b) = StreamBit(codes, w, 8 * (j - 1) + b)
<1> DEFINE bits == [c \in 0..7 |-> StreamBit(codes, w, 8 * (j - 1) + c)]
<1>1. Pack(codes, w)[j] = FromBits(bits, 8)
  BY PackByBits
<1>2. PackedBytes(Len(codes), w) \in Nat
  BY PackedLength
<1>3. \A c \in 0..7 : 8 * (j - 1) + c \in Nat
  BY <1>2, BitInByte
<1>4. bits \in [0..7 -> {0, 1}]
  BY <1>3, StreamBitType
<1> QED BY <1>1, <1>4, CodeHasBits

-----------------------------------------------------------------------------

\* The pack kernel's layout is packing.py's, byte for byte
\* (codec/gpu.py:129-150, checked on samples by tests/test_kernel_bit_layout.py).
THEOREM KernelPacksAlike ==
  ASSUME NEW w \in {4, 6, 8}, NEW codes \in Seq(Codes(w))
  PROVE  KernelPack(codes, w) = Pack(codes, w)
BY PackByBits DEF KernelPack, StreamBit

\* "Inverse of pack. Exact for every width and every numel" (packing.py:46).
THEOREM UnpackUndoesPack ==
  ASSUME NEW w \in {4, 6, 8}, NEW codes \in Seq(Codes(w))
  PROVE  Unpack(Pack(codes, w), w, Len(codes)) = codes
<1> DEFINE n == Len(codes)
           buf == Pack(codes, w)
<1>1. n \in Nat
  OBVIOUS
<1>2. ASSUME NEW i \in 1..n, NEW b \in 0..(w - 1)
      PROVE  LET k == (i - 1) * w + b
             IN  BitOf(buf[k \div 8 + 1], 8, k % 8) = BitOf(codes[i], w, b)
  <2> DEFINE k == (i - 1) * w + b
  <2>1. /\ k \in Nat /\ k \div w = i - 1 /\ k % w = b
        /\ k \div 8 \in Nat /\ k % 8 \in 0..7 /\ k = 8 * (k \div 8) + (k % 8)
        /\ k \div 8 + 1 \in 1..PackedBytes(n, w)
    BY <1>1, BitInCode
  <2>4. BitOf(buf[k \div 8 + 1], 8, k % 8)
          = StreamBit(codes, w, 8 * ((k \div 8 + 1) - 1) + (k % 8))
    BY <2>1, PackedBits
  <2>5. 8 * ((k \div 8 + 1) - 1) + (k % 8) = k
    BY <2>1
  <2>6. StreamBit(codes, w, k) = BitOf(codes[i], w, b)
    BY <2>1, <1>1 DEF StreamBit
  <2> QED BY <2>4, <2>5, <2>6
<1>3. ASSUME NEW i \in 1..n
      PROVE  Unpack(buf, w, n)[i] = codes[i]
  <2>1. [b \in 0..(w - 1) |->
           LET k == (i - 1) * w + b IN BitOf(buf[k \div 8 + 1], 8, k % 8)]
          = [b \in 0..(w - 1) |-> BitOf(codes[i], w, b)]
    BY <1>2
  <2>2. codes[i] \in Codes(w)
    OBVIOUS
  <2> QED BY <2>1, <2>2, BitsMakeCode DEF Unpack
<1> QED BY <1>3, <1>1 DEF Unpack

\* The decode kernel reads every buffer of the right length as packing.py does.
THEOREM KernelUnpacksAlike ==
  ASSUME NEW w \in {4, 6, 8}, NEW n \in Nat, NEW buf \in Seq(Bytes8),
         Len(buf) = PackedBytes(n, w)
  PROVE  KernelUnpack(buf, w, n) = Unpack(buf, w, n)
<1>1. ASSUME NEW i \in 1..n, NEW b \in 0..(w - 1)
      PROVE  ((i - 1) * w + b) \div 8 < Len(buf)
  <2>1. /\ ((i - 1) * w + b) \div 8 \in Nat
        /\ ((i - 1) * w + b) \div 8 + 1 \in 1..PackedBytes(n, w)
    BY BitInCode
  <2>2. PackedBytes(n, w) \in Nat
    BY PaddedLength
  <2> QED BY <2>1, <2>2
<1> QED BY <1>1 DEF KernelUnpack, Unpack

\* _assemble's cut (codec/gpu.py:284-306): from a code that begins a byte, n
\* codes that fill whole bytes or end the stream are the slice of the packed
\* buffer, padding included.  Blocks of 256 codes always qualify.
THEOREM CutIsPack ==
  ASSUME NEW w \in {4, 6, 8}, NEW codes \in Seq(Codes(w)),
         NEW s \in Nat, NEW n \in Nat, s + n <= Len(codes),
         (s * w) % 8 = 0, (n * w) % 8 = 0 \/ s + n = Len(codes)
  PROVE  Slice(Pack(codes, w), s, n, w) = Pack(SubSeq(codes, s + 1, s + n), w)
<1> DEFINE part == SubSeq(codes, s + 1, s + n)
           all == Pack(codes, w)
           lo == PackedBytes(s, w)
<1>1. part \in Seq(Codes(w)) /\ Len(part) = n /\ \A i \in 1..n : part[i] = codes[s + i]
  <2>1. codes \in Seq(Codes(w)) /\ Len(codes) \in Nat /\ s + 1 \in Int /\ s + n \in Int
    OBVIOUS
  <2>2. \A i \in (s + 1)..(s + n) : codes[i] \in Codes(w)
    BY <2>1
  <2>3. part = [i \in 1..((s + n) - (s + 1) + 1) |-> codes[i + (s + 1) - 1]]
    BY <2>1
  <2>4. (s + n) - (s + 1) + 1 = n /\ \A i \in 1..n : i + (s + 1) - 1 = s + i /\ s + i \in (s + 1)..(s + n)
    OBVIOUS
  <2>5. part = [i \in 1..n |-> codes[s + i]]
    BY <2>3, <2>4
  <2> QED BY <2>2, <2>4, <2>5
<1>2. /\ lo \in Nat /\ 8 * lo = s * w /\ PackedBytes(n, w) \in Nat
      /\ lo + PackedBytes(n, w) <= PackedBytes(Len(codes), w)
  <2>1. CASE w = 4 BY <2>1, SMT DEF PackedBytes
  <2>2. CASE w = 6 BY <2>2, SMT DEF PackedBytes
  <2>3. CASE w = 8 BY <2>3, SMT DEF PackedBytes
  <2> QED BY <2>1, <2>2, <2>3
<1>3. Len(all) = PackedBytes(Len(codes), w)
  BY PackByBits, PackedLength
<1>4. Slice(all, s, n, w) = [j \in 1..PackedBytes(n, w) |-> all[lo + j]]
  <2>1. Slice(all, s, n, w) = [j \in 1..((lo + PackedBytes(n, w)) - (lo + 1) + 1) |-> all[j + (lo + 1) - 1]]
    <3>1. all \in Seq(Bytes8)
      <4>1. \A j \in 1..PackedBytes(Len(codes), w) : all[j] \in Bytes8
        <5>1. 0 \in 0..7
          OBVIOUS
        <5>. QED BY <5>1, PackedBits
      <4>2. all = [j \in 1..PackedBytes(Len(codes), w) |-> all[j]] /\ PackedBytes(Len(codes), w) \in Nat
        BY PackByBits, PackedLength
      <4>3. all \in [1..PackedBytes(Len(codes), w) -> Bytes8]
        <5>. HIDE DEF all
        <5>. QED BY <4>1, <4>2
      <4>4. \A S : \A m \in Nat : \A f \in [1..m -> S] : f \in Seq(S)
        OBVIOUS
      <4>. HIDE DEF all
      <4>. QED BY Zenon, <4>2, <4>3, <4>4
    <3>2. lo + 1 \in Int /\ lo + PackedBytes(n, w) \in Int
      <4>. HIDE DEF lo
      <4>. QED BY <1>2
    <3>3. Slice(all, s, n, w) = SubSeq(all, lo + 1, lo + PackedBytes(n, w))
      BY DEF Slice
    <3>. HIDE DEF all, lo
    <3>. QED BY <3>1, <3>2, <3>3
  <2>2. /\ (lo + PackedBytes(n, w)) - (lo + 1) + 1 = PackedBytes(n, w)
        /\ \A j \in 1..PackedBytes(n, w) : j + (lo + 1) - 1 = lo + j
    <3>. HIDE DEF all, lo
    <3>. QED BY <1>2
  <2>. HIDE DEF all, lo
  <2>. QED BY <2>1, <2>2
<1>5. ASSUME NEW j \in 1..PackedBytes(n, w), NEW b \in 0..7
      PROVE  StreamBit(codes, w, 8 * ((lo + j) - 1) + b) = StreamBit(part, w, 8 * (j - 1) + b)
  <2> DEFINE g == 8 * (j - 1) + b
  <2>1. g \in Nat /\ g < 8 * PackedBytes(n, w)
    BY <1>2, BitInByte
  <2>0. 8 * ((lo + j) - 1) + b = s * w + g
    <3>1. 8 * ((lo + j) - 1) + b = 8 * lo + g
      <4>1. lo \in Int /\ j \in Int /\ b \in Int
        BY <1>2
      <4>. HIDE DEF lo, all, part
      <4>. QED BY <4>1
    <3> QED BY <3>1, <1>2
  <2>2. (s * w + g) \div w = s + (g \div w) /\ (s * w + g) % w = g % w
    <3>1. CASE w = 4 BY <3>1, <2>1, SMT
    <3>2. CASE w = 6 BY <3>2, <2>1, SMT
    <3>3. CASE w = 8 BY <3>3, <2>1, SMT
    <3> QED BY <3>1, <3>2, <3>3
  <2>3. g \div w < n <=> s + (g \div w) < Len(codes)
    <3>1. CASE s + n = Len(codes)
      BY <3>1, <2>1, Division, SMT
    <3>2. CASE (n * w) % 8 = 0
      <4>1. g < n * w
        <5>1. Padding(n * w) = 0
          BY <3>2 DEF Padding
        <5>2. n * w \in Nat /\ n * w + Padding(n * w) = 8 * PackedBytes(n, w)
          BY PaddedLength
        <5> QED BY <5>1, <5>2, <2>1
      <4>2. g \div w < n
        BY <4>1, <2>1, Division
      <4> QED BY <4>2, <2>1, Division, SMT
    <3> QED BY <3>1, <3>2
  <2>4. g \div w < n => part[g \div w + 1] = codes[s + (g \div w) + 1]
    BY <1>1, <2>1, Division, SMT
  <2> QED BY <2>0, <2>1, <2>2, <2>3, <2>4, <1>1 DEF StreamBit
<1>6. ASSUME NEW j \in 1..PackedBytes(n, w)
      PROVE  all[lo + j] = Pack(part, w)[j]
  <2>1. lo + j \in 1..PackedBytes(Len(codes), w)
    <3>1. PackedBytes(Len(codes), w) \in Nat
      BY PackedLength
    <3> QED BY <3>1, <1>2
  <2>2. [b \in 0..7 |-> StreamBit(codes, w, 8 * ((lo + j) - 1) + b)]
          = [b \in 0..7 |-> StreamBit(part, w, 8 * (j - 1) + b)]
    BY <1>5
  <2>3. all[lo + j] = FromBits([b \in 0..7 |-> StreamBit(codes, w, 8 * ((lo + j) - 1) + b)], 8)
    BY <2>1, PackedByte
  <2>4. Pack(part, w)[j] = FromBits([b \in 0..7 |-> StreamBit(part, w, 8 * (j - 1) + b)], 8)
    <3>1. j \in 1..PackedBytes(Len(part), w)
      BY <1>1
    <3>. HIDE DEF part
    <3>. QED BY <1>1, <3>1, PackedByte
  <2> QED BY <2>2, <2>3, <2>4
<1>7. Pack(part, w) = [j \in 1..PackedBytes(n, w) |-> Pack(part, w)[j]]
  <2>1. Pack(part, w) = [j \in 1..PackedBytes(Len(part), w) |->
                   FromBits([b \in 0..7 |-> StreamBit(part, w, 8 * (j - 1) + b)], 8)]
    BY <1>1, PackByBits
  <2> QED BY <2>1, <1>1
<1> QED BY <1>4, <1>6, <1>7
=============================================================================
