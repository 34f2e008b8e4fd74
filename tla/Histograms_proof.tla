-------------------------- MODULE Histograms_proof --------------------------
(***************************************************************************)
(* Exponential histograms for all samples, scales, sizes and instances: no  *)
(* observation is lost, none is empty, and min and max are exact.           *)
(***************************************************************************)
EXTENDS Histograms, Lemmas_proof

-----------------------------------------------------------------------------
(* Counts                                                                    *)

(* Counts as written in a template, empty buckets included.                  *)
Counted(b) == IsFiniteSet(DOMAIN b) /\ b \in [DOMAIN b -> Nat]

(* Counts of which none is zero, whatever the indices are.                   *)
Filled(b) == IsFiniteSet(DOMAIN b) /\ b \in [DOMAIN b -> Nat \ {0}]

LEMMA PopulatedFilled ==
    ASSUME NEW b
    PROVE  Populated(b) <=> Filled(b) /\ DOMAIN b \subseteq Int
  BY DEF Populated, Filled

LEMMA FilledCounted ==
    ASSUME NEW b, Filled(b)
    PROVE  Counted(b) /\ SumFunction(b) \in Nat /\ \A i \in DOMAIN b : b[i] >= 1
<1>1. Counted(b) /\ \A i \in DOMAIN b : b[i] \in Nat /\ b[i] >= 1
  BY DEF Filled, Counted
<1> QED
  BY <1>1, SumNat DEF Counted, SumFunction

LEMMA CountedSum ==
    ASSUME NEW b, Counted(b)
    PROVE  SumFunction(b) \in Nat
  BY SumNat DEF Counted, SumFunction

LEMMA EmptyIsEmpty == DOMAIN EmptyBag = {} /\ Filled(EmptyBag) /\ SumFunction(EmptyBag) = 0
<1>1. DOMAIN EmptyBag = {} /\ EmptyBag \in [{} -> Nat \ {0}]
  BY DEF EmptyBag, SetToBag
<1> QED
  BY <1>1, FS_EmptySet, SumEmpty DEF Filled, SumFunction

(* Only the empty bag has no buckets, and only it counts nothing.            *)
LEMMA EmptyCounts ==
    ASSUME NEW b, Filled(b)
    PROVE  /\ b = EmptyBag <=> DOMAIN b = {}
           /\ b = EmptyBag <=> SumFunction(b) = 0
<1>1. b = EmptyBag <=> DOMAIN b = {}
  <2>1. b = [i \in DOMAIN b |-> b[i]]
    BY DEF Filled
  <2>2. EmptyBag = [i \in DOMAIN EmptyBag |-> EmptyBag[i]]
    BY DEF EmptyBag, SetToBag
  <2> QED
    BY <2>1, <2>2, EmptyIsEmpty
<1>2. ASSUME NEW i \in DOMAIN b
      PROVE  SumFunction(b) # 0
  <2>1. b[i] <= SumFunction(b) /\ b[i] >= 1 /\ b[i] \in Nat /\ SumFunction(b) \in Nat
    BY FilledCounted, SumAtLeast DEF Counted, SumFunction
  <2> QED
    BY <2>1
<1> QED
  BY <1>1, <1>2, EmptyIsEmpty

(* The counts of the buckets with indices in T, after they were moved.       *)
Moved(b, f, T) == [j \in Range(f) |-> SumFunctionOnSet(b, {i \in T : f[i] = j})]

(* Moving buckets together loses no count: one more bucket adds its count to *)
(* the one it is moved to.                                                   *)
LEMMA MovedSum ==
    ASSUME NEW b, Counted(b), NEW f, DOMAIN f = DOMAIN b
    PROVE  /\ IsFiniteSet(Range(f))
           /\ SumFunctionOnSet(Moved(b, f, DOMAIN b), Range(f)) = SumFunctionOnSet(b, DOMAIN b)
<1> DEFINE D == DOMAIN b
           R == Range(f)
           M(t) == SumFunctionOnSet(Moved(b, f, t), R)
           B(t) == SumFunctionOnSet(b, t)
           Bad == {t \in SUBSET D : M(t) # B(t)}
<1>1. IsFiniteSet(D) /\ \A i \in D : b[i] \in Nat
  BY DEF Counted
<1>2. \A t \in SUBSET D : IsFiniteSet(t) /\ B(t) \in Nat
  <2> SUFFICES ASSUME NEW t \in SUBSET D
               PROVE  IsFiniteSet(t) /\ B(t) \in Nat
    OBVIOUS
  <2>1. IsFiniteSet(t)
    BY <1>1, FS_Subset
  <2> QED
    BY <1>1, <2>1, SumNat
<1>3. IsFiniteSet(R)
  <2>1. [i \in D |-> f[i]] \in Surjection(D, R)
    BY DEF Surjection, Range
  <2> QED
    BY <1>1, <2>1, FS_Surjection
<1>4. M({}) = 0 /\ B({}) = 0
  <2>1. \A j \in R : {i \in {} : f[i] = j} = {}
    OBVIOUS
  <2>2. \A j \in R : Moved(b, f, {})[j] = 0
    BY <2>1, SumEmpty DEF Moved
  <2> QED
    BY <1>3, <2>2, SumEmpty, SumZero
<1>5. ASSUME NEW t \in SUBSET D, NEW x \in t
      PROVE  M(t) = M(t \ {x}) + b[x] /\ B(t) = B(t \ {x}) + b[x]
  <2> DEFINE new == Moved(b, f, t)
             old == Moved(b, f, t \ {x})
             to(j) == {i \in t : f[i] = j}
             rest(j) == {i \in t \ {x} : f[i] = j}
  <2>1. f[x] \in R
    BY DEF Range
  <2>2. \A j \in R : /\ to(j) \in SUBSET D /\ rest(j) \in SUBSET D
                     /\ j # f[x] => to(j) = rest(j)
    OBVIOUS
  <2>3. to(f[x]) \ {x} = rest(f[x]) /\ x \in to(f[x])
    OBVIOUS
  <2>4. \A j \in R : new[j] = B(to(j)) /\ old[j] = B(rest(j))
    BY DEF Moved
  <2> HIDE DEF to, rest, new, old
  <2>5. \A j \in R : old[j] \in Int /\ new[j] \in Int
    <3> HIDE DEF R, D, B
    <3>1. \A j \in R : B(to(j)) \in Nat /\ B(rest(j)) \in Nat
      BY <1>2, <2>2
    <3> QED
      BY <2>4, <3>1
  <2>6. \A j \in R : j # f[x] => new[j] = old[j]
    BY <2>2, <2>4
  <2>7. SumFunctionOnSet(new, R) = SumFunctionOnSet(old, R) + (new[f[x]] - old[f[x]])
    BY <1>3, <2>1, <2>5, <2>6, SumChange
  <2>8. B(to(f[x])) = b[x] + B(rest(f[x]))
    <3>1. IsFiniteSet(to(f[x])) /\ \A i \in to(f[x]) : b[i] \in Int
      BY <1>1, <1>2, <2>1, <2>2
    <3> QED
      BY <2>3, <3>1, SumRemove
  <2>9. B(t) = b[x] + B(t \ {x})
    <3>1. IsFiniteSet(t) /\ \A i \in t : b[i] \in Int
      BY <1>1, <1>2
    <3> QED
      BY <3>1, SumRemove
  <2>10. B(rest(f[x])) \in Nat /\ b[x] \in Nat /\ B(t \ {x}) \in Nat
    BY <1>1, <1>2, <2>1, <2>2
  <2>11. new[f[x]] - old[f[x]] = b[x]
    BY <2>1, <2>4, <2>8, <2>10
  <2>12. SumFunctionOnSet(new, R) = SumFunctionOnSet(old, R) + b[x]
    BY <2>7, <2>11
  <2> QED
    BY <2>9, <2>10, <2>12 DEF new, old
<1>6. M(D) = B(D)
  <2> HIDE DEF M, B
  <2>1. SUFFICES ASSUME Bad # {} PROVE FALSE
    <3>1. D \in SUBSET D
      OBVIOUS
    <3> QED
      BY <3>1
  <2>2. PICK t \in Bad : \A x \in t : t \ {x} \notin Bad
    BY <1>1, <2>1, SmallestSet
  <2>3. PICK x \in t : TRUE
    BY <1>4, <2>2
  <2>4. M(t \ {x}) = B(t \ {x})
    BY <2>2
  <2> QED
    BY <1>5, <2>2, <2>4
<1> QED
  BY <1>3, <1>6

LEMMA RegroupedFilled ==
    ASSUME NEW b, Filled(b), NEW f, DOMAIN f = DOMAIN b
    PROVE  /\ Filled(Regrouped(b, f))
           /\ DOMAIN Regrouped(b, f) = Range(f)
           /\ \A i \in DOMAIN b : f[i] \in Range(f) /\ Regrouped(b, f)[f[i]] >= b[i]
           /\ SumFunction(Regrouped(b, f)) = SumFunction(b)
           /\ Regrouped(b, f) = EmptyBag <=> b = EmptyBag
<1> DEFINE r == Regrouped(b, f)
           to(j) == {i \in DOMAIN b : f[i] = j}
<1>1. Counted(b) /\ \A i \in DOMAIN b : b[i] >= 1
  BY FilledCounted
<1>2. r = Moved(b, f, DOMAIN b) /\ DOMAIN r = Range(f)
  BY DEF Regrouped, Moved
<1>3. IsFiniteSet(DOMAIN r) /\ SumFunction(r) = SumFunction(b)
  BY <1>1, <1>2, MovedSum DEF SumFunction
<1>4. \A j \in Range(f) : IsFiniteSet(to(j)) /\ \A i \in to(j) : b[i] \in Nat
  <2> SUFFICES ASSUME NEW j \in Range(f)
               PROVE  IsFiniteSet(to(j)) /\ \A i \in to(j) : b[i] \in Nat
    OBVIOUS
  <2> QED
    BY <1>1, FS_Subset DEF Counted
<1>5. ASSUME NEW i \in DOMAIN b
      PROVE  f[i] \in Range(f) /\ r[f[i]] \in Nat /\ r[f[i]] >= b[i]
  <2>1. f[i] \in Range(f) /\ i \in to(f[i])
    BY DEF Range
  <2>2. r[f[i]] = SumFunctionOnSet(b, to(f[i]))
    BY <2>1 DEF Regrouped
  <2> HIDE DEF to
  <2>3. IsFiniteSet(to(f[i])) /\ \A k \in to(f[i]) : b[k] \in Nat
    BY <1>4, <2>1
  <2> HIDE DEF r
  <2>4. r[f[i]] \in Nat
    BY <2>2, <2>3, SumNat
  <2>5. b[i] <= r[f[i]]
    BY <2>1, <2>2, <2>3, SumAtLeast
  <2> QED
    BY <1>1, <2>1, <2>4, <2>5 DEF Counted
<1>6. \A j \in Range(f) : \E i \in DOMAIN b : j = f[i]
  BY DEF Range
<1>7. \A j \in DOMAIN r : r[j] \in Nat \ {0}
  <2> SUFFICES ASSUME NEW j \in DOMAIN r
               PROVE  r[j] \in Nat \ {0}
    OBVIOUS
  <2>1. PICK i \in DOMAIN b : j = f[i]
    BY <1>2, <1>6
  <2>2. r[j] \in Nat /\ r[j] >= b[i] /\ b[i] >= 1 /\ b[i] \in Nat
    BY <1>1, <1>5, <2>1 DEF Counted
  <2> QED
    BY <2>2
<1>8. Filled(r)
  <2>1. r = [j \in Range(f) |-> r[j]]
    BY DEF Regrouped
  <2> HIDE DEF r
  <2> QED
    BY <1>2, <1>3, <1>7, <2>1 DEF Filled
<1>9. r = EmptyBag <=> b = EmptyBag
  <2> HIDE DEF r
  <2> QED
    BY <1>3, <1>8, EmptyCounts
<1> QED
  BY <1>2, <1>3, <1>5, <1>8, <1>9

(* Buckets of two histograms counted together.                               *)
LEMMA UnionFilled ==
    ASSUME NEW a, Filled(a), NEW b, Filled(b)
    PROVE  /\ Filled(a (+) b)
           /\ DOMAIN (a (+) b) = DOMAIN a \cup DOMAIN b
           /\ \A i \in DOMAIN a : (a (+) b)[i] >= a[i]
           /\ SumFunction(a (+) b) = SumFunction(a) + SumFunction(b)
           /\ a (+) b = EmptyBag <=> a = EmptyBag /\ b = EmptyBag
<1> DEFINE S == DOMAIN a \cup DOMAIN b
           wide(c) == [i \in S |-> IF i \in DOMAIN c THEN c[i] ELSE 0]
           u == a (+) b
<1>1. u = [i \in S |-> wide(a)[i] + wide(b)[i]] /\ DOMAIN u = S
  BY DEF (+)
<1> HIDE DEF u
<1>2. IsFiniteSet(S)
  BY FS_Union DEF Filled
<1>3. /\ \A i \in S : wide(a)[i] \in Nat /\ wide(b)[i] \in Nat
      /\ \A i \in DOMAIN a : wide(a)[i] = a[i] /\ a[i] \in Nat \ {0}
      /\ \A i \in DOMAIN b : wide(b)[i] = b[i] /\ b[i] \in Nat \ {0}
      /\ \A i \in S \ DOMAIN a : wide(a)[i] = 0
      /\ \A i \in S \ DOMAIN b : wide(b)[i] = 0
  BY DEF Filled
<1> HIDE DEF wide
<1>4. \A i \in S : u[i] \in Nat \ {0} /\ u[i] = wide(a)[i] + wide(b)[i]
  BY <1>1, <1>3
<1>5. Filled(u)
  BY <1>1, <1>2, <1>4 DEF Filled
<1>6. SumFunctionOnSet(u, S) = SumFunctionOnSet(wide(a), S) + SumFunctionOnSet(wide(b), S)
  BY <1>2, <1>3, <1>4, SumPlus
<1>7. /\ SumFunctionOnSet(wide(a), S) = SumFunctionOnSet(wide(a), DOMAIN a)
      /\ SumFunctionOnSet(wide(b), S) = SumFunctionOnSet(wide(b), DOMAIN b)
  <2>1. DOMAIN a \in SUBSET S /\ DOMAIN b \in SUBSET S
    OBVIOUS
  <2> QED
    BY <1>2, <1>3, <2>1, SumSupport
<1>8. /\ SumFunctionOnSet(wide(a), DOMAIN a) = SumFunctionOnSet(a, DOMAIN a)
      /\ SumFunctionOnSet(wide(b), DOMAIN b) = SumFunctionOnSet(b, DOMAIN b)
  BY <1>3, SumCongruence DEF Filled
<1>9. SumFunction(u) = SumFunction(a) + SumFunction(b)
  BY <1>1, <1>6, <1>7, <1>8 DEF SumFunction
<1>10. \A i \in DOMAIN a : u[i] >= a[i]
  BY <1>3, <1>4
<1>11. u = EmptyBag <=> a = EmptyBag /\ b = EmptyBag
  <2>1. /\ u = EmptyBag <=> DOMAIN u = {}
        /\ a = EmptyBag <=> DOMAIN a = {}
        /\ b = EmptyBag <=> DOMAIN b = {}
    BY <1>5, EmptyCounts
  <2> QED
    BY <1>1, <2>1
<1> QED
  BY <1>1, <1>5, <1>9, <1>10, <1>11 DEF u

-----------------------------------------------------------------------------
(* Powers of two                                                             *)

(* What a function has to satisfy up to n to be the power of two.            *)
DoublesUpTo(g, n) == \A k \in 0 .. n : g[k] = IF k = 0 THEN 1 ELSE 2 * g[k - 1]

LEMMA DoublesAgree ==
    ASSUME NEW m \in Nat, NEW n \in Nat, NEW g, DoublesUpTo(g, m),
           NEW h, DoublesUpTo(h, n), m <= n
    PROVE  g[m] = h[m]
<1> DEFINE Bad == {k \in 0 .. m : g[k] # h[k]}
<1>1. SUFFICES ASSUME Bad # {} PROVE FALSE
  OBVIOUS
<1>2. PICK k \in Bad : \A l \in Bad : k <= l
  <2>1. Bad \in SUBSET Nat
    OBVIOUS
  <2> HIDE DEF Bad
  <2> QED
    BY <1>1, <2>1, LeastNat
<1>3. CASE k = 0
  BY <1>2, <1>3 DEF DoublesUpTo
<1>4. CASE k # 0
  <2>1. k - 1 \in 0 .. m /\ k - 1 \notin Bad /\ k \in 0 .. n
    BY <1>2, <1>4
  <2> QED
    BY <1>2, <1>4, <2>1 DEF DoublesUpTo
<1> QED
  BY <1>3, <1>4

LEMMA DoublesExist ==
    ASSUME NEW n \in Nat
    PROVE  \E g : DoublesUpTo(g, n)
<1> DEFINE Bad == {k \in Nat : ~ \E g : DoublesUpTo(g, k)}
<1>1. SUFFICES ASSUME Bad # {} PROVE FALSE
  OBVIOUS
<1>2. PICK k \in Bad : \A l \in Bad : k <= l
  BY <1>1, LeastNat
<1>3. CASE k = 0
  <2>1. DoublesUpTo([i \in Nat |-> 1], 0)
    BY DEF DoublesUpTo
  <2> QED
    BY <1>2, <1>3, <2>1
<1>4. CASE k # 0
  <2>1. k - 1 \in Nat /\ k - 1 \notin Bad
    BY <1>2, <1>4
  <2>2. PICK g : DoublesUpTo(g, k - 1)
    BY <2>1
  <2> DEFINE h == [i \in Nat |-> IF i = k THEN 2 * g[k - 1] ELSE g[i]]
  <2>3. ASSUME NEW i \in 0 .. k
        PROVE  h[i] = IF i = 0 THEN 1 ELSE 2 * h[i - 1]
    <3>1. CASE i = k
      BY <1>2, <1>4, <3>1
    <3>2. CASE i # k
      <4>1. i \in 0 .. (k - 1) /\ h[i] = g[i] /\ (i # 0 => h[i - 1] = g[i - 1])
        BY <1>2, <3>2
      <4> HIDE DEF h
      <4> QED
        BY <2>2, <4>1 DEF DoublesUpTo
    <3> QED
      BY <3>1, <3>2
  <2>4. DoublesUpTo(h, k)
    <3> HIDE DEF h
    <3> QED
      BY <2>3 DEF DoublesUpTo
  <2> QED
    BY <1>2, <2>4
<1> QED
  BY <1>3, <1>4

LEMMA Pow2Equation == \A n \in Nat : Pow2[n] = IF n = 0 THEN 1 ELSE 2 * Pow2[n - 1]
<1> DEFINE G(n) == CHOOSE g : DoublesUpTo(g, n)
           h == [n \in Nat |-> G(n)[n]]
<1>1. \A n \in Nat : DoublesUpTo(G(n), n)
  BY DoublesExist
<1> HIDE DEF G
<1>2. ASSUME NEW n \in Nat
      PROVE  h[n] = IF n = 0 THEN 1 ELSE 2 * h[n - 1]
  <2>1. CASE n = 0
    BY <1>1, <2>1 DEF DoublesUpTo
  <2>2. CASE n # 0
    <3>1. n - 1 \in Nat /\ n - 1 <= n /\ n \in 0 .. n
      BY <2>2
    <3>2. G(n)[n - 1] = G(n - 1)[n - 1]
      BY <1>1, <3>1, DoublesAgree
    <3>3. G(n)[n] = 2 * G(n)[n - 1]
      BY <1>1, <2>2, <3>1 DEF DoublesUpTo
    <3> QED
      BY <2>2, <3>1, <3>2, <3>3
  <2> QED
    BY <2>1, <2>2
<1>3. h = [n \in Nat |-> IF n = 0 THEN 1 ELSE 2 * h[n - 1]]
  <2>1. h = [n \in Nat |-> h[n]]
    OBVIOUS
  <2> HIDE DEF h
  <2> QED
    BY <1>2, <2>1
<1> HIDE DEF h
<1>4. Pow2 = [n \in Nat |-> IF n = 0 THEN 1 ELSE 2 * Pow2[n - 1]]
  BY <1>3 DEF Pow2
<1> QED
  BY <1>4

LEMMA Pow2Positive == Pow2[0] = 1 /\ \A n \in Nat : Pow2[n] \in Nat \ {0}
<1> DEFINE Bad == {n \in Nat : Pow2[n] \notin Nat \ {0}}
<1>1. Pow2[0] = 1
  BY Pow2Equation
<1>2. ASSUME Bad # {} PROVE FALSE
  <2>1. PICK n \in Bad : \A l \in Bad : n <= l
    BY <1>2, LeastNat
  <2>2. n # 0
    BY <1>1, <2>1
  <2>3. n - 1 \in Nat /\ n - 1 \notin Bad /\ n \in Nat
    BY <2>1, <2>2
  <2> QED
    BY <2>1, <2>2, <2>3, Pow2Equation
<1> QED
  BY <1>1, <1>2

LEMMA Pow2Sum ==
    ASSUME NEW m \in Nat, NEW n \in Nat
    PROVE  Pow2[m + n] = Pow2[m] * Pow2[n]
<1> DEFINE Bad == {k \in Nat : Pow2[m + k] # Pow2[m] * Pow2[k]}
<1>1. SUFFICES ASSUME Bad # {} PROVE FALSE
  OBVIOUS
<1>2. PICK k \in Bad : \A l \in Bad : k <= l
  BY <1>1, LeastNat
<1>3. Pow2[m] \in Nat /\ Pow2[0] = 1
  BY Pow2Positive
<1>4. k # 0
  BY <1>2, <1>3
<1>5. k - 1 \in Nat /\ k - 1 \notin Bad /\ m + k \in Nat /\ m + k # 0
      /\ (m + k) - 1 = m + (k - 1)
  BY <1>2, <1>4
<1>6. /\ Pow2[m + k] = 2 * Pow2[m + (k - 1)]
      /\ Pow2[k] = 2 * Pow2[k - 1]
  BY <1>2, <1>4, <1>5, Pow2Equation
<1>7. Pow2[m + (k - 1)] = Pow2[m] * Pow2[k - 1]
  BY <1>5
<1>8. PICK a \in Nat, b \in Nat : a = Pow2[m] /\ b = Pow2[k - 1]
  BY <1>5, Pow2Positive
<1>9. 2 * (a * b) = a * (2 * b)
  BY <1>8
<1> QED
  BY <1>2, <1>6, <1>7, <1>8, <1>9

-----------------------------------------------------------------------------
(* What is generated                                                         *)

(* Shaking keeps the buckets that keep a count, one index away at most.      *)
LEMMA ShakenFilled ==
    ASSUME NEW b, Populated(b), NEW c \in Shaken(b)
    PROVE  Populated(c) /\ \A j \in DOMAIN c : \E i \in DOMAIN b : j \in i - 1 .. i + 1
<1>1. PICK n \in EachOf([i \in DOMAIN b |-> Adjusted(b[i])]), d \in [DOMAIN b -> -1 .. 1] :
          c = Shifted(n, d)
  BY DEF Shaken
<1> DEFINE kept == {i \in DOMAIN n : n[i] > 0}
           m == Restrict(n, kept)
           f == [i \in kept |-> i + d[i]]
<1>2. c = Regrouped(m, f)
  BY <1>1 DEF Shifted
<1>3. DOMAIN n = DOMAIN b /\ \A i \in DOMAIN b : n[i] \in Int /\ i \in Int /\ d[i] \in Int
  <2>1. DOMAIN n = DOMAIN b /\ \A i \in DOMAIN b : n[i] \in Adjusted(b[i])
    BY DEF EachOf
  <2>2. \A x \in Nat : Adjusted(x) \subseteq Int
    BY DEF Adjusted
  <2> QED
    BY <2>1, <2>2 DEF Populated
<1>4. DOMAIN m = kept /\ DOMAIN f = kept /\ IsFiniteSet(kept)
  BY <1>3, FS_Subset DEF Restrict, Populated
<1>5. \A i \in kept : m[i] \in Nat \ {0}
  BY <1>3 DEF Restrict
<1>6. Filled(m)
  <2>1. m = [i \in kept |-> m[i]]
    BY DEF Restrict
  <2> HIDE DEF m, kept
  <2> QED
    BY <1>4, <1>5, <2>1 DEF Filled
<1>7. Range(f) \subseteq Int /\ \A j \in Range(f) : \E i \in DOMAIN b : j \in i - 1 .. i + 1
  <2>1. \A i \in DOMAIN f : f[i] \in Int /\ i \in DOMAIN b /\ f[i] \in i - 1 .. i + 1
    BY <1>3
  <2> HIDE DEF f
  <2> QED
    BY <2>1 DEF Range
<1> HIDE DEF m, f
<1>8. Filled(c) /\ DOMAIN c = Range(f)
  BY <1>2, <1>4, <1>6, RegroupedFilled
<1> QED
  BY <1>7, <1>8, PopulatedFilled

(* randomizeBuckets (expohistogen.go:238-298) ends with no buckets only if   *)
(* it was given none.                                                        *)
LEMMA RandomizedFilled ==
    ASSUME NEW b, Populated(b), NEW c \in randomizeBuckets(b)
    PROVE  /\ Populated(c) /\ (c = EmptyBag <=> b = EmptyBag)
           /\ \A j \in DOMAIN c : \E i \in DOMAIN b : j \in i - 1 .. i + 1
  BY ShakenFilled, EmptyIsEmpty DEF randomizeBuckets

LEMMA LeastIndex ==
    ASSUME NEW D, IsFiniteSet(D), D # {}, D \subseteq Int
    PROVE  /\ \E i \in D : \A j \in D : i <= j
           /\ \E i \in D : \A j \in D : i >= j
<1> DEFINE Has(s) == /\ \E i \in s : \A j \in s : i <= j
                     /\ \E i \in s : \A j \in s : i >= j
           Bad == {s \in SUBSET D : s # {} /\ ~Has(s)}
<1>1. SUFFICES ASSUME Bad # {} PROVE FALSE
  <2>1. D \in SUBSET D
    OBVIOUS
  <2> QED
    BY <2>1
<1>2. PICK s \in Bad : \A x \in s : s \ {x} \notin Bad
  <2> HIDE DEF Has
  <2> QED
    BY <1>1, SmallestSet
<1>3. PICK x \in s : TRUE
  BY <1>2
<1>4. x \in Int /\ \A j \in s : j \in Int
  BY <1>2, <1>3
<1>5. CASE s \ {x} = {}
  <2>1. \A j \in s : j = x
    BY <1>5
  <2>2. Has(s)
    BY <1>3, <1>4, <2>1
  <2> QED
    BY <1>2, <2>2
<1>6. CASE s \ {x} # {}
  <2>a. Has(s \ {x})
    <3> HIDE DEF Has
    <3> QED
      BY <1>2, <1>6
  <2>1. PICK l \in s \ {x}, h \in s \ {x} : \A j \in s \ {x} : l <= j /\ h >= j
    BY <2>a
  <2>2. \E i \in s : \A j \in s : i <= j
    <3>1. CASE x <= l
      <4>1. \A j \in s : x <= j
        BY <1>4, <2>1, <3>1
      <4> QED
        BY <4>1
    <3>2. CASE ~(x <= l)
      <4>1. \A j \in s : l <= j
        BY <1>4, <2>1, <3>2
      <4> QED
        BY <4>1
    <3> QED
      BY <3>1, <3>2
  <2>3. \E i \in s : \A j \in s : i >= j
    <3>1. CASE x >= h
      <4>1. \A j \in s : x >= j
        BY <1>4, <2>1, <3>1
      <4> QED
        BY <4>1
    <3>2. CASE ~(x >= h)
      <4>1. \A j \in s : h >= j
        BY <1>4, <2>1, <3>2
      <4> QED
        BY <4>1
    <3> QED
      BY <3>1, <3>2
  <2> QED
    BY <1>2, <2>2, <2>3
<1> QED
  BY <1>5, <1>6

LEMMA Bounds ==
    ASSUME NEW b, Populated(b), b # EmptyBag
    PROVE  /\ Lowest(b) \in DOMAIN b /\ \A j \in DOMAIN b : Lowest(b) <= j
           /\ Highest(b) \in DOMAIN b /\ \A j \in DOMAIN b : Highest(b) >= j
           /\ Lowest(b) \in Int /\ Highest(b) \in Int
<1>1. DOMAIN b # {} /\ IsFiniteSet(DOMAIN b) /\ DOMAIN b \subseteq Int
  BY EmptyCounts, PopulatedFilled DEF Filled
<1>2. /\ \E i \in DOMAIN b : \A j \in DOMAIN b : i <= j
      /\ \E i \in DOMAIN b : \A j \in DOMAIN b : i >= j
  BY <1>1, LeastIndex
<1> QED
  BY <1>1, <1>2 DEF Lowest, Highest

(* The least and greatest value, set together or not at all.                 *)
IsRange(e) == e = Unset \/ e \in Int \X Int

LEMMA SummaryRange ==
    ASSUME NEW b, Populated(b), NEW s \in 0 .. MaxScale,
           NEW e \in randomizedBucketSummary(b, s)
    PROVE  IsRange(e) /\ (e = Unset <=> b = EmptyBag)
<1>1. CASE b = EmptyBag
  BY <1>1 DEF randomizedBucketSummary, IsRange
<1>2. CASE b # EmptyBag
  <2> DEFINE l == Lowest(b)
             h == Highest(b)
             w == Pow2[MaxScale - s]
  <2>1. l \in Int /\ h \in Int
    BY <1>2, Bounds
  <2>2. w \in Int
    BY NumbersAssumption, Pow2Positive
  <2> HIDE DEF l, h, w
  <2>3. Base \in Int /\ l * w \in Int /\ (l + 1) * w \in Int /\ h * w \in Int
        /\ (h + 1) * w \in Int
    BY <2>1, <2>2, NumbersAssumption
  <2>4. e \in ((Base + l * w) .. (Base + (l + 1) * w - 1))
              \X ((Base + h * w) .. (Base + (h + 1) * w - 1))
    BY <1>2 DEF randomizedBucketSummary, Magnitudes, l, h, w
  <2>5. e \in Int \X Int
    BY <2>3, <2>4
  <2>6. e # Unset
    <3>1. PICK x \in Int, y \in Int : e = <<x, y>>
      BY <2>5
    <3> QED
      BY <3>1 DEF Unset
  <2> QED
    BY <1>2, <2>5, <2>6 DEF IsRange
<1> QED
  BY <1>1, <1>2

LEMMA HullOf ==
    ASSUME NEW e, IsRange(e), NEW f, IsRange(f)
    PROVE  /\ IsRange(Hull(e, f))
           /\ Hull(e, f) = Unset <=> e = Unset /\ f = Unset
           /\ Hull(Unset, f) = f /\ Hull(e, Unset) = e
<1>1. Hull(Unset, f) = f /\ Hull(e, Unset) = e
  BY DEF Hull
<1>2. CASE e = Unset \/ f = Unset
  BY <1>1, <1>2
<1>3. CASE e # Unset /\ f # Unset
  <2>1. PICK a \in Int, b \in Int, c \in Int, d \in Int : e = <<a, b>> /\ f = <<c, d>>
    BY <1>3 DEF IsRange
  <2>2. Hull(e, f) = <<IF a < c THEN a ELSE c, IF b > d THEN b ELSE d>>
    BY <1>3, <2>1 DEF Hull
  <2>3. Hull(e, f) \in Int \X Int
    BY <2>1, <2>2
  <2>4. Hull(e, f) # Unset
    BY <2>2 DEF Unset
  <2> QED
    BY <1>1, <1>3, <2>3, <2>4 DEF IsRange
<1> QED
  BY <1>2, <1>3

(* The order in which ranges are joined does not matter.                     *)
LEMMA HullSwaps ==
    ASSUME NEW e, IsRange(e), NEW f, IsRange(f), NEW g, IsRange(g)
    PROVE  Hull(Hull(e, f), g) = Hull(Hull(e, g), f)
<1>1. CASE e = Unset \/ f = Unset \/ g = Unset
  <2>1. CASE e = Unset
    <3>1. Hull(f, g) = Hull(g, f)
      <4>1. CASE f = Unset \/ g = Unset
        BY <4>1 DEF Hull
      <4>2. CASE f # Unset /\ g # Unset
        <5>1. PICK a \in Int, b \in Int, c \in Int, d \in Int : f = <<a, b>> /\ g = <<c, d>>
          BY <4>2 DEF IsRange
        <5>2. /\ Hull(f, g) = <<IF a < c THEN a ELSE c, IF b > d THEN b ELSE d>>
              /\ Hull(g, f) = <<IF c < a THEN c ELSE a, IF d > b THEN d ELSE b>>
          BY <4>2, <5>1 DEF Hull
        <5>3. /\ (IF a < c THEN a ELSE c) = (IF c < a THEN c ELSE a)
              /\ (IF b > d THEN b ELSE d) = (IF d > b THEN d ELSE b)
          BY <5>1
        <5> QED
          BY <5>2, <5>3
      <4> QED
        BY <4>1, <4>2
    <3> QED
      BY <2>1, <3>1, HullOf
  <2>2. CASE f = Unset
    BY <2>2, HullOf
  <2>3. CASE g = Unset
    BY <2>3, HullOf
  <2> QED
    BY <1>1, <2>1, <2>2, <2>3
<1>2. CASE e # Unset /\ f # Unset /\ g # Unset
  <2>1. PICK a \in Int, b \in Int : e = <<a, b>>
    BY <1>2 DEF IsRange
  <2>2. PICK c \in Int, d \in Int : f = <<c, d>>
    BY <1>2 DEF IsRange
  <2>3. PICK x \in Int, y \in Int : g = <<x, y>>
    BY <1>2 DEF IsRange
  <2> DEFINE least(p, q) == IF p < q THEN p ELSE q
             greatest(p, q) == IF p > q THEN p ELSE q
  <2>4. /\ Hull(e, f) = <<least(a, c), greatest(b, d)>>
        /\ Hull(e, g) = <<least(a, x), greatest(b, y)>>
    BY <1>2, <2>1, <2>2, <2>3 DEF Hull
  <2>5. Hull(e, f) # Unset /\ Hull(e, g) # Unset
    BY <1>2, HullOf
  <2>6. /\ Hull(Hull(e, f), g) = <<least(least(a, c), x), greatest(greatest(b, d), y)>>
        /\ Hull(Hull(e, g), f) = <<least(least(a, x), c), greatest(greatest(b, y), d)>>
    BY <1>2, <2>2, <2>3, <2>4, <2>5 DEF Hull
  <2>7. /\ least(least(a, c), x) = least(least(a, x), c)
        /\ greatest(greatest(b, d), y) = greatest(greatest(b, y), d)
    BY <2>1, <2>2, <2>3
  <2> QED
    BY <2>6, <2>7
<1> QED
  BY <1>1, <1>2

(* A data point of an exponential histogram.                                 *)
IsExponential(h) ==
    /\ h = [scale |-> h.scale, zero |-> h.zero, pos |-> h.pos, neg |-> h.neg,
            count |-> h.count, range |-> h.range]
    /\ h.zero \in Nat /\ Filled(h.pos) /\ Filled(h.neg)

NoBuckets(h) == h.pos = EmptyBag /\ h.neg = EmptyBag

LEMMA BucketTotals ==
    ASSUME NEW h, IsExponential(h)
    PROVE  /\ InBuckets(h) \in Nat /\ Total(h) \in Nat
           /\ NoBuckets(h) <=> InBuckets(h) = 0
<1>1. SumFunction(h.pos) \in Nat /\ SumFunction(h.neg) \in Nat
  BY FilledCounted DEF IsExponential
<1>2. /\ h.pos = EmptyBag <=> SumFunction(h.pos) = 0
      /\ h.neg = EmptyBag <=> SumFunction(h.neg) = 0
  BY EmptyCounts DEF IsExponential
<1> QED
  BY <1>1, <1>2 DEF IsExponential, InBuckets, Total, NoBuckets

(* GenerateInto (expohistogen.go:45-87).                                     *)
LEMMA GeneratedIs ==
    ASSUME NEW h \in Generated
    PROVE  /\ IsExponential(h)
           /\ h.count = InBuckets(h)
           /\ IsRange(h.range) /\ (h.range = Unset <=> NoBuckets(h))
           /\ \E s \in Samples : /\ h.scale = s.scale /\ h.zero = s.zero
                                 /\ h.pos \in randomizeBuckets(s.pos)
                                 /\ h.neg \in randomizeBuckets(s.neg)
<1>a. PICK s \in Samples :
          \E p \in randomizeBuckets(s.pos), n \in randomizeBuckets(s.neg) :
              \E e \in randomizedBucketSummary(p, s.scale),
                 f \in randomizedBucketSummary(n, s.scale) :
          h = [scale |-> s.scale, zero |-> s.zero, pos |-> p, neg |-> n,
               count |-> SumFunction(p) + SumFunction(n), range |-> RangeOf(e, f)]
  BY DEF Generated
<1>b. PICK p \in randomizeBuckets(s.pos), n \in randomizeBuckets(s.neg) :
          \E e \in randomizedBucketSummary(p, s.scale),
             f \in randomizedBucketSummary(n, s.scale) :
          h = [scale |-> s.scale, zero |-> s.zero, pos |-> p, neg |-> n,
               count |-> SumFunction(p) + SumFunction(n), range |-> RangeOf(e, f)]
  BY <1>a
<1>1. PICK e \in randomizedBucketSummary(p, s.scale),
           f \in randomizedBucketSummary(n, s.scale) :
          h = [scale |-> s.scale, zero |-> s.zero, pos |-> p, neg |-> n,
               count |-> SumFunction(p) + SumFunction(n), range |-> RangeOf(e, f)]
  BY <1>b
<1>2. s.scale \in 0 .. MaxScale /\ s.zero \in Nat /\ Populated(s.pos) /\ Populated(s.neg)
  BY SamplesAssumption
<1>3. Populated(p) /\ Populated(n)
  BY <1>2, RandomizedFilled
<1>4. /\ IsRange(e) /\ (e = Unset <=> p = EmptyBag)
      /\ IsRange(f) /\ (f = Unset <=> n = EmptyBag)
  BY <1>2, <1>3, SummaryRange
<1> DEFINE g == IF f = Unset THEN Unset ELSE <<-f[2], -f[1]>>
<1>5. IsRange(g) /\ (g = Unset <=> f = Unset)
  <2>1. CASE f = Unset
    BY <2>1 DEF IsRange
  <2>2. CASE f # Unset
    <3>1. PICK a \in Int, b \in Int : f = <<a, b>>
      BY <1>4, <2>2 DEF IsRange
    <3>2. g = <<-b, -a>>
      BY <2>2, <3>1
    <3> QED
      BY <2>2, <3>1, <3>2 DEF IsRange, Unset
  <2> QED
    BY <2>1, <2>2
<1>6. h.range = Hull(e, g)
  BY <1>1 DEF RangeOf
<1> HIDE DEF g
<1>7. IsRange(h.range) /\ (h.range = Unset <=> e = Unset /\ g = Unset)
  BY <1>4, <1>5, <1>6, HullOf
<1>8. h.pos = p /\ h.neg = n /\ h.zero = s.zero /\ h.scale = s.scale
      /\ h.count = SumFunction(p) + SumFunction(n)
  BY <1>1
<1>9. IsExponential(h)
  BY <1>1, <1>2, <1>3, PopulatedFilled DEF IsExponential
<1> QED
  BY <1>4, <1>5, <1>7, <1>8, <1>9 DEF NoBuckets, InBuckets

-----------------------------------------------------------------------------
(* Scales                                                                    *)

(* The positions in one bucket of scale s.                                   *)
Width(s) == Pow2[MaxScale - s]

LEMMA Widths ==
    ASSUME NEW s \in 0 .. MaxScale, NEW t \in 0 .. MaxScale, t <= s
    PROVE  /\ Width(s) \in Nat \ {0} /\ Pow2[s - t] \in Nat \ {0}
           /\ Width(t) = Width(s) * Pow2[s - t]
<1>1. MaxScale - s \in Nat /\ s - t \in Nat /\ (MaxScale - s) + (s - t) = MaxScale - t
  BY NumbersAssumption
<1> QED
  BY <1>1, Pow2Sum, Pow2Positive DEF Width

LEMMA MidpointPosition ==
    ASSUME NEW s \in 0 .. MaxScale, NEW i \in Int
    PROVE  bucketMidpoint(i, s) \in Int /\ bucketMidpoint(i, s) \div Width(s) = i
<1>1. CASE s = MaxScale
  <2>1. Width(s) = 1
    BY <1>1, NumbersAssumption, Pow2Positive DEF Width
  <2>2. i = i * 1 + 0 /\ 0 \in 0 .. (1 - 1)
    OBVIOUS
  <2>3. i \div 1 = i
    BY <2>2, QuotientIs
  <2> QED
    BY <1>1, <2>1, <2>3 DEF bucketMidpoint
<1>2. CASE s # MaxScale
  <2>1. MaxScale - s \in Nat \ {0} /\ MaxScale - s - 1 \in Nat
    BY <1>2, NumbersAssumption
  <2>2. PICK h \in Nat \ {0} : h = Pow2[MaxScale - s - 1]
    BY <2>1, Pow2Positive
  <2>3. Width(s) = 2 * h
    BY <2>1, <2>2, Pow2Equation DEF Width
  <2>4. PICK low \in 0 .. 1 : bucketMidpoint(i, s) = (2 * i + 1) * h - low
    BY <1>2, <2>2 DEF bucketMidpoint
  <2>5. (2 * i + 1) * h - low = i * (2 * h) + (h - low)
    BY <2>2
  <2>6. 2 * h \in Nat \ {0} /\ h - low \in 0 .. (2 * h - 1)
    BY <2>2
  <2>7. (i * (2 * h) + (h - low)) \div (2 * h) = i
    BY <2>6, QuotientIs
  <2> QED
    BY <2>2, <2>3, <2>4, <2>5, <2>7
<1> QED
  BY <1>1, <1>2

(* At a coarser scale the midpoint is in the bucket that contains its bucket. *)
LEMMA MidpointCoarser ==
    ASSUME NEW s \in 0 .. MaxScale, NEW t \in 0 .. MaxScale, t <= s, NEW i \in Int
    PROVE  bucketMidpoint(i, s) \div Width(t) = i \div Pow2[s - t]
<1>1. PICK p \in Int : p = bucketMidpoint(i, s)
  BY MidpointPosition
<1>2. (p \div Width(s)) \div Pow2[s - t] = p \div (Width(s) * Pow2[s - t])
  BY Widths, QuotientTwice
<1> QED
  BY <1>1, <1>2, Widths, MidpointPosition

(* Two scales finer the midpoints of two buckets are further apart than they *)
(* are, on whatever sides of the boundaries they fall.                       *)
LEMMA MidpointFiner ==
    ASSUME NEW s \in 0 .. MaxScale, NEW t \in 0 .. MaxScale, s + 1 < t,
           NEW i \in Int, NEW j \in Int, j < i
    PROVE  /\ bucketMidpoint(i, s) \div Width(t) \in Int
           /\ bucketMidpoint(j, s) \div Width(t) \in Int
           /\ bucketMidpoint(i, s) \div Width(t) - bucketMidpoint(j, s) \div Width(t)
                  >= 2 * (i - j)
<1>1. /\ t - s - 1 \in Nat \ {0} /\ t - s - 2 \in Nat
      /\ MaxScale - t \in Nat /\ MaxScale - s - 1 \in Nat
      /\ (t - s - 1) + (MaxScale - t) = MaxScale - s - 1 /\ s # MaxScale
  BY NumbersAssumption
<1>2. PICK k \in Nat, w \in Nat \ {0} : k = Pow2[t - s - 1] /\ w = Width(t) /\ k >= 2
  <2>1. PICK n \in Nat : n = t - s - 2 /\ n + 1 = t - s - 1
    BY <1>1
  <2>2. Pow2[n] \in Nat \ {0} /\ Pow2[n + 1] = 2 * Pow2[n]
    BY Pow2Positive, Pow2Equation
  <2>3. Width(t) \in Nat \ {0}
    BY <1>1, Pow2Positive DEF Width
  <2> QED
    BY <2>1, <2>2, <2>3
<1>3. Pow2[MaxScale - s - 1] = k * w
  BY <1>1, <1>2, Pow2Sum DEF Width
<1>4. ASSUME NEW m \in Int
      PROVE  \E low \in 0 .. 1 : bucketMidpoint(m, s) \div w = (2 * m + 1) * k - low
  <2>1. PICK low \in 0 .. 1 : bucketMidpoint(m, s) = (2 * m + 1) * (k * w) - low
    BY <1>1, <1>3 DEF bucketMidpoint
  <2>2. PICK q \in Int : q = (2 * m + 1) * k
    BY <1>2
  <2>3. (2 * m + 1) * (k * w) = q * w
    BY <1>2, <2>2
  <2>4. CASE low = 0
    <3>1. (q * w + 0) \div w = q
      BY <1>2, <2>2, QuotientIs
    <3>2. bucketMidpoint(m, s) = q * w + 0
      BY <1>2, <2>1, <2>2, <2>3, <2>4
    <3>3. bucketMidpoint(m, s) \div w = (2 * m + 1) * k - 0
      BY <2>2, <3>1, <3>2
    <3> QED
      BY <3>3
  <2>5. CASE low = 1
    <3>1. PICK x \in Int : x = q - 1
      BY <2>2
    <3>2. (x * w + (w - 1)) \div w = x
      <4>1. w \in Nat \ {0} /\ w - 1 \in 0 .. (w - 1)
        BY <1>2
      <4> QED
        BY <3>1, <4>1, QuotientIs
    <3>3. q * w - 1 = x * w + (w - 1)
      BY <1>2, <2>2, <3>1
    <3>4. bucketMidpoint(m, s) \div w = (2 * m + 1) * k - 1
      BY <2>1, <2>2, <2>3, <2>5, <3>1, <3>2, <3>3
    <3> QED
      BY <3>4
  <2> QED
    BY <2>4, <2>5
<1>5. (2 * i + 1) * k - (2 * j + 1) * k >= 2 * (i - j) + 1
  <2>1. PICK d \in Nat : i = j + 1 + d
    OBVIOUS
  <2>2. PICK e \in Nat : k = 2 + e
    BY <1>2
  <2>3. PICK de \in Nat, je \in Int : de = d * e /\ je = j * e
    BY <2>1, <2>2
  <2>4. (2 * i + 1) * k = 4 * j + 4 * d + 6 + 2 * je + 2 * de + 3 * e
    BY <2>1, <2>2, <2>3
  <2>5. (2 * j + 1) * k = 4 * j + 2 + 2 * je + e
    BY <2>2, <2>3
  <2> QED
    BY <2>1, <2>2, <2>3, <2>4, <2>5
<1>6. (2 * i + 1) * k \in Int /\ (2 * j + 1) * k \in Int
  BY <1>2
<1>7. PICK x \in 0 .. 1, y \in 0 .. 1 :
          /\ bucketMidpoint(i, s) \div w = (2 * i + 1) * k - x
          /\ bucketMidpoint(j, s) \div w = (2 * j + 1) * k - y
  BY <1>4
<1> QED
  BY <1>2, <1>5, <1>6, <1>7

-----------------------------------------------------------------------------
(* Merging                                                                   *)

(* Merging conserves the observations of both, whatever scale is chosen.     *)
LEMMA MergedTotals ==
    ASSUME NEW h, IsExponential(h), NEW d, IsExponential(d)
    PROVE  LET m == MergeInto(h, d)
           IN  /\ IsExponential(m)
               /\ Total(m) = Total(h) + Total(d) /\ m.count = Total(m)
               /\ m.zero = h.zero + d.zero /\ m.range = MergedRange(h, d)
               /\ NoBuckets(m) <=> NoBuckets(h) /\ NoBuckets(d)
<1> DEFINE m == MergeInto(h, d)
           pos == Replayed(h.pos, h.scale) (+) Replayed(d.pos, d.scale)
           neg == Replayed(h.neg, h.scale) (+) Replayed(d.neg, d.scale)
           s == FinestScale(pos, neg)
<1>1. ASSUME NEW b, Filled(b), NEW t
      PROVE  /\ Filled(Replayed(b, t)) /\ Filled(AtScale(b, t))
             /\ SumFunction(Replayed(b, t)) = SumFunction(b)
             /\ SumFunction(AtScale(b, t)) = SumFunction(b)
             /\ Replayed(b, t) = EmptyBag <=> b = EmptyBag
             /\ AtScale(b, t) = EmptyBag <=> b = EmptyBag
  <2> DEFINE f == [i \in DOMAIN b |-> bucketMidpoint(i, t)]
             g == [p \in DOMAIN b |-> p \div Pow2[MaxScale - t]]
  <2>1. DOMAIN f = DOMAIN b /\ DOMAIN g = DOMAIN b
    OBVIOUS
  <2>2. Replayed(b, t) = Regrouped(b, f) /\ AtScale(b, t) = Regrouped(b, g)
    BY DEF Replayed, AtScale
  <2> HIDE DEF f, g
  <2> QED
    BY <1>1, <2>1, <2>2, RegroupedFilled
<1>2. Filled(h.pos) /\ Filled(h.neg) /\ Filled(d.pos) /\ Filled(d.neg)
  BY DEF IsExponential
<1>3. /\ Filled(pos) /\ SumFunction(pos) = SumFunction(h.pos) + SumFunction(d.pos)
      /\ pos = EmptyBag <=> h.pos = EmptyBag /\ d.pos = EmptyBag
  <2> DEFINE a == Replayed(h.pos, h.scale)
             b == Replayed(d.pos, d.scale)
  <2>1. /\ Filled(a) /\ SumFunction(a) = SumFunction(h.pos)
        /\ Filled(b) /\ SumFunction(b) = SumFunction(d.pos)
        /\ (a = EmptyBag <=> h.pos = EmptyBag) /\ (b = EmptyBag <=> d.pos = EmptyBag)
    BY <1>1, <1>2
  <2>2. pos = a (+) b
    OBVIOUS
  <2> HIDE DEF a, b, pos
  <2>3. /\ Filled(a (+) b) /\ SumFunction(a (+) b) = SumFunction(a) + SumFunction(b)
        /\ a (+) b = EmptyBag <=> a = EmptyBag /\ b = EmptyBag
    BY <2>1, UnionFilled
  <2> QED
    BY <2>1, <2>2, <2>3
<1>4. /\ Filled(neg) /\ SumFunction(neg) = SumFunction(h.neg) + SumFunction(d.neg)
      /\ neg = EmptyBag <=> h.neg = EmptyBag /\ d.neg = EmptyBag
  <2> DEFINE a == Replayed(h.neg, h.scale)
             b == Replayed(d.neg, d.scale)
  <2>1. /\ Filled(a) /\ SumFunction(a) = SumFunction(h.neg)
        /\ Filled(b) /\ SumFunction(b) = SumFunction(d.neg)
        /\ (a = EmptyBag <=> h.neg = EmptyBag) /\ (b = EmptyBag <=> d.neg = EmptyBag)
    BY <1>1, <1>2
  <2>2. neg = a (+) b
    OBVIOUS
  <2> HIDE DEF a, b, neg
  <2>3. /\ Filled(a (+) b) /\ SumFunction(a (+) b) = SumFunction(a) + SumFunction(b)
        /\ a (+) b = EmptyBag <=> a = EmptyBag /\ b = EmptyBag
    BY <2>1, UnionFilled
  <2> QED
    BY <2>1, <2>2, <2>3
<1>5. m = [scale |-> s, zero |-> h.zero + d.zero, pos |-> AtScale(pos, s),
           neg |-> AtScale(neg, s),
           count |-> SumFunction(pos) + SumFunction(neg) + (h.zero + d.zero),
           range |-> MergedRange(h, d)]
  BY DEF MergeInto
<1> HIDE DEF m, pos, neg, s
<1>6. /\ Filled(AtScale(pos, s)) /\ SumFunction(AtScale(pos, s)) = SumFunction(pos)
      /\ Filled(AtScale(neg, s)) /\ SumFunction(AtScale(neg, s)) = SumFunction(neg)
      /\ AtScale(pos, s) = EmptyBag <=> pos = EmptyBag
      /\ AtScale(neg, s) = EmptyBag <=> neg = EmptyBag
  BY <1>1, <1>3, <1>4
<1>7. h.zero \in Nat /\ d.zero \in Nat
  BY DEF IsExponential
<1>8. IsExponential(m)
  BY <1>5, <1>6, <1>7 DEF IsExponential
<1>9. NoBuckets(m) <=> NoBuckets(h) /\ NoBuckets(d)
  BY <1>3, <1>4, <1>5, <1>6 DEF NoBuckets
<1>10. /\ SumFunction(h.pos) \in Nat /\ SumFunction(h.neg) \in Nat
       /\ SumFunction(d.pos) \in Nat /\ SumFunction(d.neg) \in Nat
  BY <1>2, FilledCounted
<1>11. m.count = Total(m) /\ Total(m) = Total(h) + Total(d)
  BY <1>3, <1>4, <1>5, <1>6, <1>7, <1>10 DEF Total, InBuckets
<1>12. m.zero = h.zero + d.zero /\ m.range = MergedRange(h, d)
  BY <1>5
<1> QED
  BY <1>8, <1>9, <1>11, <1>12 DEF m

(* What remains of min and max: HistogramRange relates those of a data point *)
(* to the values generated for it.                                           *)
HistogramRange(h, v) ==
    /\ IsRange(h.range) /\ IsRange(v)
    /\ v = Unset <=> NoBuckets(h)
    /\ IF v = Unset THEN h.range = Unset \/ (h.range = <<0, 0>> /\ h.zero > 0)
       ELSE h.range = v \/ (h.range = Hull(v, <<0, 0>>) /\ h.zero > 0)

LEMMA MergedRanges ==
    ASSUME NEW h, IsExponential(h), h.count \in {Total(h), InBuckets(h)},
           NEW v, HistogramRange(h, v),
           NEW d, IsExponential(d), IsRange(d.range), d.range = Unset <=> NoBuckets(d)
    PROVE  HistogramRange(MergeInto(h, d), Hull(v, d.range))
<1> DEFINE m == MergeInto(h, d)
           w == Hull(v, d.range)
           zeros == <<0, 0>>
<1>1. /\ m.zero = h.zero + d.zero /\ m.range = MergedRange(h, d)
      /\ NoBuckets(m) <=> NoBuckets(h) /\ NoBuckets(d)
  BY MergedTotals
<1>2. /\ IsRange(h.range) /\ IsRange(v) /\ (v = Unset <=> NoBuckets(h))
      /\ h.zero \in Nat /\ d.zero \in Nat
  BY DEF HistogramRange, IsExponential
<1>3. /\ InBuckets(h) \in Nat /\ Total(h) = InBuckets(h) + h.zero
      /\ NoBuckets(h) <=> InBuckets(h) = 0
  BY BucketTotals DEF Total
<1>4. IsRange(w) /\ (w = Unset <=> v = Unset /\ d.range = Unset)
  BY <1>2, HullOf
<1>5. IsRange(zeros) /\ zeros # Unset
  BY DEF IsRange, Unset
<1> HIDE DEF m, w, zeros
<1>6. w = Unset <=> NoBuckets(m)
  BY <1>1, <1>2, <1>4
<1>7. CASE h.count = 0
  <2>1. v = Unset
    BY <1>2, <1>3, <1>7
  <2>2. w = d.range
    BY <2>1, HullOf DEF w
  <2>3. m.range = IF d.range = Unset /\ m.zero > 0 THEN zeros ELSE d.range
    BY <1>1, <1>7 DEF MergedRange, zeros
  <2> QED
    BY <1>4, <1>5, <1>6, <2>2, <2>3 DEF HistogramRange, m, w, zeros
<1>8. CASE h.count # 0
  <2>1. m.range = Hull(h.range, d.range)
    BY <1>1, <1>8 DEF MergedRange
  <2>2. IsRange(m.range)
    BY <1>2, <2>1, HullOf
  <2>3. h.zero > 0 => m.zero > 0
    BY <1>1, <1>2
  <2>4. CASE v = Unset
    <3>1. w = d.range
      BY <2>4, HullOf DEF w
    <3>2. CASE h.range = Unset
      <4>1. m.range = d.range
        BY <2>1, <3>2, HullOf
      <4> QED
        BY <1>4, <1>6, <2>2, <3>1, <4>1 DEF HistogramRange, m, w
    <3>3. CASE h.range = zeros /\ h.zero > 0
      <4>1. m.range = Hull(Hull(Unset, zeros), d.range)
        BY <1>5, <2>1, <3>3, HullOf
      <4>2. m.range = Hull(w, zeros)
        <5>1. IsRange(Unset)
          BY DEF IsRange
        <5>2. m.range = Hull(Hull(Unset, d.range), zeros)
          BY <1>5, <4>1, <5>1, HullSwaps
        <5> QED
          BY <3>1, <5>2, HullOf
      <4>3. w = Unset => m.range = zeros
        BY <1>5, <4>2, HullOf
      <4> QED
        BY <1>4, <1>6, <2>2, <2>3, <3>3, <4>2, <4>3 DEF HistogramRange, m, w, zeros
    <3> QED
      BY <2>4, <3>2, <3>3 DEF HistogramRange, zeros
  <2>5. CASE v # Unset
    <3>1. w # Unset
      BY <1>4, <2>5
    <3>2. CASE h.range = v
      <4>1. m.range = w
        BY <2>1, <3>2 DEF w
      <4> QED
        BY <1>4, <1>6, <3>1, <4>1 DEF HistogramRange, m, w
    <3>3. CASE h.range = Hull(v, zeros) /\ h.zero > 0
      <4>1. m.range = Hull(w, zeros)
        BY <1>2, <1>5, <2>1, <3>3, HullSwaps DEF w
      <4> QED
        BY <1>4, <1>6, <2>2, <2>3, <3>1, <3>3, <4>1 DEF HistogramRange, m, w, zeros
    <3> QED
      BY <2>5, <3>2, <3>3 DEF HistogramRange, zeros
  <2> QED
    BY <2>4, <2>5
<1> QED
  BY <1>7, <1>8

-----------------------------------------------------------------------------
(* Observations and ranges                                                   *)

(* What is counted: the shape of the data point, and its observations.       *)
CountsInv ==
    /\ intervals \in Nat /\ phase \in {"construct", "advance", "emit"}
    /\ phase = "construct" => intervals = 0 /\ kind # "explicit"
    /\ kind = "explicit" => \E b : Counted(b) /\ template = Histogram(b)
    /\ kind # "explicit" => IsExponential(template)
    /\ ObservationsConserved

LEMMA ExplicitTotals ==
    ASSUME NEW b, Counted(b)
    PROVE  /\ Total(Histogram(b)) = SumFunction(b)
           /\ Histogram(b).count = Total(Histogram(b))
           /\ Histogram(b).pos = b
<1>1. SumFunction(b) \in Nat /\ SumFunction(EmptyBag) = 0
  BY CountedSum, EmptyIsEmpty
<1> QED
  BY <1>1 DEF Histogram, Total, InBuckets

(* A step of the walk keeps the buckets; mirroring keeps the counts positive. *)
LEMMA WalkedIs ==
    ASSUME NEW b, Counted(b), NEW h \in Walked(Histogram(b))
    PROVE  \E c : Counted(c) /\ h = Histogram(c)
<1>1. \A x \in Nat : Stepped(x) \subseteq Nat
  BY ExplicitAssumption DEF Stepped
<1>2. PICK c \in EachOf([i \in DOMAIN b |-> Stepped(b[i])]) : h = Histogram(c)
  <2>1. PICK from : from = Histogram(b) /\ from.pos = b
    BY ExplicitTotals
  <2>2. h \in Walked(from)
    BY <2>1
  <2> QED
    BY <2>1, <2>2 DEF Walked
<1>3. c \in [DOMAIN b -> UNION Range([i \in DOMAIN b |-> Stepped(b[i])])]
      /\ \A i \in DOMAIN b : c[i] \in Stepped(b[i])
  BY DEF EachOf
<1>4. Counted(c)
  <2>1. c = [i \in DOMAIN b |-> c[i]] /\ DOMAIN c = DOMAIN b
    BY <1>3
  <2>2. \A i \in DOMAIN b : c[i] \in Nat
    BY <1>1, <1>3 DEF Counted
  <2> QED
    BY <2>1, <2>2 DEF Counted
<1> QED
  BY <1>2, <1>4

LEMMA CountsInit == Init => CountsInv
<1> SUFFICES ASSUME Init PROVE CountsInv
  OBVIOUS
<1>1. CASE kind = "explicit"
  <2>1. PICK b \in Explicit : template = Histogram(b)
    BY <1>1 DEF Init
  <2>2. Counted(b)
    BY ExplicitAssumption DEF Counted
  <2>3. template.count = Total(template)
    BY <2>1, <2>2, ExplicitTotals
  <2> QED
    BY <1>1, <2>1, <2>2, <2>3 DEF Init, CountsInv, ObservationsConserved
<1>2. CASE kind # "explicit"
  <2>1. template = Histogram(EmptyBag)
    BY <1>2 DEF Init
  <2>2. Counted(EmptyBag) /\ Filled(EmptyBag)
    BY EmptyIsEmpty, FilledCounted
  <2>3. template.count = Total(template)
    BY <2>1, <2>2, ExplicitTotals
  <2>4. IsExponential(template)
    BY <2>1, <2>2 DEF IsExponential, Histogram
  <2> QED
    BY <1>2, <2>3, <2>4 DEF Init, CountsInv, ObservationsConserved
<1> QED
  BY <1>1, <1>2

(* The emission of an exponential histogram counts its buckets again.        *)
LEMMA EmittedIs ==
    ASSUME NEW h, IsExponential(h)
    PROVE  LET e == ApplyExponentialHistogramVariation(h, instance)
           IN  /\ e.count = Total(e) /\ e.range = h.range
               /\ e.scale = h.scale /\ e.zero = h.zero
               /\ e.pos = varyBucketCounts(h.pos, instance.pos)
               /\ e.neg = varyBucketCounts(h.neg, instance.neg)
  BY DEF IsExponential, ApplyExponentialHistogramVariation, Total, InBuckets

LEMMA CountsStep ==
    ASSUME CountsInv, [Next]_vars
    PROVE  CountsInv'
<1> USE DEF CountsInv, ObservationsConserved
<1>1. CASE Construct
  <2>1. template' \in Generated /\ observed' = Total(template') /\ kind # "explicit"
    BY <1>1 DEF Construct
  <2>2. IsExponential(template') /\ template'.count = InBuckets(template')
    BY <2>1, GeneratedIs
  <2> QED
    BY <1>1, <2>1, <2>2 DEF Construct
<1>2. CASE AdvanceDataPoint
  <2>1. /\ intervals' \in Nat /\ phase' = "emit" /\ kind' = kind
    BY <1>2 DEF AdvanceDataPoint
  <2>2. CASE kind = "explicit"
    <3>1. template' \in Walked(template) /\ observed' = Total(template')
      BY <1>2, <2>2 DEF AdvanceDataPoint
    <3>2. PICK c : Counted(c) /\ template' = Histogram(c)
      BY <2>2, <3>1, WalkedIs
    <3>3. template'.count = Total(template')
      BY <3>2, ExplicitTotals
    <3> QED
      BY <2>1, <2>2, <3>1, <3>2, <3>3
  <2>3. CASE kind = "delta"
    <3>1. template' \in Generated /\ observed' = Total(template')
      BY <1>2, <2>3 DEF AdvanceDataPoint
    <3>2. IsExponential(template') /\ template'.count = InBuckets(template')
      BY <3>1, GeneratedIs
    <3> QED
      BY <2>1, <2>3, <3>1, <3>2
  <2>4. CASE kind = "cumulative"
    <3>1. PICK d \in Generated : /\ template' = MergeInto(template, d)
                                 /\ observed' = observed + Total(d)
      BY <1>2, <2>4 DEF AdvanceDataPoint
    <3>2. IsExponential(template) /\ IsExponential(d)
      BY <2>4, GeneratedIs
    <3>3. /\ IsExponential(template') /\ template'.count = Total(template')
          /\ Total(template') = Total(template) + Total(d)
      BY <3>1, <3>2, MergedTotals
    <3> QED
      BY <2>1, <2>4, <3>1, <3>3
  <2> QED
    BY <1>2, <2>2, <2>3, <2>4 DEF AdvanceDataPoint
<1>3. CASE EmitForInstance
  <2>1. emitted'.count = Total(emitted')
    <3>1. CASE kind = "explicit"
      <4>1. \E c : Counted(c) /\ emitted' = Histogram(c)
        BY <1>3, <3>1, WalkedIs DEF EmitForInstance
      <4> QED
        BY <4>1, ExplicitTotals
    <3>2. CASE kind # "explicit"
      BY <1>3, <3>2, EmittedIs DEF EmitForInstance
    <3> QED
      BY <3>1, <3>2
  <2> QED
    BY <1>3, <2>1 DEF EmitForInstance
<1>4. CASE UNCHANGED vars
  BY <1>4 DEF vars
<1> QED
  BY <1>1, <1>2, <1>3, <1>4 DEF Next, Ended

LEMMA CountsAlways == Spec => []CountsInv
<1>1. CountsInv /\ [Next]_vars => CountsInv'
  BY CountsStep
<1> QED
  BY <1>1, CountsInit, PTL DEF Spec

(* No observation is lost or counted twice, over any number of merges, for   *)
(* all samples and at whatever scale the merged buckets fit.                 *)
THEOREM ObservationsKept == Spec => []ObservationsConserved
<1>1. CountsInv => ObservationsConserved
  BY DEF CountsInv
<1> QED
  BY <1>1, CountsAlways, PTL

(* The values that make up min and max; an emission keeps them.              *)
RangeInv ==
    kind # "explicit" /\ phase # "construct" =>
        /\ HistogramRange(template, values)
        /\ intervals > 0 /\ phase = "advance" => emitted.range = template.range

LEMMA RangeStep ==
    ASSUME CountsInv, RangeInv, [Next]_vars
    PROVE  RangeInv'
<1> USE DEF RangeInv
<1>g. ASSUME NEW h \in Generated
      PROVE  HistogramRange(h, h.range) /\ IsExponential(h)
  BY GeneratedIs DEF HistogramRange
<1>1. CASE Construct
  <2>1. template' \in Generated /\ values' = template'.range /\ intervals' = 0
    BY <1>1 DEF Construct, CountsInv
  <2> QED
    BY <1>g, <2>1
<1>2. CASE AdvanceDataPoint
  <2> SUFFICES ASSUME kind # "explicit"
               PROVE  HistogramRange(template', values')
    BY <1>2 DEF AdvanceDataPoint
  <2>1. CASE kind = "delta"
    BY <1>2, <1>g, <2>1 DEF AdvanceDataPoint
  <2>2. CASE kind = "cumulative"
    <3>1. PICK d \in Generated : /\ template' = MergeInto(template, d)
                                 /\ values' = Hull(values, d.range)
      BY <1>2, <2>2 DEF AdvanceDataPoint
    <3>2. IsExponential(d) /\ IsRange(d.range) /\ (d.range = Unset <=> NoBuckets(d))
      BY GeneratedIs
    <3>3. /\ HistogramRange(template, values) /\ IsExponential(template)
          /\ template.count \in {Total(template), InBuckets(template)}
      BY <1>2, <2>2 DEF AdvanceDataPoint, CountsInv, ObservationsConserved
    <3> QED
      BY <3>1, <3>2, <3>3, MergedRanges
  <2> QED
    BY <1>2, <2>1, <2>2 DEF AdvanceDataPoint
<1>3. CASE EmitForInstance
  <2> SUFFICES ASSUME kind # "explicit"
               PROVE  /\ HistogramRange(template, values)
                      /\ emitted'.range = template.range
    BY <1>3 DEF EmitForInstance
  <2>1. IsExponential(template) /\ phase = "emit"
    BY <1>3 DEF EmitForInstance, CountsInv
  <2> QED
    BY <1>3, <2>1, EmittedIs DEF EmitForInstance
<1>4. CASE UNCHANGED vars
  BY <1>4 DEF vars
<1> QED
  BY <1>1, <1>2, <1>3, <1>4 DEF Next, Ended

(* min and max are those of the generated values, after any number of merges *)
(* through midpoints, and every emission carries them.                       *)
THEOREM RangesExact == Spec => []RangeIsExact
<1>1. Init => RangeInv
  BY DEF Init, RangeInv
<1>2. CountsInv /\ RangeInv /\ [Next]_vars => RangeInv'
  BY RangeStep
<1>3. RangeInv => RangeIsExact
  BY DEF RangeInv, HistogramRange, RangeIsExact
<1> QED
  BY <1>1, <1>2, <1>3, CountsAlways, PTL DEF Spec

-----------------------------------------------------------------------------
(* The scale of a merge                                                      *)

(* Buckets of scale s that lie in MaxSize octaves.                           *)
InOctaves(b, s, low) ==
    \A i \in DOMAIN b : i \in Int /\ i \div Pow2[s] \in low .. (low + MaxSize - 1)

LEMMA ReplayedIs ==
    ASSUME NEW b, Filled(b), NEW s \in 0 .. MaxScale, DOMAIN b \subseteq Int
    PROVE  LET r == Replayed(b, s)
           IN  /\ Filled(r) /\ DOMAIN r \subseteq Int
               /\ \A p \in DOMAIN r : \E i \in DOMAIN b : p = bucketMidpoint(i, s)
               /\ \A i \in DOMAIN b : bucketMidpoint(i, s) \in DOMAIN r
               /\ r = EmptyBag <=> b = EmptyBag
<1> DEFINE f == [i \in DOMAIN b |-> bucketMidpoint(i, s)]
<1>1. Replayed(b, s) = Regrouped(b, f) /\ DOMAIN f = DOMAIN b
  BY DEF Replayed
<1>2. \A i \in DOMAIN f : f[i] \in Int /\ f[i] = bucketMidpoint(i, s)
  BY MidpointPosition
<1> HIDE DEF f
<1>3. /\ Filled(Regrouped(b, f)) /\ DOMAIN Regrouped(b, f) = Range(f)
      /\ Regrouped(b, f) = EmptyBag <=> b = EmptyBag
  BY <1>1, RegroupedFilled
<1>4. /\ Range(f) \subseteq Int /\ \A i \in DOMAIN f : f[i] \in Range(f)
      /\ \A p \in Range(f) : \E i \in DOMAIN f : p = f[i]
  BY <1>2 DEF Range
<1> QED
  BY <1>1, <1>2, <1>3, <1>4

LEMMA AtScaleIs ==
    ASSUME NEW b, Populated(b), NEW s \in 0 .. MaxScale
    PROVE  LET r == AtScale(b, s)
           IN  /\ Populated(r)
               /\ \A j \in DOMAIN r : \E p \in DOMAIN b : j = p \div Width(s)
               /\ \A p \in DOMAIN b : p \in Int /\ p \div Width(s) \in DOMAIN r
               /\ r = EmptyBag <=> b = EmptyBag
<1> DEFINE f == [p \in DOMAIN b |-> p \div Width(s)]
<1>1. AtScale(b, s) = Regrouped(b, f) /\ DOMAIN f = DOMAIN b
  BY DEF AtScale, Width
<1>2. \A p \in DOMAIN f : p \in Int /\ f[p] \in Int /\ f[p] = p \div Width(s)
  <2>1. Width(s) \in Nat \ {0}
    BY Widths
  <2>2. \A p \in Int : p \div Width(s) \in Int
    BY <2>1, DivModSum
  <2> QED
    BY <2>2 DEF Populated
<1> HIDE DEF f
<1>3. /\ Filled(Regrouped(b, f)) /\ DOMAIN Regrouped(b, f) = Range(f)
      /\ Regrouped(b, f) = EmptyBag <=> b = EmptyBag
  BY <1>1, PopulatedFilled, RegroupedFilled
<1>4. /\ Range(f) \subseteq Int /\ \A i \in DOMAIN f : f[i] \in Range(f)
      /\ \A p \in Range(f) : \E i \in DOMAIN f : p = f[i]
  BY <1>2 DEF Range
<1>5. Populated(Regrouped(b, f))
  BY <1>3, <1>4, PopulatedFilled
<1> QED
  BY <1>1, <1>2, <1>3, <1>4, <1>5

(* Positions in MaxSize octaves fit at scale 0.                              *)
LEMMA FitsCoarse ==
    ASSUME NEW b, Filled(b), NEW low \in Int, InOctaves(b, MaxScale, low)
    PROVE  Fits(b, 0)
<1>1. CASE b = EmptyBag
  BY <1>1 DEF Fits
<1>2. CASE b # EmptyBag
  <2> DEFINE c == AtScale(b, 0)
  <2>1. Populated(b)
    BY PopulatedFilled DEF InOctaves
  <2>2. 0 \in 0 .. MaxScale /\ Width(0) = Pow2[MaxScale]
    BY NumbersAssumption DEF Width
  <2>3. /\ Populated(c) /\ c # EmptyBag
        /\ \A j \in DOMAIN c : \E p \in DOMAIN b : j = p \div Pow2[MaxScale]
    BY <1>2, <2>1, <2>2, AtScaleIs
  <2>4. \A j \in DOMAIN c : j \in low .. (low + MaxSize - 1)
    BY <2>3 DEF InOctaves
  <2> HIDE DEF c
  <2>5. Lowest(c) \in low .. (low + MaxSize - 1) /\ Highest(c) \in low .. (low + MaxSize - 1)
    BY <2>3, <2>4, Bounds
  <2>6. Highest(c) - Lowest(c) < MaxSize
    BY <2>5, SizeAssumption
  <2> QED
    BY <2>6 DEF Fits, c
<1> QED
  BY <1>1, <1>2

LEMMA FinestIs ==
    ASSUME NEW pos, Filled(pos), NEW neg, Filled(neg),
           NEW low \in Int, InOctaves(pos, MaxScale, low),
           NEW lown \in Int, InOctaves(neg, MaxScale, lown)
    PROVE  LET s == FinestScale(pos, neg)
           IN  /\ s \in 0 .. MaxScale
               /\ pos # EmptyBag \/ neg # EmptyBag =>
                    /\ Fits(pos, s) /\ Fits(neg, s)
                    /\ \A t \in s + 1 .. MaxScale : ~(Fits(pos, t) /\ Fits(neg, t))
<1> DEFINE Good == {s \in 0 .. MaxScale : Fits(pos, s) /\ Fits(neg, s)}
<1>1. 0 \in 0 .. MaxScale /\ IsFiniteSet(0 .. MaxScale)
  BY NumbersAssumption, FS_Interval
<1>2. 0 \in Good
  BY <1>1, FitsCoarse
<1>3. IsFiniteSet(Good) /\ Good # {} /\ Good \subseteq Int
  <2>1. Good \in SUBSET (0 .. MaxScale) /\ Good # {} /\ Good \subseteq Int
    BY <1>2
  <2> HIDE DEF Good
  <2> QED
    BY <1>1, <2>1, FS_Subset
<1>4. PICK s \in Good : \A t \in Good : s >= t
  <2> HIDE DEF Good
  <2> QED
    BY <1>3, LeastIndex
<1>5. /\ s \in 0 .. MaxScale /\ Fits(pos, s) /\ Fits(neg, s)
      /\ \A t \in s + 1 .. MaxScale : ~(Fits(pos, t) /\ Fits(neg, t))
  <2>1. ASSUME NEW t \in s + 1 .. MaxScale, Fits(pos, t), Fits(neg, t)
        PROVE  FALSE
    <3>1. t \in Good /\ s \in Int /\ t > s
      BY <1>4, <2>1
    <3> QED
      BY <1>4, <3>1
  <2> QED
    BY <1>4, <2>1
<1>6. CASE pos = EmptyBag /\ neg = EmptyBag
  BY <1>1, <1>6 DEF FinestScale
<1>7. CASE pos # EmptyBag \/ neg # EmptyBag
  <2> HIDE DEF Good
  <2> DEFINE P(x) == /\ Fits(pos, x) /\ Fits(neg, x)
                     /\ \A t \in x + 1 .. MaxScale : ~(Fits(pos, t) /\ Fits(neg, t))
  <2>1. FinestScale(pos, neg) = CHOOSE x \in 0 .. MaxScale : P(x)
    BY <1>7 DEF FinestScale
  <2>2. \E x \in 0 .. MaxScale : P(x)
    BY <1>5
  <2> HIDE DEF P
  <2>3. FinestScale(pos, neg) \in 0 .. MaxScale /\ P(FinestScale(pos, neg))
    BY <2>1, <2>2
  <2> QED
    BY <2>3 DEF P
<1> QED
  BY <1>6, <1>7

(* Buckets that would not fit at the next finer scale, whatever their         *)
(* positions were.                                                           *)
Wide(b) == \E i \in DOMAIN b, j \in DOMAIN b : 2 * (i - j) >= MaxSize

(* The finest scale at which positions fit leaves buckets far apart:         *)
(* halving the span of indices that is too large makes half of it.           *)
LEMMA FinestIsWide ==
    ASSUME NEW b, Populated(b), NEW s \in 0 .. MaxScale, s # MaxScale, ~Fits(b, s + 1)
    PROVE  Wide(AtScale(b, s))
<1> DEFINE c == AtScale(b, s + 1)
<1>1. s + 1 \in 0 .. MaxScale /\ s <= s + 1 /\ (s + 1) - s = 1
  BY NumbersAssumption
<1>2. b # EmptyBag /\ ~(Highest(c) - Lowest(c) < MaxSize)
  BY DEF Fits
<1>3. Populated(c) /\ c # EmptyBag /\ \A j \in DOMAIN c : \E p \in DOMAIN b : j = p \div Width(s + 1)
  BY <1>1, <1>2, AtScaleIs
<1> HIDE DEF c
<1>4. Highest(c) \in DOMAIN c /\ Lowest(c) \in DOMAIN c /\ Highest(c) \in Int /\ Lowest(c) \in Int
  BY <1>3, Bounds
<1>5. PICK p \in DOMAIN b, q \in DOMAIN b :
          Highest(c) = p \div Width(s + 1) /\ Lowest(c) = q \div Width(s + 1)
  BY <1>3, <1>4
<1>6. p \in Int /\ q \in Int /\ p \div Width(s) \in DOMAIN AtScale(b, s)
      /\ q \div Width(s) \in DOMAIN AtScale(b, s)
  BY AtScaleIs
<1>7. Pow2[1] = 2 /\ Width(s) = Width(s + 1) * 2 /\ Width(s + 1) \in Nat \ {0}
  <2>1. Pow2[1] = 2
    BY Pow2Equation
  <2> QED
    BY <1>1, <2>1, Widths
<1>8. p \div Width(s) = Highest(c) \div 2 /\ q \div Width(s) = Lowest(c) \div 2
  BY <1>5, <1>6, <1>7, QuotientTwice
<1>9. 2 * (Highest(c) \div 2 - Lowest(c) \div 2) >= MaxSize
  <2>1. PICK h \in Int, l \in Int : h = Highest(c) /\ l = Lowest(c)
    BY <1>4
  <2>2. h - l >= MaxSize /\ MaxSize \in Nat /\ MaxSize % 2 = 0
    BY <1>2, <2>1, SizeAssumption
  <2>3. 2 * (h \div 2 - l \div 2) >= MaxSize
    BY <2>2
  <2> QED
    BY <2>1, <2>3
<1> QED
  BY <1>6, <1>8, <1>9 DEF Wide

(* Such buckets, replayed through their midpoints, do not fit two scales finer, *)
(* whatever else is merged with them.                                        *)
LEMMA WideFitsNoFiner ==
    ASSUME NEW b, NEW s \in 0 .. MaxScale, DOMAIN b \subseteq Int, Wide(b),
           NEW u, Populated(u), \A i \in DOMAIN b : bucketMidpoint(i, s) \in DOMAIN u,
           NEW t \in 0 .. MaxScale, s + 1 < t
    PROVE  ~Fits(u, t)
<1>1. PICK i \in DOMAIN b, j \in DOMAIN b : 2 * (i - j) >= MaxSize
  BY DEF Wide
<1>2. i \in Int /\ j \in Int /\ j < i /\ MaxSize \in Nat
  BY <1>1, SizeAssumption
<1> DEFINE c == AtScale(u, t)
           k == bucketMidpoint(i, s) \div Width(t)
           l == bucketMidpoint(j, s) \div Width(t)
<1>3. k \in Int /\ l \in Int /\ k - l >= 2 * (i - j)
  BY <1>2, MidpointFiner
<1>4. k \in DOMAIN c /\ l \in DOMAIN c /\ Populated(c)
  BY AtScaleIs
<1> HIDE DEF c, k, l
<1>5. c # EmptyBag /\ u # EmptyBag
  <2>1. c # EmptyBag
    BY <1>4, EmptyIsEmpty
  <2>2. u # EmptyBag
    BY <1>1, EmptyIsEmpty
  <2> QED
    BY <2>1, <2>2
<1>6. Highest(c) \in Int /\ Lowest(c) \in Int /\ Highest(c) >= k /\ Lowest(c) <= l
  BY <1>4, <1>5, Bounds
<1>7. ~(Highest(c) - Lowest(c) < MaxSize)
  BY <1>1, <1>2, <1>3, <1>6
<1> QED
  BY <1>5, <1>7 DEF Fits, c

(* Each bucket of b at scale s is in one of c at the coarser scale t.        *)
Inside(b, s, c, t) ==
    LET before == Coarser(b, s, t)
    IN  \A i \in DOMAIN before : i \in DOMAIN c /\ c[i] >= before[i]

(* The buckets that are moved to some of the indices keep their counts there. *)
LEMMA MovedPart ==
    ASSUME NEW b, Filled(b), NEW f, DOMAIN f = DOMAIN b, NEW J \in SUBSET Range(f)
    PROVE  SumFunctionOnSet(Regrouped(b, f), J) = SumFunctionOnSet(b, {i \in DOMAIN b : f[i] \in J})
<1> DEFINE T == {i \in DOMAIN b : f[i] \in J}
           bt == [i \in T |-> b[i]]
           ft == [i \in T |-> f[i]]
<1>1. DOMAIN bt = T /\ DOMAIN ft = T /\ IsFiniteSet(T) /\ \A i \in T : b[i] \in Nat
  BY FS_Subset DEF Filled
<1>2. Counted(bt)
  BY <1>1 DEF Counted
<1>3. Range(ft) = J
  <2>1. \A j \in J : \E i \in DOMAIN f : f[i] = j
    BY DEF Range
  <2>2. \A j \in J : \E i \in T : ft[i] = j
    BY <2>1
  <2>3. \A i \in T : ft[i] \in J
    OBVIOUS
  <2> HIDE DEF ft, T
  <2> QED
    BY <1>1, <2>2, <2>3 DEF Range
<1>4. \A j \in J : Moved(bt, ft, T)[j] = Regrouped(b, f)[j]
  <2> SUFFICES ASSUME NEW j \in J
               PROVE  Moved(bt, ft, T)[j] = Regrouped(b, f)[j]
    OBVIOUS
  <2> DEFINE to == {i \in DOMAIN b : f[i] = j}
  <2>1. {i \in T : ft[i] = j} = to
    OBVIOUS
  <2>2. Moved(bt, ft, T)[j] = SumFunctionOnSet(bt, to)
    <3> HIDE DEF bt, ft, to, T
    <3> QED
      BY <1>3, <2>1 DEF Moved
  <2>3. Regrouped(b, f)[j] = SumFunctionOnSet(b, to)
    BY DEF Regrouped
  <2>4. IsFiniteSet(to) /\ \A i \in to : bt[i] = b[i]
    BY FS_Subset DEF Filled
  <2> HIDE DEF bt, ft, to, T
  <2> QED
    BY <2>2, <2>3, <2>4, SumCongruence
<1>5. \A i \in T : bt[i] = b[i]
  OBVIOUS
<1> HIDE DEF bt, ft, T
<1>6. IsFiniteSet(J) /\ SumFunctionOnSet(Moved(bt, ft, T), J) = SumFunctionOnSet(bt, T)
  BY <1>1, <1>2, <1>3, MovedSum
<1>7. SumFunctionOnSet(Moved(bt, ft, T), J) = SumFunctionOnSet(Regrouped(b, f), J)
  BY <1>4, <1>6, SumCongruence
<1>8. SumFunctionOnSet(bt, T) = SumFunctionOnSet(b, T)
  BY <1>1, <1>5, SumCongruence
<1> QED
  BY <1>6, <1>7, <1>8 DEF T

(* Regrouping more counts leaves at least as many in each group.             *)
LEMMA GroupGrows ==
    ASSUME NEW a, Filled(a), NEW u, Filled(u), DOMAIN a \subseteq DOMAIN u,
           \A p \in DOMAIN a : u[p] >= a[p],
           NEW J \in SUBSET DOMAIN a, NEW K \in SUBSET DOMAIN u, J \subseteq K
    PROVE  SumFunctionOnSet(a, J) <= SumFunctionOnSet(u, K)
<1>1. IsFiniteSet(K) /\ IsFiniteSet(J)
  BY FS_Subset DEF Filled
<1>2. /\ \A p \in K : u[p] \in Nat
      /\ \A p \in J : a[p] \in Int /\ u[p] \in Int /\ a[p] <= u[p]
  BY DEF Filled
<1>3. SumFunctionOnSet(a, J) <= SumFunctionOnSet(u, J)
  BY <1>1, <1>2, SumMonotone
<1>4. SumFunctionOnSet(u, J) <= SumFunctionOnSet(u, K)
  BY <1>1, <1>2, SumSubset
<1>5. /\ SumFunctionOnSet(a, J) \in Int /\ SumFunctionOnSet(u, J) \in Int
      /\ SumFunctionOnSet(u, K) \in Int
  BY <1>1, <1>2, SumType
<1> QED
  BY <1>3, <1>4, <1>5

(* At the scale of a merge every bucket is in the one that contains it, with *)
(* at least the counts that were there.                                      *)
LEMMA BucketsKept ==
    ASSUME NEW b, Filled(b), DOMAIN b \subseteq Int,
           NEW s \in 0 .. MaxScale, NEW t \in 0 .. MaxScale, t <= s,
           NEW u, Populated(u), DOMAIN Replayed(b, s) \subseteq DOMAIN u,
           \A p \in DOMAIN Replayed(b, s) : u[p] >= Replayed(b, s)[p]
    PROVE  Inside(b, s, AtScale(u, t), t)
<1> DEFINE g == [i \in DOMAIN b |-> i \div Pow2[s - t]]
           f == [i \in DOMAIN b |-> bucketMidpoint(i, s)]
           r == Replayed(b, s)
           before == Regrouped(b, g)
<1>1. r = Regrouped(b, f) /\ DOMAIN f = DOMAIN b /\ DOMAIN g = DOMAIN b
  BY DEF Replayed
<1>2. \A i \in DOMAIN b : f[i] \div Width(t) = g[i] /\ g[i] = i \div Pow2[s - t]
  BY MidpointCoarser
<1> HIDE DEF f, g, r
<1>3. Filled(r) /\ DOMAIN r = Range(f) /\ DOMAIN before = Range(g)
  BY <1>1, RegroupedFilled
<1> SUFFICES ASSUME NEW j \in DOMAIN before
             PROVE  j \in DOMAIN AtScale(u, t) /\ AtScale(u, t)[j] >= before[j]
  BY DEF Inside, Coarser, before, g
<1>4. PICK i \in DOMAIN b : j = g[i]
  BY <1>1, <1>3 DEF Range
<1> DEFINE J == {p \in Range(f) : p \div Width(t) = j}
           K == {p \in DOMAIN u : p \div Width(t) = j}
<1>5. f[i] \in Range(f) /\ DOMAIN r \subseteq DOMAIN u /\ \A p \in DOMAIN r : u[p] >= r[p]
  BY <1>1 DEF Range, r
<1>6. j \in DOMAIN AtScale(u, t)
  <2>1. f[i] \in DOMAIN u /\ f[i] \div Width(t) = j
    BY <1>2, <1>3, <1>4, <1>5
  <2> QED
    BY <2>1, AtScaleIs
<1>7. AtScale(u, t)[j] = SumFunctionOnSet(u, K)
  <2> DEFINE h == [p \in DOMAIN u |-> p \div Width(t)]
  <2>1. AtScale(u, t) = Regrouped(u, h)
    BY DEF AtScale, Width
  <2>2. \A p \in DOMAIN u : h[p] = p \div Width(t)
    OBVIOUS
  <2> HIDE DEF h
  <2>3. {p \in DOMAIN u : h[p] = j} = K
    BY <2>2
  <2>4. DOMAIN Regrouped(u, h) = Range(h)
    BY DEF Regrouped
  <2>5. Regrouped(u, h)[j] = SumFunctionOnSet(u, {p \in DOMAIN u : h[p] = j})
    BY <1>6, <2>1, <2>4 DEF Regrouped
  <2> QED
    BY <2>1, <2>3, <2>5
<1>8. before[j] = SumFunctionOnSet(b, {k \in DOMAIN b : g[k] = j})
  BY <1>3 DEF Regrouped
<1>9. {k \in DOMAIN b : g[k] = j} = {k \in DOMAIN b : f[k] \in J}
  <2>1. \A k \in DOMAIN b : f[k] \in Range(f)
    BY <1>1 DEF Range
  <2> QED
    BY <1>2, <2>1
<1>10. SumFunctionOnSet(r, J) = SumFunctionOnSet(b, {k \in DOMAIN b : f[k] \in J})
  BY <1>1, MovedPart
<1>11. SumFunctionOnSet(r, J) <= SumFunctionOnSet(u, K)
  <2>1. J \in SUBSET DOMAIN r /\ K \in SUBSET DOMAIN u /\ J \subseteq K
    BY <1>3, <1>5
  <2>2. Filled(u)
    BY PopulatedFilled
  <2> HIDE DEF J, K
  <2> QED
    BY <1>3, <1>5, <2>1, <2>2, GroupGrows
<1>12. before[j] = SumFunctionOnSet(r, J) /\ AtScale(u, t)[j] = SumFunctionOnSet(u, K)
  BY <1>7, <1>8, <1>9, <1>10
<1>13. SumFunctionOnSet(r, J) \in Int /\ SumFunctionOnSet(u, K) \in Int
  <2>1. IsFiniteSet(J) /\ \A p \in J : r[p] \in Int
    BY <1>3, FS_Subset DEF Filled
  <2>2. IsFiniteSet(K) /\ \A p \in K : u[p] \in Int
    BY FS_Subset DEF Populated
  <2> QED
    BY <2>1, <2>2, SumType
<1> QED
  BY <1>6, <1>11, <1>12, <1>13

(* The buckets of a coarser scale hold what the finer ones in them hold.      *)
LEMMA CoarserAgain ==
    ASSUME NEW u, Populated(u), NEW t \in 0 .. MaxScale, NEW c \in 0 .. MaxScale, c <= t
    PROVE  Coarser(AtScale(u, t), t, c) = AtScale(u, c)
<1> DEFINE f == [p \in DOMAIN u |-> p \div Width(t)]
           g == [p \in DOMAIN u |-> p \div Width(c)]
           r == Regrouped(u, f)
           h == [i \in DOMAIN r |-> i \div Pow2[t - c]]
<1>1. AtScale(u, t) = r /\ AtScale(u, c) = Regrouped(u, g)
  BY DEF AtScale, Width
<1>2. Coarser(r, t, c) = Regrouped(r, h)
  BY DEF Coarser
<1>3. Filled(u) /\ DOMAIN f = DOMAIN u /\ DOMAIN g = DOMAIN u /\ DOMAIN h = DOMAIN r
  BY PopulatedFilled
<1>4. \A p \in DOMAIN u : g[p] = f[p] \div Pow2[t - c]
  <2> SUFFICES ASSUME NEW p \in DOMAIN u
               PROVE  p \div Width(c) = (p \div Width(t)) \div Pow2[t - c]
    OBVIOUS
  <2>1. p \in Int
    BY DEF Populated
  <2> QED
    BY <2>1, Widths, QuotientTwice
<1>5. \A i \in DOMAIN r : h[i] = i \div Pow2[t - c]
  OBVIOUS
<1> HIDE DEF f, g, h
<1>6. DOMAIN r = Range(f)
  BY DEF Regrouped
<1>7. \A p \in DOMAIN u : f[p] \in DOMAIN r /\ h[f[p]] = g[p]
  BY <1>3, <1>4, <1>5, <1>6 DEF Range
<1>8. Range(h) = Range(g)
  <2>1. \A i \in DOMAIN r : \E p \in DOMAIN u : i = f[p]
    BY <1>3, <1>6 DEF Range
  <2> QED
    BY <1>3, <1>7, <2>1 DEF Range
<1>9. \A j \in Range(g) :
          SumFunctionOnSet(r, {i \in DOMAIN r : h[i] = j})
            = SumFunctionOnSet(u, {p \in DOMAIN u : g[p] = j})
  <2> SUFFICES ASSUME NEW j \in Range(g)
               PROVE  SumFunctionOnSet(r, {i \in DOMAIN r : h[i] = j})
                        = SumFunctionOnSet(u, {p \in DOMAIN u : g[p] = j})
    OBVIOUS
  <2> DEFINE J == {i \in DOMAIN r : h[i] = j}
  <2>1. J \in SUBSET Range(f)
    BY <1>6
  <2>2. SumFunctionOnSet(r, J) = SumFunctionOnSet(u, {p \in DOMAIN u : f[p] \in J})
    <3> HIDE DEF J
    <3> QED
      BY <1>3, <2>1, MovedPart
  <2>3. {p \in DOMAIN u : f[p] \in J} = {p \in DOMAIN u : g[p] = j}
    BY <1>7
  <2> QED
    BY <2>2, <2>3
<1>10. /\ Regrouped(r, h) = [j \in Range(h) |-> SumFunctionOnSet(r, {i \in DOMAIN r : h[i] = j})]
       /\ Regrouped(u, g) = [j \in Range(g) |-> SumFunctionOnSet(u, {p \in DOMAIN u : g[p] = j})]
  BY DEF Regrouped
<1> QED
  BY <1>1, <1>2, <1>8, <1>9, <1>10

-----------------------------------------------------------------------------
(* Where the buckets are                                                     *)

(* All that is generated from a sample lies in MaxSize octaves from low on:   *)
(* go-expohisto has coarser scales below 0 for what does not, which the model *)
(* leaves out.                                                               *)
Near(b, s, low) ==
    \A i \in DOMAIN b : \A m \in i - 1 .. i + 1 : m \div Pow2[s] \in low .. (low + MaxSize - 1)
SamplesNear(low, lown) ==
    \A s \in Samples : Near(s.pos, s.scale, low) /\ Near(s.neg, s.scale, lown)
SamplesFit == \E low \in Int, lown \in Int : SamplesNear(low, lown)

IsPlaced(h, low, lown) ==
    /\ h.scale \in 0 .. MaxScale
    /\ InOctaves(h.pos, h.scale, low) /\ InOctaves(h.neg, h.scale, lown)

LEMMA GeneratedPlaced ==
    ASSUME NEW low \in Int, NEW lown \in Int, SamplesNear(low, lown), NEW h \in Generated
    PROVE  IsPlaced(h, low, lown)
<1>1. PICK s \in Samples : /\ h.scale = s.scale
                           /\ h.pos \in randomizeBuckets(s.pos)
                           /\ h.neg \in randomizeBuckets(s.neg)
  BY GeneratedIs
<1>2. s.scale \in 0 .. MaxScale /\ Populated(s.pos) /\ Populated(s.neg)
  BY SamplesAssumption
<1>3. /\ Populated(h.pos) /\ \A j \in DOMAIN h.pos : \E i \in DOMAIN s.pos : j \in i - 1 .. i + 1
      /\ Populated(h.neg) /\ \A j \in DOMAIN h.neg : \E i \in DOMAIN s.neg : j \in i - 1 .. i + 1
  BY <1>1, <1>2, RandomizedFilled
<1>4. InOctaves(h.pos, h.scale, low)
  BY <1>1, <1>3 DEF InOctaves, SamplesNear, Near, Populated
<1>5. InOctaves(h.neg, h.scale, lown)
  BY <1>1, <1>3 DEF InOctaves, SamplesNear, Near, Populated
<1> QED
  BY <1>1, <1>2, <1>4, <1>5 DEF IsPlaced

LEMMA ReplayedInOctaves ==
    ASSUME NEW b, Filled(b), NEW s \in 0 .. MaxScale, NEW low, InOctaves(b, s, low)
    PROVE  InOctaves(Replayed(b, s), MaxScale, low)
<1>1. DOMAIN b \subseteq Int
  BY DEF InOctaves
<1>2. 0 \in 0 .. MaxScale /\ 0 <= s /\ s - 0 = s /\ Width(0) = Pow2[MaxScale]
  BY NumbersAssumption DEF Width
<1> SUFFICES ASSUME NEW p \in DOMAIN Replayed(b, s)
             PROVE  p \in Int /\ p \div Pow2[MaxScale] \in low .. (low + MaxSize - 1)
  BY DEF InOctaves
<1>3. PICK i \in DOMAIN b : p = bucketMidpoint(i, s)
  BY <1>1, ReplayedIs
<1>4. p \in Int /\ p \div Width(0) = i \div Pow2[s - 0]
  BY <1>1, <1>2, <1>3, MidpointPosition, MidpointCoarser
<1> QED
  BY <1>2, <1>4 DEF InOctaves

LEMMA AtScaleInOctaves ==
    ASSUME NEW b, Populated(b), NEW s \in 0 .. MaxScale, NEW low, InOctaves(b, MaxScale, low)
    PROVE  InOctaves(AtScale(b, s), s, low)
<1>1. 0 \in 0 .. MaxScale /\ 0 <= s /\ s - 0 = s /\ Width(0) = Pow2[MaxScale]
  BY NumbersAssumption DEF Width
<1> SUFFICES ASSUME NEW j \in DOMAIN AtScale(b, s)
             PROVE  j \in Int /\ j \div Pow2[s] \in low .. (low + MaxSize - 1)
  BY DEF InOctaves
<1>2. PICK p \in DOMAIN b : p \in Int /\ j = p \div Width(s)
  BY AtScaleIs
<1>3. j \in Int
  BY AtScaleIs DEF Populated
<1>4. (p \div Width(s)) \div Pow2[s - 0] = p \div (Width(s) * Pow2[s - 0])
  BY <1>1, <1>2, Widths, QuotientTwice
<1>5. j \div Pow2[s] = p \div Pow2[MaxScale]
  BY <1>1, <1>2, <1>4, Widths
<1> QED
  BY <1>3, <1>5 DEF InOctaves

(* One side of a merge.                                                      *)
LEMMA JoinedSide ==
    ASSUME NEW a, Filled(a), NEW s \in 0 .. MaxScale, NEW b, Filled(b), NEW t \in 0 .. MaxScale,
           NEW low \in Int, InOctaves(a, s, low), InOctaves(b, t, low)
    PROVE  LET u == Replayed(a, s) (+) Replayed(b, t)
           IN  /\ Populated(u) /\ InOctaves(u, MaxScale, low)
               /\ DOMAIN Replayed(a, s) \subseteq DOMAIN u
               /\ \A p \in DOMAIN Replayed(a, s) : u[p] >= Replayed(a, s)[p]
               /\ \A i \in DOMAIN a : bucketMidpoint(i, s) \in DOMAIN u
               /\ u = EmptyBag => a = EmptyBag
<1> DEFINE ra == Replayed(a, s)
           rb == Replayed(b, t)
<1>1. DOMAIN a \subseteq Int /\ DOMAIN b \subseteq Int
  BY DEF InOctaves
<1>2. /\ Filled(ra) /\ Filled(rb) /\ (ra = EmptyBag <=> a = EmptyBag)
      /\ \A i \in DOMAIN a : bucketMidpoint(i, s) \in DOMAIN ra
  BY <1>1, ReplayedIs
<1>3. InOctaves(ra, MaxScale, low) /\ InOctaves(rb, MaxScale, low)
  BY ReplayedInOctaves
<1> HIDE DEF ra, rb
<1>4. /\ Filled(ra (+) rb) /\ DOMAIN (ra (+) rb) = DOMAIN ra \cup DOMAIN rb
      /\ \A p \in DOMAIN ra : (ra (+) rb)[p] >= ra[p]
      /\ ra (+) rb = EmptyBag <=> ra = EmptyBag /\ rb = EmptyBag
  <2>1. Filled(ra) /\ Filled(rb)
    BY <1>2
  <2> QED
    BY <2>1, UnionFilled
<1>5. InOctaves(ra (+) rb, MaxScale, low)
  BY <1>3, <1>4 DEF InOctaves
<1>6. Populated(ra (+) rb)
  BY <1>4, <1>5, PopulatedFilled DEF InOctaves
<1> QED
  BY <1>2, <1>4, <1>5, <1>6 DEF ra, rb

(* No finer scale would do for the buckets of h, as far as they show.        *)
AtFinest(h) == NoBuckets(h) \/ h.scale = MaxScale \/ Wide(h.pos) \/ Wide(h.neg)

LEMMA MergedPlaced ==
    ASSUME NEW low \in Int, NEW lown \in Int,
           NEW h, IsExponential(h), IsPlaced(h, low, lown),
           NEW d, IsExponential(d), IsPlaced(d, low, lown)
    PROVE  LET m == MergeInto(h, d)
           IN  /\ IsPlaced(m, low, lown) /\ AtFinest(m)
               /\ AtFinest(h) /\ ~NoBuckets(h) => m.scale <= h.scale + 1
               /\ m.scale <= h.scale =>
                    /\ Inside(h.pos, h.scale, m.pos, m.scale)
                    /\ Inside(h.neg, h.scale, m.neg, m.scale)
               /\ \A c \in 0 .. MaxScale : c <= h.scale /\ c <= m.scale =>
                    /\ Inside(h.pos, h.scale, Coarser(m.pos, m.scale, c), c)
                    /\ Inside(h.neg, h.scale, Coarser(m.neg, m.scale, c), c)
<1> DEFINE m == MergeInto(h, d)
           pos == Replayed(h.pos, h.scale) (+) Replayed(d.pos, d.scale)
           neg == Replayed(h.neg, h.scale) (+) Replayed(d.neg, d.scale)
           s == FinestScale(pos, neg)
<1>1. /\ h.scale \in 0 .. MaxScale /\ d.scale \in 0 .. MaxScale
      /\ Filled(h.pos) /\ Filled(h.neg) /\ Filled(d.pos) /\ Filled(d.neg)
      /\ InOctaves(h.pos, h.scale, low) /\ InOctaves(d.pos, d.scale, low)
      /\ InOctaves(h.neg, h.scale, lown) /\ InOctaves(d.neg, d.scale, lown)
  BY DEF IsExponential, IsPlaced
<1>2. /\ Populated(pos) /\ InOctaves(pos, MaxScale, low)
      /\ DOMAIN Replayed(h.pos, h.scale) \subseteq DOMAIN pos
      /\ \A p \in DOMAIN Replayed(h.pos, h.scale) : pos[p] >= Replayed(h.pos, h.scale)[p]
      /\ \A i \in DOMAIN h.pos : bucketMidpoint(i, h.scale) \in DOMAIN pos
      /\ pos = EmptyBag => h.pos = EmptyBag
  BY <1>1, JoinedSide
<1>3. /\ Populated(neg) /\ InOctaves(neg, MaxScale, lown)
      /\ DOMAIN Replayed(h.neg, h.scale) \subseteq DOMAIN neg
      /\ \A p \in DOMAIN Replayed(h.neg, h.scale) : neg[p] >= Replayed(h.neg, h.scale)[p]
      /\ \A i \in DOMAIN h.neg : bucketMidpoint(i, h.scale) \in DOMAIN neg
      /\ neg = EmptyBag => h.neg = EmptyBag
  BY <1>1, JoinedSide
<1>4. m.scale = s /\ m.pos = AtScale(pos, s) /\ m.neg = AtScale(neg, s)
  BY DEF MergeInto
<1>5. Filled(pos) /\ Filled(neg)
  BY <1>2, <1>3, PopulatedFilled
<1> HIDE DEF m, pos, neg
<1>6. /\ s \in 0 .. MaxScale
      /\ pos # EmptyBag \/ neg # EmptyBag =>
           /\ Fits(pos, s) /\ Fits(neg, s)
           /\ \A t \in s + 1 .. MaxScale : ~(Fits(pos, t) /\ Fits(neg, t))
  BY <1>2, <1>3, <1>5, FinestIs
<1> HIDE DEF s
<1>7. IsPlaced(m, low, lown)
  BY <1>2, <1>3, <1>4, <1>6, AtScaleInOctaves DEF IsPlaced
<1>8. AtFinest(m)
  <2>1. CASE pos = EmptyBag /\ neg = EmptyBag
    <3>1. m.pos = EmptyBag /\ m.neg = EmptyBag
      BY <1>2, <1>3, <1>4, <1>6, <2>1, AtScaleIs
    <3> QED
      BY <3>1 DEF AtFinest, NoBuckets
  <2>2. CASE ~(pos = EmptyBag /\ neg = EmptyBag) /\ s # MaxScale
    <3>1. s + 1 \in s + 1 .. MaxScale
      BY <1>6, <2>2, NumbersAssumption
    <3>2. ~Fits(pos, s + 1) \/ ~Fits(neg, s + 1)
      BY <1>6, <2>2, <3>1
    <3>3. Wide(m.pos) \/ Wide(m.neg)
      BY <1>2, <1>3, <1>4, <1>6, <2>2, <3>2, FinestIsWide
    <3> QED
      BY <3>3 DEF AtFinest
  <2> QED
    BY <1>4, <2>1, <2>2 DEF AtFinest
<1>9. ASSUME AtFinest(h), ~NoBuckets(h)
      PROVE  m.scale <= h.scale + 1
  <2>1. SUFFICES ASSUME h.scale + 1 < s PROVE FALSE
    BY <1>1, <1>4, <1>6
  <2>2. Fits(pos, s) /\ Fits(neg, s)
    BY <1>2, <1>3, <1>6, <1>9 DEF NoBuckets
  <2>3. Wide(h.pos) \/ Wide(h.neg)
    BY <1>1, <1>6, <1>9, <2>1, NumbersAssumption DEF AtFinest
  <2>4. DOMAIN h.pos \subseteq Int /\ DOMAIN h.neg \subseteq Int
    BY <1>1 DEF InOctaves
  <2> QED
    BY <1>1, <1>2, <1>3, <1>6, <2>1, <2>2, <2>3, <2>4, WideFitsNoFiner
<1>10. ASSUME NEW c \in 0 .. MaxScale, c <= h.scale
       PROVE  /\ Inside(h.pos, h.scale, AtScale(pos, c), c)
              /\ Inside(h.neg, h.scale, AtScale(neg, c), c)
  <2>1. DOMAIN h.pos \subseteq Int /\ DOMAIN h.neg \subseteq Int
    BY <1>1 DEF InOctaves
  <2>2. Inside(h.pos, h.scale, AtScale(pos, c), c)
    BY <1>1, <1>2, <1>10, <2>1, BucketsKept
  <2>3. Inside(h.neg, h.scale, AtScale(neg, c), c)
    BY <1>1, <1>3, <1>10, <2>1, BucketsKept
  <2> QED
    BY <2>2, <2>3
<1>11. ASSUME NEW c \in 0 .. MaxScale, c <= h.scale, c <= m.scale
       PROVE  /\ Inside(h.pos, h.scale, Coarser(m.pos, m.scale, c), c)
              /\ Inside(h.neg, h.scale, Coarser(m.neg, m.scale, c), c)
  <2>1. c <= s
    BY <1>4, <1>11
  <2>2. /\ Coarser(AtScale(pos, s), s, c) = AtScale(pos, c)
        /\ Coarser(AtScale(neg, s), s, c) = AtScale(neg, c)
    BY <1>2, <1>3, <1>6, <2>1, CoarserAgain
  <2> QED
    BY <1>4, <1>10, <1>11, <2>2
<1>12. ASSUME m.scale <= h.scale
       PROVE  /\ Inside(h.pos, h.scale, m.pos, m.scale)
              /\ Inside(h.neg, h.scale, m.neg, m.scale)
  BY <1>4, <1>6, <1>10, <1>12
<1> QED
  BY <1>7, <1>8, <1>9, <1>11, <1>12 DEF m

(* Every data point of an exponential histogram lies in these octaves, and a  *)
(* merged one is at the finest scale.                                        *)
PlacesInv ==
    \E low \in Int, lown \in Int :
        /\ SamplesNear(low, lown)
        /\ kind # "explicit" => IsPlaced(template, low, lown)
        /\ kind = "cumulative" /\ intervals > 0 => AtFinest(template)

LEMMA PlacesStep ==
    ASSUME CountsInv, PlacesInv, [Next]_vars
    PROVE  PlacesInv'
<1>1. PICK low \in Int, lown \in Int :
          /\ SamplesNear(low, lown)
          /\ kind # "explicit" => IsPlaced(template, low, lown)
          /\ kind = "cumulative" /\ intervals > 0 => AtFinest(template)
  BY DEF PlacesInv
<1> SUFFICES /\ kind' # "explicit" => IsPlaced(template', low, lown)
             /\ kind' = "cumulative" /\ intervals' > 0 => AtFinest(template')
  BY <1>1 DEF PlacesInv
<1>2. CASE Construct
  <2>1. template' \in Generated /\ intervals' = 0
    BY <1>2 DEF Construct, CountsInv
  <2> QED
    BY <1>1, <2>1, GeneratedPlaced
<1>3. CASE AdvanceDataPoint
  <2>1. CASE kind = "explicit"
    BY <1>3, <2>1 DEF AdvanceDataPoint
  <2>2. CASE kind = "delta"
    BY <1>1, <1>3, <2>2, GeneratedPlaced DEF AdvanceDataPoint
  <2>3. CASE kind = "cumulative"
    <3>1. PICK d \in Generated : template' = MergeInto(template, d)
      BY <1>3, <2>3 DEF AdvanceDataPoint
    <3>2. /\ IsExponential(template) /\ IsPlaced(template, low, lown)
          /\ IsExponential(d) /\ IsPlaced(d, low, lown)
      BY <1>1, <2>3, GeneratedIs, GeneratedPlaced DEF CountsInv
    <3> QED
      BY <3>1, <3>2, MergedPlaced
  <2> QED
    BY <1>3, <2>1, <2>2, <2>3 DEF AdvanceDataPoint
<1>4. CASE EmitForInstance
  BY <1>1, <1>4 DEF EmitForInstance
<1>5. CASE UNCHANGED vars
  BY <1>1, <1>5 DEF vars
<1> QED
  BY <1>2, <1>3, <1>4, <1>5 DEF Next, Ended

LEMMA PlacesInit == ASSUME SamplesFit PROVE Init => PlacesInv
<1> SUFFICES ASSUME Init PROVE PlacesInv
  OBVIOUS
<1>1. PICK low \in Int, lown \in Int : SamplesNear(low, lown)
  BY DEF SamplesFit
<1>2. ASSUME kind # "explicit" PROVE IsPlaced(template, low, lown)
  <2>1. template = Histogram(EmptyBag)
    BY <1>2 DEF Init
  <2>2. template.scale = 0 /\ template.pos = EmptyBag /\ template.neg = EmptyBag
    BY <2>1 DEF Histogram
  <2> QED
    BY <2>2, EmptyIsEmpty, NumbersAssumption DEF IsPlaced, InOctaves
<1>3. intervals = 0
  BY DEF Init
<1> QED
  BY <1>1, <1>2, <1>3 DEF PlacesInv

LEMMA PlacesAlways == ASSUME SamplesFit PROVE Spec => []PlacesInv
<1>1. CountsInv /\ PlacesInv /\ [Next]_vars => PlacesInv'
  BY PlacesStep
<1> QED
  BY <1>1, PlacesInit, CountsAlways, PTL DEF Spec

(* Wherever the midpoints fall, a merge leaves every observation in its       *)
(* bucket and raises the scale by one at the most: two scales finer they      *)
(* would not fit.                                                            *)
THEOREM MergesInPlace == ASSUME SamplesFit PROVE Spec => BucketsStayInPlace
<1>1. ASSUME CountsInv, PlacesInv, [Next]_vars,
             kind = "cumulative", intervals > 0, phase = "advance", intervals' # intervals
      PROVE  /\ template.pos # EmptyBag \/ template.neg # EmptyBag =>
                   template'.scale <= template.scale + 1
             /\ LET common == IF template.scale < template'.scale
                              THEN template.scale ELSE template'.scale
                IN  \A side \in {"pos", "neg"} :
                        Inside(template[side], template.scale,
                               Coarser(template'[side], template'.scale, common), common)
  <2>1. PICK low \in Int, lown \in Int : /\ SamplesNear(low, lown)
                                         /\ IsPlaced(template, low, lown) /\ AtFinest(template)
    BY <1>1 DEF PlacesInv
  <2>2. AdvanceDataPoint
    BY <1>1 DEF Next, Construct, EmitForInstance, Ended, vars
  <2>3. PICK d \in Generated : template' = MergeInto(template, d)
    BY <1>1, <2>2 DEF AdvanceDataPoint
  <2>4. IsExponential(template) /\ IsExponential(d) /\ IsPlaced(d, low, lown)
    BY <1>1, <2>1, GeneratedIs, GeneratedPlaced DEF CountsInv
  <2>5. /\ IsPlaced(template', low, lown)
        /\ ~NoBuckets(template) => template'.scale <= template.scale + 1
        /\ \A c \in 0 .. MaxScale : c <= template.scale /\ c <= template'.scale =>
              /\ Inside(template.pos, template.scale, Coarser(template'.pos, template'.scale, c), c)
              /\ Inside(template.neg, template.scale, Coarser(template'.neg, template'.scale, c), c)
    BY <2>1, <2>3, <2>4, MergedPlaced
  <2> DEFINE common == IF template.scale < template'.scale
                       THEN template.scale ELSE template'.scale
  <2>6. common \in 0 .. MaxScale /\ common <= template.scale /\ common <= template'.scale
    BY <2>1, <2>5 DEF IsPlaced
  <2> HIDE DEF common
  <2>7. ASSUME NEW side \in {"pos", "neg"}
        PROVE  Inside(template[side], template.scale,
                      Coarser(template'[side], template'.scale, common), common)
    <3>1. CASE side = "pos"
      BY <2>5, <2>6, <3>1
    <3>2. CASE side = "neg"
      BY <2>5, <2>6, <3>2
    <3> QED
      BY <3>1, <3>2
  <2> QED
    BY <2>5, <2>7 DEF common, NoBuckets
<1>2. CountsInv /\ PlacesInv /\ [Next]_vars =>
          (kind = "cumulative" /\ intervals > 0 /\ phase = "advance" /\ intervals' # intervals =>
             /\ template.pos # EmptyBag \/ template.neg # EmptyBag =>
                   template'.scale <= template.scale + 1
             /\ LET common == IF template.scale < template'.scale
                              THEN template.scale ELSE template'.scale
                IN  \A side \in {"pos", "neg"} :
                    LET before == Coarser(template[side], template.scale, common)
                        after == Coarser(template'[side], template'.scale, common)
                    IN  \A i \in DOMAIN before : i \in DOMAIN after /\ after[i] >= before[i])
  BY <1>1 DEF Inside
<1> QED
  BY <1>2, CountsAlways, PlacesAlways, PTL DEF Spec, BucketsStayInPlace

-----------------------------------------------------------------------------
(* What an instance emits                                                    *)

(* The hash of a bucket's index is a factor for every index there is.        *)
FactorsEverywhere ==
    \A n \in Instances : n.pos \in [Int -> Nat] /\ n.neg \in [Int -> Nat]

(* Every bucket of a has at least as large a count in c.                     *)
Contained(a, c) == DOMAIN a \subseteq DOMAIN c /\ \A i \in DOMAIN a : a[i] <= c[i]

LEMMA VariedFilled ==
    ASSUME NEW b, Populated(b), NEW factor \in [Int -> Nat]
    PROVE  LET v == varyBucketCounts(b, factor)
           IN  Filled(v) /\ DOMAIN v = DOMAIN b /\ (v = EmptyBag <=> b = EmptyBag)
<1> DEFINE v == varyBucketCounts(b, factor)
           c(i) == (b[i] * factor[i] + 5) \div 10
<1>1. \A i \in DOMAIN b : c(i) \in Int
  <2> SUFFICES ASSUME NEW i \in DOMAIN b PROVE c(i) \in Int
    OBVIOUS
  <2>1. b[i] \in Nat /\ factor[i] \in Nat
    BY DEF Populated
  <2>2. b[i] * factor[i] + 5 \in Int
    BY <2>1
  <2> QED
    BY <2>2, DivModSum
<1>2. v = [i \in DOMAIN b |-> IF c(i) < 1 THEN 1 ELSE c(i)]
  BY DEF varyBucketCounts
<1> HIDE DEF v, c
<1>3. \A i \in DOMAIN b : v[i] \in Nat \ {0}
  BY <1>1, <1>2
<1>4. DOMAIN v = DOMAIN b /\ v = [i \in DOMAIN b |-> v[i]]
  BY <1>2
<1>5. Filled(v)
  BY <1>3, <1>4 DEF Filled, Populated
<1>6. Filled(b)
  BY PopulatedFilled
<1> QED
  BY <1>4, <1>5, <1>6, EmptyCounts DEF v

(* The factor of a bucket is the same for a larger count.                    *)
LEMMA VariedGrows ==
    ASSUME NEW a, Populated(a), NEW b, Populated(b), Contained(a, b),
           NEW factor \in [Int -> Nat]
    PROVE  /\ Contained(varyBucketCounts(a, factor), varyBucketCounts(b, factor))
           /\ SumFunction(varyBucketCounts(a, factor)) <= SumFunction(varyBucketCounts(b, factor))
<1> DEFINE va == varyBucketCounts(a, factor)
           vb == varyBucketCounts(b, factor)
<1>1. Filled(va) /\ DOMAIN va = DOMAIN a /\ Filled(vb) /\ DOMAIN vb = DOMAIN b
  BY VariedFilled
<1>2. ASSUME NEW i \in DOMAIN a
      PROVE  va[i] <= vb[i]
  <2>1. i \in DOMAIN b /\ a[i] \in Nat /\ b[i] \in Nat /\ a[i] <= b[i] /\ factor[i] \in Nat
    BY DEF Contained, Populated
  <2>2. PICK f \in Nat, x \in Nat, d \in Nat : f = factor[i] /\ x = a[i] /\ b[i] = x + d
    BY <2>1
  <2>3. PICK xf \in Nat, df \in Nat : xf = x * f /\ df = d * f
    BY <2>2
  <2>4. a[i] * factor[i] = xf /\ b[i] * factor[i] = xf + df
    BY <2>2, <2>3
  <2>5. (xf + 5) \div 10 <= (xf + df + 5) \div 10
    BY <2>3, QuotientMonotone
  <2>6. (xf + 5) \div 10 \in Int /\ (xf + df + 5) \div 10 \in Int
    BY <2>3, DivModSum
  <2>7. /\ va[i] = IF (xf + 5) \div 10 < 1 THEN 1 ELSE (xf + 5) \div 10
        /\ vb[i] = IF (xf + df + 5) \div 10 < 1 THEN 1 ELSE (xf + df + 5) \div 10
    BY <2>1, <2>4 DEF varyBucketCounts
  <2> QED
    BY <2>5, <2>6, <2>7
<1> HIDE DEF va, vb
<1>3. Contained(va, vb)
  BY <1>1, <1>2 DEF Contained
<1>4. SumFunctionOnSet(va, DOMAIN va) <= SumFunctionOnSet(vb, DOMAIN vb)
  <2>1. DOMAIN va \subseteq DOMAIN vb /\ \A p \in DOMAIN va : vb[p] >= va[p]
    <3>1. \A p \in DOMAIN va : va[p] \in Nat /\ vb[p] \in Nat /\ va[p] <= vb[p]
      BY <1>1, <1>3 DEF Contained, Filled
    <3> QED
      BY <1>3, <3>1 DEF Contained
  <2>2. DOMAIN va \in SUBSET DOMAIN va /\ DOMAIN vb \in SUBSET DOMAIN vb
    OBVIOUS
  <2> QED
    BY <1>1, <2>1, <2>2, GroupGrows
<1> QED
  BY <1>3, <1>4 DEF SumFunction, va, vb

LEMMA PlacedPopulated ==
    ASSUME NEW h, IsExponential(h), NEW low, NEW lown, IsPlaced(h, low, lown)
    PROVE  Populated(h.pos) /\ Populated(h.neg) /\ h.scale \in 0 .. MaxScale
  BY PopulatedFilled DEF IsExponential, IsPlaced, InOctaves

(* At an unchanged scale a merge keeps every bucket.                         *)
LEMMA MergedContains ==
    ASSUME NEW low \in Int, NEW lown \in Int,
           NEW h, IsExponential(h), IsPlaced(h, low, lown),
           NEW d, IsExponential(d), IsPlaced(d, low, lown),
           NEW m, m = MergeInto(h, d), m.scale = h.scale
    PROVE  Contained(h.pos, m.pos) /\ Contained(h.neg, m.neg) /\ h.zero <= m.zero
<1>1. Populated(h.pos) /\ Populated(h.neg) /\ h.scale \in 0 .. MaxScale
  BY PlacedPopulated
<1>2. IsPlaced(m, low, lown) /\ IsExponential(m) /\ m.zero = h.zero + d.zero
  BY MergedPlaced, MergedTotals
<1>3. Inside(h.pos, h.scale, m.pos, h.scale) /\ Inside(h.neg, h.scale, m.neg, h.scale)
  <2>1. m.scale <= h.scale
    BY <1>1
  <2> QED
    BY <2>1, MergedPlaced
<1>4. Filled(m.pos) /\ Filled(m.neg)
  BY <1>2 DEF IsExponential
<1>5. ASSUME NEW b, Populated(b), NEW c, Filled(c), Inside(b, h.scale, c, h.scale)
      PROVE  Contained(b, c)
  <2> DEFINE g == [i \in DOMAIN b |-> i \div Pow2[h.scale - h.scale]]
             before == Coarser(b, h.scale, h.scale)
  <2>0. before = Regrouped(b, g)
    BY DEF Coarser
  <2>1. Pow2[h.scale - h.scale] = 1
    BY <1>1, Pow2Positive
  <2>2. \A i \in DOMAIN b : g[i] = i
    <3> SUFFICES ASSUME NEW i \in DOMAIN b PROVE i \div 1 = i
      BY <2>1
    <3>1. i \in Int
      BY <1>5 DEF Populated
    <3>2. (i * 1 + 0) \div 1 = i
      BY <3>1, QuotientIs
    <3> QED
      BY <3>1, <3>2
  <2>3. \A i \in DOMAIN before : i \in DOMAIN c /\ c[i] >= before[i]
    BY <1>5 DEF Inside
  <2>4. DOMAIN g = DOMAIN b
    OBVIOUS
  <2>5. Filled(b)
    BY <1>5, PopulatedFilled
  <2> HIDE DEF g, before
  <2>6. /\ Filled(before) /\ DOMAIN before = Range(g)
        /\ \A i \in DOMAIN b : g[i] \in Range(g) /\ before[g[i]] >= b[i]
    BY <2>0, <2>4, <2>5, RegroupedFilled
  <2>7. ASSUME NEW i \in DOMAIN b
        PROVE  i \in DOMAIN c /\ b[i] <= c[i]
    <3>1. i \in DOMAIN before /\ before[i] >= b[i]
      BY <2>2, <2>6
    <3>2. i \in DOMAIN c /\ c[i] >= before[i]
      BY <2>3, <3>1
    <3>3. b[i] \in Nat /\ c[i] \in Nat /\ before[i] \in Nat
      BY <1>5, <2>5, <2>6, <3>1, <3>2 DEF Filled
    <3> QED
      BY <3>1, <3>2, <3>3
  <2> QED
    BY <2>7 DEF Contained
<1>6. h.zero <= m.zero
  BY <1>2 DEF IsExponential
<1> QED
  BY <1>1, <1>3, <1>4, <1>5, <1>6

(* The emission varies the data point of the template: the current one after  *)
(* an emission, and the one before the merge until the next.                  *)
EmissionInv ==
    /\ instance \in Instances
    /\ kind # "explicit" /\ intervals > 0 /\ phase = "advance" =>
         emitted = ApplyExponentialHistogramVariation(template, instance)
    /\ kind = "cumulative" /\ intervals > 1 /\ phase = "emit" =>
         \E h : /\ IsExponential(h) /\ Populated(h.pos) /\ Populated(h.neg)
                /\ emitted = ApplyExponentialHistogramVariation(h, instance)
                /\ template.scale = h.scale =>
                     /\ Contained(h.pos, template.pos) /\ Contained(h.neg, template.neg)
                     /\ h.zero <= template.zero

LEMMA EmissionStep ==
    ASSUME CountsInv, PlacesInv, EmissionInv, [Next]_vars
    PROVE  EmissionInv'
<1> USE DEF EmissionInv
<1>1. CASE Construct
  BY <1>1 DEF Construct, CountsInv
<1>2. CASE AdvanceDataPoint
  <2>1. /\ phase = "advance" /\ phase' = "emit" /\ intervals \in Nat
        /\ intervals' = intervals + 1 /\ UNCHANGED <<kind, instance, emitted>>
    BY <1>2 DEF AdvanceDataPoint, CountsInv
  <2> SUFFICES ASSUME kind = "cumulative", intervals > 0
               PROVE  \E h :
                        /\ IsExponential(h) /\ Populated(h.pos) /\ Populated(h.neg)
                        /\ emitted = ApplyExponentialHistogramVariation(h, instance)
                        /\ template'.scale = h.scale =>
                             /\ Contained(h.pos, template'.pos) /\ Contained(h.neg, template'.neg)
                             /\ h.zero <= template'.zero
    BY <2>1
  <2>2. PICK low \in Int, lown \in Int :
            SamplesNear(low, lown) /\ IsPlaced(template, low, lown)
    BY DEF PlacesInv
  <2>3. PICK d \in Generated : template' = MergeInto(template, d)
    BY <1>2 DEF AdvanceDataPoint
  <2>4. IsExponential(template) /\ IsExponential(d) /\ IsPlaced(d, low, lown)
    BY <2>2, GeneratedIs, GeneratedPlaced DEF CountsInv
  <2>5. Populated(template.pos) /\ Populated(template.neg)
    BY <2>2, <2>4, PlacedPopulated
  <2>6. emitted = ApplyExponentialHistogramVariation(template, instance)
    BY <2>1
  <2>7. template'.scale = template.scale =>
            /\ Contained(template.pos, template'.pos) /\ Contained(template.neg, template'.neg)
            /\ template.zero <= template'.zero
    BY <2>2, <2>3, <2>4, MergedContains
  <2> QED
    BY <2>4, <2>5, <2>6, <2>7
<1>3. CASE EmitForInstance
  BY <1>3 DEF EmitForInstance, ApplyExponentialHistogramVariation
<1>4. CASE UNCHANGED vars
  BY <1>4 DEF vars, ApplyExponentialHistogramVariation
<1> QED
  BY <1>1, <1>2, <1>3, <1>4 DEF Next, Ended

LEMMA EmissionAlways == ASSUME SamplesFit PROVE Spec => []EmissionInv
<1>1. Init => EmissionInv
  BY DEF Init, EmissionInv
<1>2. CountsInv /\ PlacesInv /\ EmissionInv /\ [Next]_vars => EmissionInv'
  BY EmissionStep
<1> QED
  BY <1>1, <1>2, CountsAlways, PlacesAlways, PTL DEF Spec

(* The samples that are loaded have something in them.                       *)
SamplesNotEmpty ==
    \A s \in Samples : s.pos # EmptyBag \/ s.neg # EmptyBag \/ s.zero > 0

FullInv == kind # "explicit" /\ phase # "construct" => ~NoBuckets(template) \/ template.zero > 0

LEMMA FullStep ==
    ASSUME SamplesNotEmpty, CountsInv, FullInv, [Next]_vars
    PROVE  FullInv'
<1> USE DEF FullInv
<1>g. ASSUME NEW h \in Generated
      PROVE  ~NoBuckets(h) \/ h.zero > 0
  <2>1. PICK s \in Samples : /\ h.zero = s.zero /\ h.pos \in randomizeBuckets(s.pos)
                             /\ h.neg \in randomizeBuckets(s.neg)
    BY GeneratedIs
  <2>2. Populated(s.pos) /\ Populated(s.neg)
    BY SamplesAssumption
  <2>3. (h.pos = EmptyBag <=> s.pos = EmptyBag) /\ (h.neg = EmptyBag <=> s.neg = EmptyBag)
    BY <2>1, <2>2, RandomizedFilled
  <2> QED
    BY <2>1, <2>3 DEF SamplesNotEmpty, NoBuckets
<1>1. CASE Construct
  BY <1>1, <1>g DEF Construct
<1>2. CASE AdvanceDataPoint
  <2>1. CASE kind = "explicit"
    BY <1>2, <2>1 DEF AdvanceDataPoint
  <2>2. CASE kind = "delta"
    BY <1>2, <1>g, <2>2 DEF AdvanceDataPoint
  <2>3. CASE kind = "cumulative"
    <3>1. PICK d \in Generated : template' = MergeInto(template, d)
      BY <1>2, <2>3 DEF AdvanceDataPoint
    <3>2. IsExponential(template) /\ IsExponential(d)
      BY <2>3, GeneratedIs DEF CountsInv
    <3>3. /\ NoBuckets(template') <=> NoBuckets(template) /\ NoBuckets(d)
          /\ template'.zero = template.zero + d.zero
      BY <3>1, <3>2, MergedTotals
    <3>4. template.zero \in Nat /\ d.zero \in Nat
      BY <3>2 DEF IsExponential
    <3>5. ~NoBuckets(d) \/ d.zero > 0
      BY <1>g
    <3> QED
      BY <3>3, <3>4, <3>5
  <2> QED
    BY <1>2, <2>1, <2>2, <2>3 DEF AdvanceDataPoint
<1>3. CASE EmitForInstance
  BY <1>3 DEF EmitForInstance
<1>4. CASE UNCHANGED vars
  BY <1>4 DEF vars
<1> QED
  BY <1>1, <1>2, <1>3, <1>4 DEF Next, Ended

(* No emission of a histogram is empty: each try at shaking and each factor   *)
(* leaves something of what the sample had.                                  *)
THEOREM EmissionsNotEmpty ==
    ASSUME SamplesFit, SamplesNotEmpty, FactorsEverywhere
    PROVE  Spec => []NeverEmpty
<1>1. Init => FullInv
  BY DEF Init, FullInv
<1>2. CountsInv /\ FullInv /\ [Next]_vars => FullInv'
  BY FullStep
<1>3. ASSUME CountsInv, PlacesInv, EmissionInv, FullInv
      PROVE  NeverEmpty
  <2> SUFFICES ASSUME kind # "explicit", intervals > 0, phase = "advance"
               PROVE  emitted.count > 0
    BY DEF NeverEmpty
  <2>1. /\ emitted = ApplyExponentialHistogramVariation(template, instance) /\ IsExponential(template)
        /\ ~NoBuckets(template) \/ template.zero > 0
    BY <1>3 DEF EmissionInv, CountsInv, FullInv
  <2>2. PICK low \in Int, lown \in Int : IsPlaced(template, low, lown)
    BY <1>3 DEF PlacesInv
  <2> DEFINE pos == varyBucketCounts(template.pos, instance.pos)
             neg == varyBucketCounts(template.neg, instance.neg)
  <2>3. Populated(template.pos) /\ Populated(template.neg)
    BY <2>1, <2>2, PlacedPopulated
  <2>4. instance.pos \in [Int -> Nat] /\ instance.neg \in [Int -> Nat]
    BY <1>3 DEF EmissionInv, FactorsEverywhere
  <2>5. /\ Filled(pos) /\ (pos = EmptyBag <=> template.pos = EmptyBag)
        /\ Filled(neg) /\ (neg = EmptyBag <=> template.neg = EmptyBag)
    BY <2>3, <2>4, VariedFilled
  <2>6. emitted.count = SumFunction(pos) + SumFunction(neg) + template.zero
    BY <2>1, EmittedIs DEF Total, InBuckets
  <2> HIDE DEF pos, neg
  <2>7. /\ SumFunction(pos) \in Nat /\ SumFunction(neg) \in Nat /\ template.zero \in Nat
        /\ pos = EmptyBag <=> SumFunction(pos) = 0
        /\ neg = EmptyBag <=> SumFunction(neg) = 0
    BY <2>1, <2>5, FilledCounted, EmptyCounts DEF IsExponential
  <2> QED
    BY <2>1, <2>5, <2>6, <2>7 DEF NoBuckets
<1> QED
  BY <1>1, <1>2, <1>3, CountsAlways, PlacesAlways, EmissionAlways, PTL DEF Spec

(* As long as the scale stays, no count and no bucket of a cumulative         *)
(* histogram decreases for an instance, whatever the factors are.            *)
THEOREM CountsNeverShrink ==
    ASSUME SamplesFit, FactorsEverywhere
    PROVE  Spec => CountsGrowAtScale
<1>1. ASSUME CountsInv, PlacesInv, EmissionInv, [Next]_vars,
             kind = "cumulative", intervals > 1, phase = "emit",
             emitted.scale = template.scale
      PROVE  /\ emitted'.count >= emitted.count
             /\ \A i \in DOMAIN emitted.pos : emitted'.pos[i] >= emitted.pos[i]
             /\ \A i \in DOMAIN emitted.neg : emitted'.neg[i] >= emitted.neg[i]
  <2>1. CASE UNCHANGED vars
    <3>1. emitted' = emitted
      BY <2>1 DEF vars
    <3>2. PICK h : /\ IsExponential(h) /\ Populated(h.pos) /\ Populated(h.neg)
                   /\ emitted = ApplyExponentialHistogramVariation(h, instance)
      BY <1>1 DEF EmissionInv
    <3>3. instance.pos \in [Int -> Nat] /\ instance.neg \in [Int -> Nat]
      BY <1>1 DEF EmissionInv, FactorsEverywhere
    <3>4. Filled(emitted.pos) /\ Filled(emitted.neg)
      BY <3>2, <3>3, EmittedIs, VariedFilled
    <3>5. emitted.count = SumFunction(emitted.pos) + SumFunction(emitted.neg) + h.zero
      BY <3>2, EmittedIs DEF Total, InBuckets
    <3>6. emitted.count \in Nat
      BY <3>2, <3>4, <3>5, FilledCounted DEF IsExponential
    <3> QED
      BY <3>1, <3>4, <3>6 DEF Filled
  <2>2. CASE EmitForInstance
    <3>1. emitted' = ApplyExponentialHistogramVariation(template, instance) /\ IsExponential(template)
      BY <1>1, <2>2 DEF EmitForInstance, CountsInv
    <3>2. PICK h : /\ IsExponential(h) /\ Populated(h.pos) /\ Populated(h.neg)
                   /\ emitted = ApplyExponentialHistogramVariation(h, instance)
                   /\ template.scale = h.scale =>
                        /\ Contained(h.pos, template.pos) /\ Contained(h.neg, template.neg)
                        /\ h.zero <= template.zero
      BY <1>1 DEF EmissionInv
    <3>3. PICK low \in Int, lown \in Int : IsPlaced(template, low, lown)
      BY <1>1 DEF PlacesInv
    <3>4. Populated(template.pos) /\ Populated(template.neg)
      BY <3>1, <3>3, PlacedPopulated
    <3>5. instance.pos \in [Int -> Nat] /\ instance.neg \in [Int -> Nat]
      BY <1>1 DEF EmissionInv, FactorsEverywhere
    <3>6. /\ emitted.scale = h.scale /\ emitted.zero = h.zero /\ emitted.count = Total(emitted)
          /\ emitted.pos = varyBucketCounts(h.pos, instance.pos)
          /\ emitted.neg = varyBucketCounts(h.neg, instance.neg)
      BY <3>2, EmittedIs
    <3>7. /\ emitted'.zero = template.zero /\ emitted'.count = Total(emitted')
          /\ emitted'.pos = varyBucketCounts(template.pos, instance.pos)
          /\ emitted'.neg = varyBucketCounts(template.neg, instance.neg)
      BY <3>1, EmittedIs
    <3>8. /\ Contained(h.pos, template.pos) /\ Contained(h.neg, template.neg)
          /\ h.zero <= template.zero /\ h.zero \in Nat /\ template.zero \in Nat
      BY <1>1, <3>1, <3>2, <3>6 DEF IsExponential
    <3>9. /\ Contained(emitted.pos, emitted'.pos) /\ Contained(emitted.neg, emitted'.neg)
          /\ SumFunction(emitted.pos) <= SumFunction(emitted'.pos)
          /\ SumFunction(emitted.neg) <= SumFunction(emitted'.neg)
      BY <3>2, <3>4, <3>5, <3>6, <3>7, <3>8, VariedGrows
    <3>10. Filled(emitted.pos) /\ Filled(emitted.neg) /\ Filled(emitted'.pos) /\ Filled(emitted'.neg)
      BY <3>2, <3>4, <3>5, <3>6, <3>7, VariedFilled
    <3>11. /\ SumFunction(emitted.pos) \in Nat /\ SumFunction(emitted'.pos) \in Nat
           /\ SumFunction(emitted.neg) \in Nat /\ SumFunction(emitted'.neg) \in Nat
      BY <3>10, FilledCounted
    <3>12. emitted'.count >= emitted.count
      BY <3>6, <3>7, <3>8, <3>9, <3>11 DEF Total, InBuckets
    <3>13. ASSUME NEW a, Filled(a), NEW b, Filled(b), Contained(a, b)
           PROVE  \A i \in DOMAIN a : b[i] >= a[i]
      <4>1. \A i \in DOMAIN a : a[i] \in Nat /\ b[i] \in Nat /\ a[i] <= b[i]
        BY <3>13 DEF Filled, Contained
      <4> QED
        BY <4>1
    <3> QED
      BY <3>9, <3>10, <3>12, <3>13
  <2> QED
    BY <1>1, <2>1, <2>2 DEF Next, Construct, AdvanceDataPoint, Ended
<1>2. CountsInv /\ PlacesInv /\ EmissionInv /\ [Next]_vars =>
          (kind = "cumulative" /\ intervals > 1 /\ phase = "emit"
             /\ emitted.scale = template.scale =>
                /\ emitted'.count >= emitted.count
                /\ \A i \in DOMAIN emitted.pos : emitted'.pos[i] >= emitted.pos[i]
                /\ \A i \in DOMAIN emitted.neg : emitted'.neg[i] >= emitted.neg[i])
  BY <1>1
<1> QED
  BY <1>2, CountsAlways, PlacesAlways, EmissionAlways, PTL DEF Spec, CountsGrowAtScale
=============================================================================
