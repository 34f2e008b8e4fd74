---------------------------- MODULE Lemmas_proof ----------------------------
(***************************************************************************)
(* Facts that the proofs of several components rest on: division with       *)
(* remainder, what the sums of the community modules compute, and that the  *)
(* reduced rate of churn is the rate it was.                                *)
(***************************************************************************)
EXTENDS ChurnRate, Functions, WellFoundedInduction, FiniteSetTheorems, TLAPS

-----------------------------------------------------------------------------
(* Division                                                                  *)

(* A number has one quotient and one remainder.                             *)
LEMMA QuotientUnique ==
    ASSUME NEW p \in Nat, NEW x \in Nat, NEW y \in Nat,
           NEW k \in 0 .. (p - 1), NEW l \in 0 .. (p - 1),
           k + x * p = l + y * p
    PROVE  x = y /\ k = l
<1>1. ASSUME x < y PROVE FALSE
  <2>1. PICK d \in Nat : y = x + 1 + d
    BY <1>1
  <2>2. PICK dp \in Nat : dp = d * p
    OBVIOUS
  <2>3. y * p = x * p + p + dp
    BY <2>1, <2>2
  <2> QED
    BY <2>3
<1>2. ASSUME y < x PROVE FALSE
  <2>1. PICK d \in Nat : x = y + 1 + d
    BY <1>2
  <2>2. PICK dp \in Nat : dp = d * p
    OBVIOUS
  <2>3. x * p = y * p + p + dp
    BY <2>1, <2>2
  <2> QED
    BY <2>3
<1>3. x = y
  BY <1>1, <1>2
<1> QED
  BY <1>3

(* A product divided by one of its factors, and the quotient of a number    *)
(* below the next multiple.                                                 *)
LEMMA DivProduct ==
    ASSUME NEW a \in Nat, NEW b \in Nat, NEW c \in Nat \ {0}
    PROVE  (a * (c * b)) \div c = a * b
<1>1. PICK q \in Nat : q = a * b
  OBVIOUS
<1>2. a * (c * b) = c * q
  BY <1>1
<1>3. PICK m \in Nat : m = c * q
  BY <1>1
<1>4. PICK d \in Nat, r \in 0 .. (c - 1) : d = m \div c /\ m = c * d + r
  OBVIOUS
<1>5. r + d * c = 0 + q * c
  BY <1>1, <1>3, <1>4
<1>6. d = q
  BY <1>1, <1>5, QuotientUnique
<1> QED
  BY <1>1, <1>2, <1>3, <1>4, <1>6

LEMMA DivModSum ==
    ASSUME NEW a \in Int, NEW b \in Int, b > 0
    PROVE  /\ a = (a \div b) * b + (a % b)
           /\ a \div b \in Int /\ a % b \in 0 .. (b - 1)
<1>1. a = (a \div b) * b + (a % b)
  OBVIOUS
<1>2. a \div b \in Int /\ a % b \in 0 .. (b - 1)
  OBVIOUS
<1> QED
  BY <1>1, <1>2

LEMMA QuotientBelow ==
    ASSUME NEW p \in Nat, NEW x \in Nat, NEW c \in Nat, x < c,
           NEW k \in 0 .. (p - 1)
    PROVE  k + x * p \in 0 .. (c * p - 1)
<1>1. PICK d \in Nat : c = x + 1 + d
  OBVIOUS
<1>2. PICK dp \in Nat, xp \in Nat : dp = d * p /\ xp = x * p
  OBVIOUS
<1>3. c * p = xp + p + dp
  BY <1>1, <1>2
<1> QED
  BY <1>2, <1>3

(* The quotient of a multiple and a remainder, and of a quotient.            *)
LEMMA QuotientIs ==
    ASSUME NEW q \in Int, NEW w \in Nat \ {0}, NEW r \in 0 .. (w - 1)
    PROVE  (q * w + r) \div w = q
<1> DEFINE a == q * w + r
<1>1. a \in Int
  OBVIOUS
<1>2. PICK p \in Int, t \in 0 .. (w - 1) : a = p * w + t /\ p = a \div w
  BY <1>1, DivModSum
<1>3. ASSUME p < q PROVE FALSE
  <2>1. PICK d \in Nat : q = p + 1 + d
    BY <1>3
  <2>2. PICK dw \in Nat : dw = d * w
    BY <2>1
  <2>3. q * w = p * w + w + dw
    BY <2>1, <2>2
  <2>4. PICK pw \in Int : pw = p * w
    OBVIOUS
  <2> QED
    BY <1>2, <2>2, <2>3, <2>4
<1>4. ASSUME q < p PROVE FALSE
  <2>1. PICK d \in Nat : p = q + 1 + d
    BY <1>4
  <2>2. PICK dw \in Nat : dw = d * w
    BY <2>1
  <2>3. p * w = q * w + w + dw
    BY <2>1, <2>2
  <2>4. PICK qw \in Int : qw = q * w
    OBVIOUS
  <2> QED
    BY <1>2, <2>2, <2>3, <2>4
<1> QED
  BY <1>2, <1>3, <1>4

LEMMA QuotientTwice ==
    ASSUME NEW p \in Int, NEW a \in Nat \ {0}, NEW b \in Nat \ {0}
    PROVE  (p \div a) \div b = p \div (a * b)
<1>1. PICK q \in Int, r \in 0 .. (a - 1) : p = q * a + r /\ q = p \div a
  BY DivModSum
<1>2. PICK t \in Int, u \in 0 .. (b - 1) : q = t * b + u /\ t = q \div b
  BY DivModSum
<1>3. PICK ab \in Nat \ {0}, ua \in Nat, tb \in Int : ab = a * b /\ ua = u * a /\ tb = t * b
  OBVIOUS
<1>4. p = t * ab + (ua + r)
  <2>1. q * a = tb * a + ua
    BY <1>2, <1>3
  <2>2. tb * a = t * ab
    BY <1>3
  <2> QED
    BY <1>1, <1>3, <2>1, <2>2
<1>5. ua + r \in 0 .. (ab - 1)
  <2>1. PICK d \in Nat : b = u + 1 + d
    BY <1>2
  <2>2. PICK da \in Nat : da = d * a
    BY <2>1
  <2>3. ab = ua + a + da
    BY <1>3, <2>1, <2>2
  <2> QED
    BY <1>1, <1>3, <2>2, <2>3
<1>6. p \div ab = t
  BY <1>3, <1>4, <1>5, QuotientIs
<1> QED
  BY <1>1, <1>2, <1>3, <1>6

LEMMA QuotientMonotone ==
    ASSUME NEW p \in Int, NEW q \in Int, p <= q, NEW w \in Nat \ {0}
    PROVE  p \div w <= q \div w
<1>1. PICK a \in Int, r \in 0 .. (w - 1) : p = a * w + r /\ a = p \div w
  BY DivModSum
<1>2. PICK b \in Int, t \in 0 .. (w - 1) : q = b * w + t /\ b = q \div w
  BY DivModSum
<1>3. ASSUME b < a PROVE FALSE
  <2>1. PICK d \in Nat : a = b + 1 + d
    BY <1>3
  <2>2. PICK dw \in Nat, bw \in Int : dw = d * w /\ bw = b * w
    BY <2>1
  <2>3. a * w = bw + w + dw
    BY <2>1, <2>2
  <2> QED
    BY <1>1, <1>2, <2>2, <2>3
<1> QED
  BY <1>1, <1>2, <1>3

-----------------------------------------------------------------------------
(* Sums of functions over finite sets                                        *)

(* A nonempty set of natural numbers has a least element: the form of        *)
(* induction used below, which needs no predicate as a parameter.            *)
LEMMA LeastNat ==
    ASSUME NEW T \in SUBSET Nat, T # {}
    PROVE  \E m \in T : \A n \in T : m <= n
<1> DEFINE R == OpToRel(<, Nat)
<1>1. IsWellFoundedOn(R, Nat)
  BY NatLessThanWellFounded
<1> HIDE DEF R
<1>2. PICK m \in T : \A n \in T : ~(<<n, m>> \in R)
  BY <1>1, WFMin
<1>3. \A n \in T : n < m => <<n, m>> \in R
  BY DEF R, OpToRel
<1>4. ASSUME NEW n \in T
      PROVE  m <= n
  <2>1. m \in Int /\ n \in Int
    OBVIOUS
  <2>2. ~(n < m)
    BY <1>2, <1>3
  <2> QED
    BY <2>1, <2>2
<1> QED
  BY <1>4

(* Among sets of subsets of a finite set: one that no removal of an element   *)
(* keeps in the set.                                                         *)
LEMMA SmallestSet ==
    ASSUME NEW S, IsFiniteSet(S), NEW Bad \in SUBSET (SUBSET S), Bad # {}
    PROVE  \E s \in Bad : /\ IsFiniteSet(s)
                          /\ \A x \in s : s \ {x} \notin Bad
<1> DEFINE T == {Cardinality(s) : s \in Bad}
<1>1. \A s \in SUBSET S : IsFiniteSet(s) /\ Cardinality(s) \in Nat
  BY FS_Subset, FS_CardinalityType
<1>2. T \in SUBSET Nat /\ T # {}
  BY <1>1
<1>3. PICK m \in T : \A n \in T : m <= n
  BY <1>2, LeastNat
<1>4. PICK s \in Bad : m = Cardinality(s)
  BY <1>3
<1>5. ASSUME NEW x \in s, s \ {x} \in Bad
      PROVE  FALSE
  <2>1. Cardinality(s \ {x}) = Cardinality(s) - 1
    BY <1>1, FS_RemoveElement
  <2>2. m <= Cardinality(s \ {x})
    BY <1>3, <1>5
  <2>3. Cardinality(s) \in Int
    BY <1>1
  <2> QED
    BY <1>4, <2>1, <2>2, <2>3
<1> QED
  BY <1>1, <1>5

(* The table SumFunctionOnSet is computed from, one entry per subset, and     *)
(* the element it removes first.                                             *)
Chosen(s) == CHOOSE x \in s : TRUE
TableStep(f, g, s) == IF s = {} THEN 0 ELSE f[Chosen(s)] + g[s \ {Chosen(s)}]
SumTable(f, S) == CHOOSE g : g = [s \in SUBSET S |-> TableStep(f, g, s)]

LEMMA SumIsTable ==
    ASSUME NEW f, NEW S
    PROVE  SumFunctionOnSet(f, S) = SumTable(f, S)[S]
  BY DEF SumFunctionOnSet, FoldFunctionOnSet, MapThenFoldSet, SumTable, TableStep, Chosen

(* The recursive definition of the table has a solution, so the table obeys  *)
(* it: a table good up to a cardinality is extended by one.                  *)
LEMMA TableEquation ==
    ASSUME NEW f, NEW S, IsFiniteSet(S)
    PROVE  \A s \in SUBSET S : SumTable(f, S)[s] = TableStep(f, SumTable(f, S), s)
<1> DEFINE Upto(g, n) == \A s \in SUBSET S :
                             Cardinality(s) < n => g[s] = TableStep(f, g, s)
           Bad == {n \in Nat : ~ \E g : Upto(g, n)}
<1>1. \A s \in SUBSET S : IsFiniteSet(s) /\ Cardinality(s) \in Nat
  BY FS_Subset, FS_CardinalityType
<1>2. \A s \in SUBSET S : s # {} =>
          /\ s \ {Chosen(s)} \in SUBSET S
          /\ Cardinality(s \ {Chosen(s)}) = Cardinality(s) - 1
  <2>1. \A s \in SUBSET S : s # {} => Chosen(s) \in s
    BY DEF Chosen
  <2> QED
    BY <1>1, <2>1, FS_RemoveElement
<1>3. Bad = {}
  <2>1. SUFFICES ASSUME Bad # {} PROVE FALSE
    OBVIOUS
  <2>2. PICK m \in Bad : \A n \in Bad : m <= n
    BY <2>1, LeastNat
  <2>3. m \in Nat /\ m # 0
    <3>1. \A g : Upto(g, 0)
      BY <1>1
    <3> QED
      BY <3>1
  <2>4. m - 1 \in Nat /\ m - 1 \notin Bad
    BY <2>2, <2>3
  <2>5. PICK g : Upto(g, m - 1)
    BY <2>4
  <2> DEFINE h == [s \in SUBSET S |->
                     IF Cardinality(s) < m - 1 THEN g[s] ELSE TableStep(f, g, s)]
  <2>6. ASSUME NEW s \in SUBSET S, Cardinality(s) < m
        PROVE  h[s] = TableStep(f, h, s)
    <3>1. h[s] = TableStep(f, g, s)
      BY <2>5
    <3>2. CASE s = {}
      BY <3>1, <3>2 DEF TableStep
    <3>3. CASE s # {}
      <4>1. Cardinality(s \ {Chosen(s)}) < m - 1 /\ s \ {Chosen(s)} \in SUBSET S
        BY <1>1, <1>2, <2>3, <2>6, <3>3
      <4>2. h[s \ {Chosen(s)}] = g[s \ {Chosen(s)}]
        BY <4>1
      <4> QED
        BY <3>1, <3>3, <4>2 DEF TableStep
    <3> QED
      BY <3>2, <3>3
  <2> HIDE DEF h
  <2>7. Upto(h, m)
    BY <2>6
  <2> QED
    BY <2>2, <2>7
<1>4. PICK g : \A s \in SUBSET S : g[s] = TableStep(f, g, s)
  <2>1. Cardinality(S) + 1 \in Nat /\ Cardinality(S) \in Nat
    BY <1>1
  <2>2. PICK g : Upto(g, Cardinality(S) + 1)
    BY <1>3, <2>1
  <2>3. \A s \in SUBSET S : Cardinality(s) < Cardinality(S) + 1
    <3>1. \A s \in SUBSET S : Cardinality(s) <= Cardinality(S)
      BY FS_Subset
    <3> QED
      BY <1>1, <2>1, <3>1
  <2> QED
    BY <2>2, <2>3
<1> DEFINE h == [s \in SUBSET S |-> g[s]]
<1>5. h = [s \in SUBSET S |-> TableStep(f, h, s)]
  <2>1. \A s \in SUBSET S : TableStep(f, h, s) = TableStep(f, g, s)
    BY <1>2 DEF TableStep
  <2> QED
    BY <1>4, <2>1
<1> HIDE DEF h
<1>6. SumTable(f, S) = [s \in SUBSET S |-> TableStep(f, SumTable(f, S), s)]
  BY <1>5 DEF SumTable
<1> QED
  BY <1>6

(* The entry of a set depends on the summands of this set alone.             *)
LEMMA TablesAgree ==
    ASSUME NEW S, IsFiniteSet(S), NEW T \in SUBSET S, NEW f, NEW g,
           \A x \in T : f[x] = g[x]
    PROVE  SumTable(f, S)[T] = SumTable(g, T)[T]
<1> DEFINE F == SumTable(f, S)
           G == SumTable(g, T)
           Bad == {s \in SUBSET T : F[s] # G[s]}
<1>1. IsFiniteSet(T)
  BY FS_Subset
<1>2. \A s \in SUBSET T : F[s] = TableStep(f, F, s) /\ G[s] = TableStep(g, G, s)
  BY <1>1, TableEquation
<1> HIDE DEF F, G
<1>3. SUFFICES ASSUME Bad # {} PROVE FALSE
  BY DEF F, G
<1>4. PICK s \in Bad : \A x \in s : s \ {x} \notin Bad
  BY <1>1, <1>3, SmallestSet
<1>5. CASE s = {}
  BY <1>2, <1>4, <1>5 DEF TableStep
<1>6. CASE s # {}
  <2>1. Chosen(s) \in s
    BY <1>6 DEF Chosen
  <2>2. F[s \ {Chosen(s)}] = G[s \ {Chosen(s)}] /\ f[Chosen(s)] = g[Chosen(s)]
    BY <1>4, <2>1
  <2> QED
    BY <1>2, <1>4, <2>2 DEF TableStep
<1> QED
  BY <1>5, <1>6

(* The sum over no index.                                                    *)
LEMMA SumEmpty ==
    ASSUME NEW f
    PROVE  SumFunctionOnSet(f, {}) = 0
<1>1. SumTable(f, {})[{}] = TableStep(f, SumTable(f, {}), {})
  BY FS_EmptySet, TableEquation
<1> QED
  BY <1>1, SumIsTable DEF TableStep

(* Functions that agree on a set have the same sum over it.                  *)
LEMMA SumCongruence ==
    ASSUME NEW S, IsFiniteSet(S), NEW f, NEW g, \A x \in S : f[x] = g[x]
    PROVE  SumFunctionOnSet(f, S) = SumFunctionOnSet(g, S)
  BY SumIsTable, TablesAgree

LEMMA SumChosen ==
    ASSUME NEW S, IsFiniteSet(S), S # {}, NEW f
    PROVE  SumFunctionOnSet(f, S) =
               f[Chosen(S)] + SumFunctionOnSet(f, S \ {Chosen(S)})
<1>1. SumTable(f, S)[S] = f[Chosen(S)] + SumTable(f, S)[S \ {Chosen(S)}]
  BY TableEquation DEF TableStep
<1>2. SumTable(f, S)[S \ {Chosen(S)}]
          = SumTable(f, S \ {Chosen(S)})[S \ {Chosen(S)}]
  BY TablesAgree
<1> QED
  BY <1>1, <1>2, SumIsTable

(* Sums of integers are integers.                                            *)
LEMMA SumType ==
    ASSUME NEW S, IsFiniteSet(S), NEW f, \A x \in S : f[x] \in Int
    PROVE  SumFunctionOnSet(f, S) \in Int
<1> DEFINE Bad == {s \in SUBSET S : SumFunctionOnSet(f, s) \notin Int}
<1>1. SUFFICES ASSUME Bad # {} PROVE FALSE
  OBVIOUS
<1>2. PICK s \in Bad : IsFiniteSet(s) /\ \A x \in s : s \ {x} \notin Bad
  BY <1>1, SmallestSet
<1>3. CASE s = {}
  BY <1>2, <1>3, SumEmpty
<1>4. CASE s # {}
  <2>1. Chosen(s) \in s
    BY <1>4 DEF Chosen
  <2>2. SumFunctionOnSet(f, s \ {Chosen(s)}) \in Int /\ f[Chosen(s)] \in Int
    BY <1>2, <2>1
  <2>3. SumFunctionOnSet(f, s) =
            f[Chosen(s)] + SumFunctionOnSet(f, s \ {Chosen(s)})
    BY <1>2, <1>4, SumChosen
  <2> QED
    BY <1>2, <2>2, <2>3
<1> QED
  BY <1>3, <1>4

(* The sum does not depend on the order of the summands.                     *)
LEMMA SumRemove ==
    ASSUME NEW S, IsFiniteSet(S), NEW f, \A x \in S : f[x] \in Int,
           NEW x \in S
    PROVE  SumFunctionOnSet(f, S) = f[x] + SumFunctionOnSet(f, S \ {x})
<1> DEFINE Sum(s) == SumFunctionOnSet(f, s)
           Bad == {s \in SUBSET S :
                     \E y \in s : Sum(s) # f[y] + Sum(s \ {y})}
<1>1. \A s \in SUBSET S : IsFiniteSet(s) /\ Sum(s) \in Int
  BY FS_Subset, SumType
<1>2. \A s \in SUBSET S : s # {} => Sum(s) = f[Chosen(s)] + Sum(s \ {Chosen(s)})
  BY <1>1, SumChosen
<1> HIDE DEF Sum
<1>3. SUFFICES ASSUME Bad # {} PROVE FALSE
  BY DEF Sum
<1>4. PICK s \in Bad : \A y \in s : s \ {y} \notin Bad
  BY <1>3, SmallestSet
<1>5. PICK y \in s : Sum(s) # f[y] + Sum(s \ {y})
  BY <1>4
<1> DEFINE p == Chosen(s)
<1>6. p \in s /\ Sum(s) = f[p] + Sum(s \ {p})
  BY <1>2, <1>4, <1>5 DEF Chosen
<1> HIDE DEF p
<1>7. p # y
  BY <1>5, <1>6
<1>8. Sum(s \ {p}) = f[y] + Sum((s \ {p}) \ {y})
  BY <1>4, <1>6, <1>7
<1>9. Sum(s \ {y}) = f[p] + Sum((s \ {y}) \ {p})
  BY <1>4, <1>6, <1>7
<1>10. (s \ {p}) \ {y} = (s \ {y}) \ {p}
  OBVIOUS
<1>11. PICK a \in Int, b \in Int, c \in Int, d \in Int, e \in Int, r \in Int :
           /\ a = f[p] /\ b = f[y] /\ r = Sum((s \ {y}) \ {p})
           /\ c = Sum(s) /\ d = Sum(s \ {p}) /\ e = Sum(s \ {y})
  BY <1>1, <1>6
<1>12. c = a + d /\ d = b + r /\ e = a + r /\ c # b + e
  BY <1>5, <1>6, <1>8, <1>9, <1>10, <1>11
<1> QED
  BY <1>11, <1>12

LEMMA SumAdd ==
    ASSUME NEW S, IsFiniteSet(S), NEW x, x \notin S, NEW f,
           \A y \in S \cup {x} : f[y] \in Int
    PROVE  SumFunctionOnSet(f, S \cup {x}) = SumFunctionOnSet(f, S) + f[x]
<1>1. IsFiniteSet(S \cup {x}) /\ (S \cup {x}) \ {x} = S
  BY FS_AddElement
<1>2. SumFunctionOnSet(f, S \cup {x}) = f[x] + SumFunctionOnSet(f, S)
  BY <1>1, SumRemove
<1>3. SumFunctionOnSet(f, S) \in Int /\ f[x] \in Int
  BY SumType
<1> QED
  BY <1>2, <1>3

(* Changing one summand changes the sum by as much.                          *)
LEMMA SumChange ==
    ASSUME NEW S, IsFiniteSet(S), NEW f, NEW g, NEW x \in S,
           \A y \in S : f[y] \in Int /\ g[y] \in Int,
           \A y \in S : y # x => g[y] = f[y]
    PROVE  SumFunctionOnSet(g, S) = SumFunctionOnSet(f, S) + (g[x] - f[x])
<1>1. SumFunctionOnSet(g, S) = g[x] + SumFunctionOnSet(g, S \ {x})
  BY SumRemove
<1>2. SumFunctionOnSet(f, S) = f[x] + SumFunctionOnSet(f, S \ {x})
  BY SumRemove
<1>3. IsFiniteSet(S \ {x})
  BY FS_RemoveElement
<1>4. SumFunctionOnSet(g, S \ {x}) = SumFunctionOnSet(f, S \ {x})
  BY <1>3, SumCongruence
<1>5. PICK r \in Int, a \in Int, b \in Int :
          r = SumFunctionOnSet(f, S \ {x}) /\ a = f[x] /\ b = g[x]
  BY <1>3, SumType
<1> QED
  BY <1>1, <1>2, <1>4, <1>5

(* Summands that are all zero.                                               *)
LEMMA SumZero ==
    ASSUME NEW S, IsFiniteSet(S), NEW f, \A x \in S : f[x] = 0
    PROVE  SumFunctionOnSet(f, S) = 0
<1> DEFINE Bad == {s \in SUBSET S : SumFunctionOnSet(f, s) # 0}
<1>1. SUFFICES ASSUME Bad # {} PROVE FALSE
  OBVIOUS
<1>2. PICK s \in Bad : IsFiniteSet(s) /\ \A x \in s : s \ {x} \notin Bad
  BY <1>1, SmallestSet
<1>3. CASE s = {}
  BY <1>2, <1>3, SumEmpty
<1>4. CASE s # {}
  <2>1. Chosen(s) \in s
    BY <1>4 DEF Chosen
  <2>2. SumFunctionOnSet(f, s \ {Chosen(s)}) = 0 /\ f[Chosen(s)] = 0
    BY <1>2, <2>1
  <2> QED
    BY <1>2, <1>4, <2>2, SumChosen
<1> QED
  BY <1>3, <1>4

(* Summands that are all at least as large.                                  *)
LEMMA SumMonotone ==
    ASSUME NEW S, IsFiniteSet(S), NEW f, NEW g,
           \A x \in S : f[x] \in Int /\ g[x] \in Int /\ f[x] <= g[x]
    PROVE  SumFunctionOnSet(f, S) <= SumFunctionOnSet(g, S)
<1> DEFINE F(s) == SumFunctionOnSet(f, s)
           G(s) == SumFunctionOnSet(g, s)
           Bad == {s \in SUBSET S : ~(F(s) <= G(s))}
<1>1. \A s \in SUBSET S : IsFiniteSet(s) /\ F(s) \in Int /\ G(s) \in Int
  BY FS_Subset, SumType
<1>2. \A s \in SUBSET S : \A x \in s :
          F(s) = f[x] + F(s \ {x}) /\ G(s) = g[x] + G(s \ {x})
  BY <1>1, SumRemove
<1>3. F({}) = 0 /\ G({}) = 0
  BY SumEmpty
<1> HIDE DEF F, G
<1>4. SUFFICES ASSUME Bad # {} PROVE FALSE
  BY DEF F, G
<1>5. PICK s \in Bad : \A x \in s : s \ {x} \notin Bad
  BY <1>4, SmallestSet
<1>6. PICK x \in s : TRUE
  BY <1>3, <1>5
<1>7. F(s \ {x}) <= G(s \ {x}) /\ s \ {x} \in SUBSET S
  BY <1>5
<1>8. PICK a \in Int, b \in Int, c \in Int, d \in Int :
          a = f[x] /\ b = g[x] /\ c = F(s \ {x}) /\ d = G(s \ {x})
  BY <1>1, <1>7
<1>9. F(s) = a + c /\ G(s) = b + d /\ a <= b /\ c <= d
  BY <1>2, <1>5, <1>7, <1>8
<1>10. a + c <= b + d
  BY <1>8, <1>9
<1> QED
  BY <1>5, <1>9, <1>10

LEMMA SumNat ==
    ASSUME NEW S, IsFiniteSet(S), NEW f, \A x \in S : f[x] \in Nat
    PROVE  SumFunctionOnSet(f, S) \in Nat
<1> DEFINE zero == [x \in S |-> 0]
<1>1. SumFunctionOnSet(zero, S) = 0
  BY SumZero
<1>2. SumFunctionOnSet(zero, S) <= SumFunctionOnSet(f, S)
  BY SumMonotone
<1>3. SumFunctionOnSet(f, S) \in Int
  BY SumType
<1> QED
  BY <1>1, <1>2, <1>3

(* No summand is larger than the sum.                                        *)
LEMMA SumAtLeast ==
    ASSUME NEW S, IsFiniteSet(S), NEW f, \A y \in S : f[y] \in Nat, NEW x \in S
    PROVE  f[x] <= SumFunctionOnSet(f, S)
<1>1. IsFiniteSet(S \ {x})
  BY FS_RemoveElement
<1>2. SumFunctionOnSet(f, S \ {x}) \in Nat
  BY <1>1, SumNat
<1>3. SumFunctionOnSet(f, S) = f[x] + SumFunctionOnSet(f, S \ {x})
  BY SumRemove
<1> QED
  BY <1>2, <1>3

(* Summands that are sums themselves.                                        *)
LEMMA SumPlus ==
    ASSUME NEW S, IsFiniteSet(S), NEW f, NEW g, NEW h,
           \A x \in S : f[x] \in Int /\ g[x] \in Int /\ h[x] = f[x] + g[x]
    PROVE  SumFunctionOnSet(h, S) = SumFunctionOnSet(f, S) + SumFunctionOnSet(g, S)
<1> DEFINE F(s) == SumFunctionOnSet(f, s)
           G(s) == SumFunctionOnSet(g, s)
           H(s) == SumFunctionOnSet(h, s)
           Bad == {s \in SUBSET S : H(s) # F(s) + G(s)}
<1>1. \A s \in SUBSET S :
          IsFiniteSet(s) /\ F(s) \in Int /\ G(s) \in Int /\ H(s) \in Int
  BY FS_Subset, SumType
<1>2. \A s \in SUBSET S : \A x \in s : /\ F(s) = f[x] + F(s \ {x})
                                       /\ G(s) = g[x] + G(s \ {x})
                                       /\ H(s) = h[x] + H(s \ {x})
  BY <1>1, SumRemove
<1>3. F({}) = 0 /\ G({}) = 0 /\ H({}) = 0
  BY SumEmpty
<1> HIDE DEF F, G, H
<1>4. SUFFICES ASSUME Bad # {} PROVE FALSE
  BY DEF F, G, H
<1>5. PICK s \in Bad : \A x \in s : s \ {x} \notin Bad
  BY <1>4, SmallestSet
<1>6. PICK x \in s : TRUE
  BY <1>3, <1>5
<1>7. H(s \ {x}) = F(s \ {x}) + G(s \ {x}) /\ s \ {x} \in SUBSET S
  BY <1>5
<1>8. PICK a \in Int, b \in Int, c \in Int, d \in Int :
          a = f[x] /\ b = g[x] /\ c = F(s \ {x}) /\ d = G(s \ {x})
  BY <1>1, <1>7
<1>9. F(s) = a + c /\ G(s) = b + d /\ H(s) = (a + b) + (c + d)
  BY <1>2, <1>5, <1>7, <1>8
<1> QED
  BY <1>5, <1>8, <1>9

(* Summands of zero can be left out.                                         *)
LEMMA SumSupport ==
    ASSUME NEW S, IsFiniteSet(S), NEW T \in SUBSET S, NEW f,
           \A x \in S : f[x] \in Int, \A x \in S \ T : f[x] = 0
    PROVE  SumFunctionOnSet(f, S) = SumFunctionOnSet(f, T)
<1> DEFINE F(s) == SumFunctionOnSet(f, s)
           Bad == {s \in SUBSET (S \ T) : F(T \cup s) # F(T)}
<1>1. \A s \in SUBSET S : IsFiniteSet(s) /\ F(s) \in Int
  BY FS_Subset, SumType
<1>2. \A s \in SUBSET S : \A x \in s : F(s) = f[x] + F(s \ {x})
  BY <1>1, SumRemove
<1>3. IsFiniteSet(S \ T)
  BY <1>1
<1> HIDE DEF F
<1>4. SUFFICES ASSUME Bad # {} PROVE FALSE
  <2>1. T \cup (S \ T) = S
    OBVIOUS
  <2>2. S \ T \notin Bad => F(T \cup (S \ T)) = F(T)
    OBVIOUS
  <2> QED
    BY <2>1, <2>2 DEF F
<1>5. PICK s \in Bad : \A x \in s : s \ {x} \notin Bad
  BY <1>3, <1>4, SmallestSet
<1>6. PICK x \in s : TRUE
  <2>1. SUFFICES s # {}
    OBVIOUS
  <2>2. T \cup {} = T
    OBVIOUS
  <2> QED
    BY <1>5, <2>2
<1>7. F(T \cup (s \ {x})) = F(T)
  BY <1>5
<1>8. (T \cup s) \ {x} = T \cup (s \ {x}) /\ x \in T \cup s /\ T \cup s \in SUBSET S
  BY <1>5
<1>9. F(T \cup s) = f[x] + F(T) /\ f[x] = 0 /\ F(T) \in Int
  BY <1>1, <1>2, <1>5, <1>7, <1>8
<1> QED
  BY <1>5, <1>9

(* Leaving out summands makes no sum larger.                                 *)
LEMMA SumSubset ==
    ASSUME NEW S, IsFiniteSet(S), NEW T \in SUBSET S, NEW f, \A x \in S : f[x] \in Nat
    PROVE  SumFunctionOnSet(f, T) <= SumFunctionOnSet(f, S)
<1> DEFINE g == [x \in S |-> IF x \in T THEN f[x] ELSE 0]
<1>1. \A x \in S : g[x] \in Int /\ f[x] \in Int /\ g[x] <= f[x]
  OBVIOUS
<1>2. (\A x \in S \ T : g[x] = 0) /\ \A x \in T : g[x] = f[x]
  OBVIOUS
<1> HIDE DEF g
<1>3. SumFunctionOnSet(g, S) <= SumFunctionOnSet(f, S)
  BY <1>1, SumMonotone
<1>4. SumFunctionOnSet(g, S) = SumFunctionOnSet(g, T)
  BY <1>1, <1>2, SumSupport
<1>5. SumFunctionOnSet(g, T) = SumFunctionOnSet(f, T)
  <2>1. IsFiniteSet(T)
    BY FS_Subset
  <2> QED
    BY <1>2, <2>1, SumCongruence
<1> QED
  BY <1>3, <1>4, <1>5

-----------------------------------------------------------------------------
(* The rate of churn                                                         *)

Dvd(d, n) == \E k \in Nat : n = d * k
CommonDivisors(a, b) == {d \in Nat \ {0} : Dvd(d, a) /\ Dvd(d, b)}
Greatest(S) == CHOOSE d \in S : \A e \in S : e <= d

(* The common divisors of two numbers are those of the second and the        *)
(* remainder: the step of Euclid's algorithm (config.go:80-85).              *)
LEMMA DividesMultiple ==
    ASSUME NEW d \in Nat \ {0}, NEW b \in Nat, Dvd(d, b), NEW q \in Nat, NEW r \in Nat
    PROVE  Dvd(d, q * b + r) <=> Dvd(d, r)
<1>1. PICK y \in Nat : b = d * y
  BY DEF Dvd
<1>2. PICK z \in Nat : z = q * y
  <2>1. q * y \in Nat
    OBVIOUS
  <2> QED
    BY <2>1
<1>3. q * b = d * z
  BY <1>1, <1>2
<1>4. ASSUME Dvd(d, r) PROVE Dvd(d, q * b + r)
  <2>1. PICK w \in Nat : r = d * w
    BY <1>4 DEF Dvd
  <2>2. q * b + r = d * (z + w) /\ z + w \in Nat
    BY <1>3, <2>1
  <2> QED
    BY <2>2 DEF Dvd
<1>5. ASSUME Dvd(d, q * b + r) PROVE Dvd(d, r)
  <2>1. PICK x \in Nat : q * b + r = d * x
    BY <1>5 DEF Dvd
  <2>2. PICK dx \in Nat, dz \in Nat : dx = d * x /\ dz = d * z
    OBVIOUS
  <2>3. dx = dz + r
    BY <1>3, <2>1, <2>2
  <2>4. x >= z
    <3>1. SUFFICES ASSUME x < z PROVE FALSE
      OBVIOUS
    <3>2. PICK k \in Nat : z = x + 1 + k
      BY <3>1
    <3>3. PICK dk \in Nat : dk = d * k
      OBVIOUS
    <3>4. dz = dx + d + dk
      BY <2>2, <3>2, <3>3
    <3> QED
      BY <2>3, <3>4
  <2>5. PICK k \in Nat : x = z + k
    BY <2>4
  <2>6. r = d * k
    BY <2>2, <2>3, <2>5
  <2> QED
    BY <2>6 DEF Dvd
<1> QED
  BY <1>4, <1>5

LEMMA EuclidStep ==
    ASSUME NEW a \in Nat, NEW b \in Nat \ {0}
    PROVE  a % b \in Nat /\ a % b < b /\ CommonDivisors(b, a % b) = CommonDivisors(a, b)
<1>1. PICK q \in Int, r \in Int : q = a \div b /\ r = a % b
  BY DivModSum
<1>2. a = q * b + r /\ 0 <= r /\ r < b
  BY <1>1, DivModSum
<1>3. q \in Nat
  <2>1. SUFFICES ASSUME q <= -1 PROVE FALSE
    BY <1>1
  <2>2. PICK k \in Nat : q = -1 - k
    BY <2>1
  <2>3. PICK kb \in Nat : kb = k * b
    OBVIOUS
  <2>4. q * b = -b - kb
    BY <2>2, <2>3
  <2> QED
    BY <1>2, <2>4
<1>4. \A d \in Nat \ {0} : Dvd(d, b) => (Dvd(d, a) <=> Dvd(d, r))
  BY <1>2, <1>3, DividesMultiple
<1> QED
  BY <1>1, <1>2, <1>4 DEF CommonDivisors

(* The greatest divisor of a positive number and 0 is that number.           *)
LEMMA DivisorAtMost ==
    ASSUME NEW n \in Nat \ {0}, NEW d \in Nat, Dvd(d, n)
    PROVE  d <= n
<1>1. PICK k \in Nat : n = d * k
  BY DEF Dvd
<1>2. k # 0
  BY <1>1
<1>3. PICK j \in Nat : k = 1 + j
  BY <1>2
<1>4. PICK dj \in Nat : dj = d * j
  OBVIOUS
<1>5. n = d + dj
  BY <1>1, <1>3, <1>4
<1> QED
  BY <1>5

LEMMA DividesItself ==
    ASSUME NEW n \in Nat
    PROVE  Dvd(n, n) /\ Dvd(n, 0)
<1>1. 1 \in Nat /\ n = n * 1 /\ 0 \in Nat /\ 0 = n * 0
  OBVIOUS
<1> QED
  BY <1>1 DEF Dvd

IsGreatest(d, S) == d \in S /\ \A e \in S : e <= d

LEMMA GreatestIs ==
    ASSUME NEW S \in SUBSET Nat, NEW d, IsGreatest(d, S)
    PROVE  Greatest(S) = d
<1>1. IsGreatest(Greatest(S), S)
  BY DEF IsGreatest, Greatest
<1>2. Greatest(S) \in Nat /\ d \in Nat
  BY <1>1 DEF IsGreatest
<1> QED
  BY <1>1, <1>2 DEF IsGreatest

LEMMA GreatestOfZero ==
    ASSUME NEW n \in Nat \ {0}
    PROVE  IsGreatest(n, CommonDivisors(n, 0))
  BY DividesItself, DivisorAtMost DEF IsGreatest, CommonDivisors

(* The recursive definition has a solution, so gcdInt64 obeys it.            *)
GcdStep(g, ab) == IF ab[2] = 0 THEN ab[1] ELSE g[<<ab[2], ab[1] % ab[2]>>]

LEMMA GcdEquation ==
    ASSUME NEW a \in Nat, NEW b \in Nat
    PROVE  gcdInt64[<<a, b>>] = IF b = 0 THEN a ELSE gcdInt64[<<b, a % b>>]
<1> DEFINE h == [ab \in Nat \X Nat |->
                   IF ab[2] = 0 THEN ab[1] ELSE Greatest(CommonDivisors(ab[1], ab[2]))]
<1>1. ASSUME NEW x \in Nat, NEW y \in Nat
      PROVE  h[<<x, y>>] = IF y = 0 THEN x ELSE Greatest(CommonDivisors(x, y))
  OBVIOUS
<1> HIDE DEF h
<1>2. ASSUME NEW x \in Nat, NEW y \in Nat, y # 0
      PROVE  h[<<x, y>>] = h[<<y, x % y>>]
  <2>1. x % y \in Nat /\ CommonDivisors(y, x % y) = CommonDivisors(x, y)
    BY <1>2, EuclidStep
  <2>2. CASE x % y = 0
    <3>1. Greatest(CommonDivisors(y, 0)) = y
      <4>1. CommonDivisors(y, 0) \in SUBSET Nat
        BY DEF CommonDivisors
      <4> QED
        BY <1>2, <4>1, GreatestOfZero, GreatestIs
    <3>2. h[<<y, x % y>>] = y
      BY <1>1, <2>2
    <3> QED
      BY <1>1, <1>2, <2>1, <2>2, <3>1, <3>2
  <2>3. CASE x % y # 0
    BY <1>1, <1>2, <2>1, <2>3
  <2> QED
    BY <2>2, <2>3
<1>3. ASSUME NEW ab \in Nat \X Nat
      PROVE  h[ab] = GcdStep(h, ab)
  <2>1. PICK x \in Nat, y \in Nat : ab = <<x, y>> /\ ab[1] = x /\ ab[2] = y
    OBVIOUS
  <2>2. CASE y = 0
    BY <1>1, <2>1, <2>2 DEF GcdStep
  <2>3. CASE y # 0
    BY <1>2, <2>1, <2>3 DEF GcdStep
  <2> QED
    BY <2>2, <2>3
<1>4. h = [ab \in Nat \X Nat |-> GcdStep(h, ab)]
  <2>1. h = [ab \in Nat \X Nat |-> h[ab]]
    BY DEF h
  <2> QED
    BY <1>3, <2>1
<1>5. gcdInt64 = [ab \in Nat \X Nat |-> GcdStep(gcdInt64, ab)]
  BY <1>4 DEF gcdInt64, GcdStep
<1>6. gcdInt64[<<a, b>>] = GcdStep(gcdInt64, <<a, b>>)
  BY <1>5
<1> QED
  BY <1>6 DEF GcdStep

(* gcdInt64 computes the greatest common divisor, by induction on its second *)
(* argument.                                                                 *)
LEMMA GcdIsGreatest ==
    ASSUME NEW a \in Nat, NEW b \in Nat, a # 0 \/ b # 0
    PROVE  IsGreatest(gcdInt64[<<a, b>>], CommonDivisors(a, b))
<1> DEFINE OK(x, y) == IsGreatest(gcdInt64[<<x, y>>], CommonDivisors(x, y))
           Bad == {y \in Nat : \E x \in Nat : (x # 0 \/ y # 0) /\ ~OK(x, y)}
<1>1. SUFFICES ASSUME Bad # {} PROVE FALSE
  OBVIOUS
<1>2. PICK y \in Bad : \A z \in Bad : y <= z
  BY <1>1, LeastNat
<1>3. PICK x \in Nat : (x # 0 \/ y # 0) /\ ~OK(x, y)
  BY <1>2
<1>4. CASE y = 0
  <2>1. gcdInt64[<<x, y>>] = x
    BY <1>4, <1>3, GcdEquation
  <2> QED
    BY <1>3, <1>4, <2>1, GreatestOfZero
<1>5. CASE y # 0
  <2>1. /\ x % y \in Nat /\ x % y < y
        /\ CommonDivisors(y, x % y) = CommonDivisors(x, y)
    BY <1>3, <1>2, <1>5, EuclidStep
  <2>2. gcdInt64[<<x, y>>] = gcdInt64[<<y, x % y>>]
    BY <1>2, <1>3, <1>5, GcdEquation
  <2>3. OK(y, x % y) => OK(x, y)
    BY <2>1, <2>2
  <2>4. x % y \in Bad
    BY <1>2, <1>3, <1>5, <2>1, <2>3
  <2>5. y <= x % y
    BY <1>2, <2>4
  <2> QED
    BY <1>2, <2>1, <2>5
<1> QED
  BY <1>4, <1>5

(* reduceChurnRate keeps the rate: both parts stay positive, and their       *)
(* quotient is what it was (config.go:67-78).                                *)
LEMMA ReducedRate ==
    ASSUME NEW n \in Nat \ {0}, NEW m \in Nat \ {0},
           NEW r, r = reduceChurnRate(n, m)
    PROVE  /\ r.replacements \in Nat \ {0} /\ r.intervals \in Nat \ {0}
           /\ r.replacements * m = n * r.intervals
<1> DEFINE d == gcdInt64[<<n, m>>]
<1>1. d \in Nat \ {0} /\ Dvd(d, n) /\ Dvd(d, m)
  BY GcdIsGreatest DEF IsGreatest, CommonDivisors
<1>2. r = [replacements |-> n \div d, intervals |-> m \div d]
  BY DEF reduceChurnRate
<1> HIDE DEF d
<1>3. PICK x \in Nat, y \in Nat : n = d * x /\ m = d * y
  BY <1>1 DEF Dvd
<1>4. x # 0 /\ y # 0
  BY <1>1, <1>3
<1>5. n \div d = x /\ m \div d = y
  <2>1. \A k \in Nat : (1 * (d * k)) \div d = 1 * k
    BY <1>1, DivProduct
  <2>2. \A k \in Nat : 1 * (d * k) = d * k /\ 1 * k = k
    BY <1>1
  <2> QED
    BY <1>3, <2>1, <2>2
<1>6. x * m = n * y
  <2>1. x * (d * y) = (d * x) * y
    BY <1>1
  <2> QED
    BY <1>3, <2>1
<1> QED
  BY <1>2, <1>4, <1>5, <1>6

(* A product that fits an int64 is not wrapped.                              *)
LEMMA WrapFits ==
    ASSUME NEW half \in Nat, NEW x \in Nat, x < half
    PROVE  Wrap(x, half) = x
<1>1. (x + half) % (2 * half) = x + half
  OBVIOUS
<1> QED
  BY <1>1 DEF Wrap

=============================================================================
