--------------------------- MODULE OperatorProofs ---------------------------
(***************************************************************************)
(* Facts about the operators of Planner and DataPath for every argument.   *)
(* The loops of the code are recursive functions there; what they compute  *)
(* is proved by induction, from the lemmas of the first part.  The second  *)
(* part ends with all of ToReplicas, the third is about its rate limits,   *)
(* and the rest ends with all of Collect.                                  *)
(***************************************************************************)
EXTENDS Planner, DataPath, FiniteSetTheorems, SequenceTheorems, TLAPS

(* Every non-empty set of natural numbers has a smallest element.          *)
LEMMA LeastNat ==
  ASSUME NEW T, T \subseteq Nat, T # {}
  PROVE  \E x \in T : \A y \in T : x <= y
<1> DEFINE R == OpToRel(<, Nat)
<1>1. IsWellFoundedOn(R, Nat)
  BY NatLessThanWellFounded
<1>2. \A x, y \in Nat : <<x, y>> \in R <=> x < y
  BY DEF OpToRel
<1> HIDE DEF R
<1>3. \E x \in T : \A y \in T : ~(<<y, x>> \in R)
  BY Zenon, <1>1, WFMin
<1>4. PICK x \in T : \A y \in T : ~(<<y, x>> \in R)
  BY <1>3
<1>5. \A y \in T : ~(y < x)
  BY Zenon, <1>2, <1>4
<1> QED
  BY <1>5

(* Induction, for a property given as the set of numbers that have it.     *)
LEMMA Induction ==
  ASSUME NEW S, 0 \in S, \A x \in Nat : x \in S => x + 1 \in S
  PROVE  Nat \subseteq S
<1> SUFFICES ASSUME Nat \ S # {} PROVE FALSE
  OBVIOUS
<1>1. PICK x \in Nat \ S : \A y \in Nat \ S : x <= y
  BY Zenon, LeastNat
<1>2. x # 0
  OBVIOUS
<1>3. x - 1 \in Nat /\ x - 1 \in S
  BY <1>1, <1>2
<1>4. x - 1 + 1 \in S
  BY <1>3
<1> QED
  BY <1>4

(* A finite recursion has a solution: f[k] comes from f[k - 1] by G[k].    *)
Solves(f, N, S, a, G) ==
  /\ f \in [0..N -> S]
  /\ f[0] = a /\ \A k \in 1..N : f[k] = G[k][f[k - 1]]

(* A recursion on Nat has a solution up to every bound.                    *)
LEMMA FiniteRecursion ==
  ASSUME NEW N \in Nat, NEW S, NEW a \in S, NEW G \in [Nat -> [S -> S]]
  PROVE  \E f : Solves(f, N, S, a, G)
<1> USE DEF Solves
<1> DEFINE T == {m \in Nat : \E f : Solves(f, m, S, a, G)}
<1>1. 0 \in T
  <2>1. Solves([k \in 0..0 |-> a], 0, S, a, G)
    OBVIOUS
  <2> QED
    BY Zenon, <2>1
<1>2. ASSUME NEW m \in Nat, m \in T PROVE m + 1 \in T
  <2>1. PICK f : Solves(f, m, S, a, G)
    BY <1>2
  <2> DEFINE g == [k \in 0..m + 1 |-> IF k = m + 1 THEN G[m + 1][f[m]] ELSE f[k]]
  <2>2. f[m] \in S /\ G[m + 1] \in [S -> S]
    BY <2>1
  <2>3. g \in [0..m + 1 -> S]
    BY <2>1, <2>2
  <2>4. g[0] = a /\ g[m] = f[m] /\ g[m + 1] = G[m + 1][f[m]]
    BY <2>1
  <2>5. ASSUME NEW k \in 1..m PROVE g[k] = G[k][g[k - 1]]
    BY <2>1
  <2> HIDE DEF g
  <2>6. ASSUME NEW k \in 1..m + 1 PROVE g[k] = G[k][g[k - 1]]
    <3>1. CASE k = m + 1
      BY <2>4, <3>1
    <3>2. CASE k \in 1..m
      BY Zenon, <2>5, <3>2
    <3> QED
      BY <3>1, <3>2
  <2>7. Solves(g, m + 1, S, a, G)
    BY <2>3, <2>4, <2>6
  <2>8. m + 1 \in Nat /\ \E h : Solves(h, m + 1, S, a, G)
    BY <2>7
  <2> HIDE DEF Solves
  <2> QED
    BY <2>8
<1> HIDE DEF T
<1>3. N \in T
  BY <1>1, <1>2, Induction
<1> QED
  BY <1>3 DEF T

(* A function on 1..m is a sequence of length m.                           *)
LEMMA FunctionIsSeq ==
  ASSUME NEW S, NEW m \in Nat, NEW f \in [1..m -> S]
  PROVE  f \in Seq(S) /\ Len(f) = m
<1>1. f \in Seq(S)
  BY SeqDef, Zenon
<1>2. Len(f) \in Nat /\ 1..Len(f) = 1..m
  BY <1>1, LenProperties
<1> QED
  BY <1>1, <1>2

------------------------------------------------------------------------------

(* Division by a positive number is monotone and stays in Nat.             *)
LEMMA DivMono ==
  ASSUME NEW a \in Int, NEW b \in Int, a <= b, NEW d \in Nat \ {0}
  PROVE  a \div d <= b \div d
OBVIOUS

(* Division of natural numbers.                                            *)
LEMMA DivNat ==
  ASSUME NEW a \in Nat, NEW d \in Nat \ {0}
  PROVE  a \div d \in Nat
OBVIOUS

(* math.Ceil of a quotient, as used by roundPods and by maxUp.             *)
LEMMA CeilDivFacts ==
  ASSUME NEW a \in Nat, NEW b \in Nat, a <= b, NEW d \in Nat \ {0}
  PROVE  /\ CeilDiv(a, d) \in Nat
         /\ CeilDiv(a, d) <= CeilDiv(b, d)
<1>1. a + d - 1 \in Nat /\ b + d - 1 \in Nat /\ a + d - 1 <= b + d - 1
  OBVIOUS
<1> QED
  BY <1>1, DivMono, DivNat DEF CeilDiv

(* roundPods returns a pod count and never orders two demands the wrong    *)
(* way round, in any of the three modes.                                   *)
LEMMA RoundPodsFacts ==
  ASSUME NEW a \in Nat, NEW b \in Nat, a <= b, NEW d \in Nat \ {0}, NEW mode
  PROVE  /\ roundPods(a, d, mode) \in Nat
         /\ roundPods(a, d, mode) <= roundPods(b, d, mode)
<1>1. CASE mode = "floor"
  BY <1>1, DivMono, DivNat DEF roundPods
<1>2. CASE mode = "round"
  <2>1. /\ 2 * a + d \in Nat /\ 2 * b + d \in Nat /\ 2 * d \in Nat \ {0}
        /\ 2 * a + d <= 2 * b + d
    OBVIOUS
  <2> QED
    BY <1>2, <2>1, DivMono, DivNat DEF roundPods
<1>3. CASE mode # "floor" /\ mode # "round"
  BY <1>3, CeilDivFacts DEF roundPods
<1> QED
  BY <1>1, <1>2, <1>3

(* The largest count one step up may reach: not below the previous count   *)
(* when the factor is at least 1, and monotone in the previous count.      *)
LEMMA MaxUpFacts ==
  ASSUME NEW x \in Nat, NEW up \in Nat \ {0}
  PROVE  /\ MaxUp(x, up) \in Nat
         /\ up >= 100 => x <= MaxUp(x, up)
<1> DEFINE a == x * up
<1>1. a \in Nat /\ (up >= 100 => x * 100 <= a)
  OBVIOUS
<1> HIDE DEF a
<1>2. CeilDiv(a, 100) \in Nat
  BY <1>1, CeilDivFacts
<1>3. up >= 100 => x <= CeilDiv(a, 100)
  BY <1>1 DEF CeilDiv
<1> QED
  BY <1>2, <1>3 DEF MaxUp, a

(* A larger previous count has a larger upper rate limit.                  *)
LEMMA MaxUpMono ==
  ASSUME NEW x \in Nat, NEW y \in Nat, x <= y, NEW up \in Nat \ {0}
  PROVE  MaxUp(x, up) <= MaxUp(y, up)
<1> DEFINE a == x * up
           b == y * up
<1>1. a \in Nat /\ b \in Nat /\ a <= b
  OBVIOUS
<1> HIDE DEF a, b
<1>2. CeilDiv(a, 100) <= CeilDiv(b, 100)
  BY <1>1, CeilDivFacts
<1> QED
  BY <1>2 DEF MaxUp, a, b

(* The smallest count one step down may reach: never above the previous    *)
(* count, and monotone in it.                                              *)
LEMMA MinDownFacts ==
  ASSUME NEW x \in Nat, NEW down \in 0..100
  PROVE  MinDown(x, down) \in Nat /\ MinDown(x, down) <= x
<1> DEFINE a == x * (100 - down)
<1>1. a \in Nat /\ a <= x * 100
  OBVIOUS
<1> HIDE DEF a
<1>2. a \div 100 \in Nat /\ a \div 100 <= x
  BY <1>1
<1> QED
  BY <1>2 DEF MinDown, a

(* A larger previous count has a larger lower rate limit.                  *)
LEMMA MinDownMono ==
  ASSUME NEW x \in Nat, NEW y \in Nat, x <= y, NEW down \in 0..100
  PROVE  MinDown(x, down) <= MinDown(y, down)
<1> DEFINE a == x * (100 - down)
           b == y * (100 - down)
<1>1. a \in Nat /\ b \in Nat /\ a <= b
  OBVIOUS
<1> HIDE DEF a, b
<1>2. a \div 100 <= b \div 100
  BY <1>1
<1> QED
  BY <1>2 DEF MinDown, a, b

(* clampChange: one change is within the rate limits, for a factor of at   *)
(* least 1 (the only case in which maxUp >= minDown).                      *)
LEMMA ClampChangeFacts ==
  ASSUME NEW prev \in Nat, NEW next \in Nat,
         NEW up \in Nat \ {0}, NEW down \in 0..100
  PROVE  /\ clampChange(prev, next, up, down) \in Nat
         /\ up >= 100 =>
              /\ clampChange(prev, next, up, down)
                   <= MaxUp(IF prev = 0 THEN 1 ELSE prev, up)
              /\ clampChange(prev, next, up, down) >= MinDown(prev, down)
<1>1. NonNegative(prev) = prev
  BY DEF NonNegative
<1>2. /\ MaxUp(1, up) \in Nat /\ MaxUp(prev, up) \in Nat
      /\ up >= 100 => prev <= MaxUp(prev, up)
      /\ MinDown(prev, down) \in Nat /\ MinDown(prev, down) <= prev
  BY Zenon, MaxUpFacts, MinDownFacts
<1> QED
  BY <1>1, <1>2 DEF clampChange

(* clampChange keeps two ordered calls in order, again for a factor of at  *)
(* least 1: this is where the special case prev = 0 has to fit with prev   *)
(* = 1, and the up limit of the lower call with the down limit of the      *)
(* higher one.                                                             *)
LEMMA ClampChangeMono ==
  ASSUME NEW x \in Nat, NEW y \in Nat, x <= y,
         NEW a \in Nat, NEW b \in Nat, a <= b,
         NEW up \in Nat, up >= 100, NEW down \in 0..100
  PROVE  clampChange(x, a, up, down) <= clampChange(y, b, up, down)
<1>0. up \in Nat \ {0}
  OBVIOUS
<1>1. NonNegative(x) = x /\ NonNegative(y) = y
  BY DEF NonNegative
<1>2. /\ MaxUp(1, up) \in Nat /\ MaxUp(x, up) \in Nat /\ MaxUp(y, up) \in Nat
      /\ MaxUp(x, up) <= MaxUp(y, up)
      /\ x <= MaxUp(x, up) /\ y <= MaxUp(y, up)
      /\ y >= 1 => MaxUp(1, up) <= MaxUp(y, up)
  BY Zenon, <1>0, MaxUpFacts, MaxUpMono
<1>3. /\ MinDown(x, down) \in Nat /\ MinDown(y, down) \in Nat
      /\ MinDown(x, down) <= MinDown(y, down)
      /\ MinDown(x, down) <= x /\ MinDown(y, down) <= y
  BY Zenon, MinDownFacts, MinDownMono
<1>4. CASE y = 0
  BY <1>1, <1>2, <1>4 DEF clampChange
<1>5. CASE x = 0 /\ y > 0
  BY <1>1, <1>2, <1>3, <1>5 DEF clampChange
<1>6. CASE x > 0
  BY <1>1, <1>2, <1>3, <1>6 DEF clampChange
<1> QED
  BY <1>4, <1>5, <1>6

(* What the proofs need of a normalised policy, lines 57-83: in addition   *)
(* to the kinds of its fields, bounds that do not cross.                   *)
Normalised(q) ==
  /\ q \in Policy
  /\ q.TargetPerPod >= 1 /\ q.Headroom >= 100 /\ q.MinReplicas >= 0
  /\ q.UpMaxFactorPerStep > 0
  /\ q.DownMaxPercentPerStep \in 0..100
  /\ q.MaxReplicas > 0 => q.MinReplicas <= q.MaxReplicas

(* Normalise establishes it for every policy a caller can pass.            *)
LEMMA NormaliseFacts ==
  ASSUME NEW q \in Policy
  PROVE  Normalised(Normalise(q))
BY DEF Normalised, Normalise, Policy

(* One iteration of the loop stays within the bounds.                      *)
LEMMA NextOutBounds ==
  ASSUME NEW q, Normalised(q), NEW prev \in Nat, NEW need \in Nat
  PROVE  /\ NextOut(prev, need, q) \in Nat
         /\ q.MinReplicas <= NextOut(prev, need, q)
         /\ q.MaxReplicas > 0 => NextOut(prev, need, q) <= q.MaxReplicas
<1> DEFINE pods == roundPods(need, PodUnit(q), q.RoundingMode)
           wanted == clampBounds(pods, q.MinReplicas, q.MaxReplicas)
           limited == clampChange(prev, wanted, q.UpMaxFactorPerStep,
                                  q.DownMaxPercentPerStep)
<1>1. /\ q.MinReplicas \in Nat /\ q.MaxReplicas \in Int
      /\ q.MaxReplicas > 0 => q.MinReplicas <= q.MaxReplicas
      /\ q.UpMaxFactorPerStep \in Nat \ {0}
      /\ q.DownMaxPercentPerStep \in 0..100
      /\ PodUnit(q) \in Nat \ {0}
  BY DEF Normalised, Policy, PodUnit
<1>2. pods \in Nat
  BY <1>1, RoundPodsFacts
<1> HIDE DEF pods
<1>3. wanted \in Nat
  BY <1>1, <1>2 DEF clampBounds
<1> HIDE DEF wanted
<1>4. limited \in Nat
  BY Zenon, <1>1, <1>3, ClampChangeFacts
<1> HIDE DEF limited
<1>5. NextOut(prev, need, q) = clampBounds(limited, q.MinReplicas, q.MaxReplicas)
  BY DEF NextOut, pods, wanted, limited
<1> QED
  BY <1>1, <1>4, <1>5 DEF clampBounds

(* One iteration stays within the rate limits.  The second clampBounds     *)
(* cannot undo them because prev is itself within the bounds.              *)
LEMMA NextOutRate ==
  ASSUME NEW q, Normalised(q), NEW prev \in Nat, NEW need \in Nat,
         q.MinReplicas <= prev, q.MaxReplicas > 0 => prev <= q.MaxReplicas,
         q.UpMaxFactorPerStep >= 100
  PROVE  /\ NextOut(prev, need, q)
              <= MaxUp(IF prev = 0 THEN 1 ELSE prev, q.UpMaxFactorPerStep)
         /\ NextOut(prev, need, q) >= MinDown(prev, q.DownMaxPercentPerStep)
<1> DEFINE pods == roundPods(need, PodUnit(q), q.RoundingMode)
           wanted == clampBounds(pods, q.MinReplicas, q.MaxReplicas)
           limited == clampChange(prev, wanted, q.UpMaxFactorPerStep,
                                  q.DownMaxPercentPerStep)
           up == MaxUp(IF prev = 0 THEN 1 ELSE prev, q.UpMaxFactorPerStep)
           down == MinDown(prev, q.DownMaxPercentPerStep)
<1>1. /\ q.MinReplicas \in Nat /\ q.MaxReplicas \in Int
      /\ q.MaxReplicas > 0 => q.MinReplicas <= q.MaxReplicas
      /\ q.UpMaxFactorPerStep \in Nat \ {0}
      /\ q.DownMaxPercentPerStep \in 0..100
      /\ PodUnit(q) \in Nat \ {0}
  BY DEF Normalised, Policy, PodUnit
<1>2. pods \in Nat
  BY <1>1, RoundPodsFacts
<1> HIDE DEF pods
<1>3. wanted \in Nat
  BY <1>1, <1>2 DEF clampBounds
<1> HIDE DEF wanted
<1>4. limited \in Nat /\ limited <= up /\ limited >= down
  BY Zenon, <1>1, <1>3, ClampChangeFacts
<1>5. up \in Nat /\ prev <= up
  BY <1>1, MaxUpFacts
<1>6. down \in Nat /\ down <= prev
  BY Zenon, <1>1, MinDownFacts
<1> HIDE DEF limited, up, down
<1>7. NextOut(prev, need, q) = clampBounds(limited, q.MinReplicas, q.MaxReplicas)
  BY DEF NextOut, pods, wanted, limited
<1>8. NextOut(prev, need, q) <= up /\ NextOut(prev, need, q) >= down
  BY <1>1, <1>4, <1>5, <1>6, <1>7 DEF clampBounds
<1> QED
  BY <1>8 DEF up, down

(* One iteration keeps two ordered calls in order.                         *)
LEMMA NextOutMono ==
  ASSUME NEW q, Normalised(q), q.UpMaxFactorPerStep >= 100,
         NEW x \in Nat, NEW y \in Nat, x <= y,
         NEW a \in Nat, NEW b \in Nat, a <= b
  PROVE  NextOut(x, a, q) <= NextOut(y, b, q)
<1> DEFINE pods(z) == roundPods(z, PodUnit(q), q.RoundingMode)
           wanted(z) == clampBounds(pods(z), q.MinReplicas, q.MaxReplicas)
           limited(o, z) == clampChange(o, wanted(z), q.UpMaxFactorPerStep,
                                        q.DownMaxPercentPerStep)
<1>1. /\ q.MinReplicas \in Nat /\ q.MaxReplicas \in Int
      /\ q.MaxReplicas > 0 => q.MinReplicas <= q.MaxReplicas
      /\ q.UpMaxFactorPerStep \in Nat \ {0}
      /\ q.DownMaxPercentPerStep \in 0..100
      /\ PodUnit(q) \in Nat \ {0}
  BY DEF Normalised, Policy, PodUnit
<1>2. pods(a) \in Nat /\ pods(b) \in Nat /\ pods(a) <= pods(b)
  BY <1>1, RoundPodsFacts
<1> HIDE DEF pods
<1>3. wanted(a) \in Nat /\ wanted(b) \in Nat /\ wanted(a) <= wanted(b)
  BY <1>1, <1>2 DEF clampBounds
<1> HIDE DEF wanted
<1>4. /\ limited(x, a) \in Nat /\ limited(y, b) \in Nat
      /\ limited(x, a) <= limited(y, b)
  BY Zenon, <1>1, <1>3, ClampChangeFacts, ClampChangeMono
<1> HIDE DEF limited
<1>5. /\ NextOut(x, a, q)
           = clampBounds(limited(x, a), q.MinReplicas, q.MaxReplicas)
      /\ NextOut(y, b, q)
           = clampBounds(limited(y, b), q.MinReplicas, q.MaxReplicas)
  BY DEF NextOut, pods, wanted, limited
<1> QED
  BY <1>1, <1>4, <1>5 DEF clampBounds

(* Adj for two ordered forecasts of the same length: demands that are not  *)
(* negative and in the same order.  A quantile series replaces both or     *)
(* neither, because UseQuantile looks only at the length.                  *)
LEMMA AdjFacts ==
  ASSUME NEW q, Normalised(q), NEW lo \in Seq(Int), NEW hi \in Seq(Int),
         NEW m, SeriesOf(m), Len(lo) = Len(hi), \A j \in 1..Len(lo) : lo[j] <= hi[j]
  PROVE  /\ Adj(q, lo, m) \in [1..Len(lo) -> Nat]
         /\ Adj(q, hi, m) \in [1..Len(lo) -> Nat]
         /\ \A j \in 1..Len(lo) : Adj(q, lo, m)[j] <= Adj(q, hi, m)[j]
<1>1. q.Headroom \in Nat
  BY DEF Normalised, Policy
<1>2. UseQuantile(q, lo, m) <=> UseQuantile(q, hi, m)
  BY DEF UseQuantile
<1>3. CASE UseQuantile(q, lo, m)
  <2>1. m[q.QuantileLevel] \in Seq(Int) /\ Len(m[q.QuantileLevel]) = Len(lo)
    BY <1>3 DEF UseQuantile, SeriesOf
  <2>2. \A j \in 1..Len(lo) : NonNegative(m[q.QuantileLevel][j]) * 100 \in Nat
    <3>1. \A j \in 1..Len(lo) : m[q.QuantileLevel][j] \in Int
      BY <2>1
    <3>2. \A x \in Int : NonNegative(x) \in Nat /\ NonNegative(x) * 100 \in Nat
      BY DEF NonNegative
    <3> QED
      BY Zenon, <3>1, <3>2
  <2> QED
    BY <1>2, <1>3, <2>2, SMTT(30) DEF Adj
<1>4. CASE ~UseQuantile(q, lo, m)
  <2>1. \A j \in 1..Len(lo) :
          /\ NonNegative(lo[j]) \in Nat /\ NonNegative(hi[j]) \in Nat
          /\ NonNegative(lo[j]) <= NonNegative(hi[j])
    BY DEF NonNegative
  <2>2. \A x, y \in Nat : x <= y => /\ x * q.Headroom \in Nat
                                   /\ x * q.Headroom <= y * q.Headroom
    BY <1>1
  <2>3. \A j \in 1..Len(lo) :
          /\ NonNegative(lo[j]) * q.Headroom \in Nat
          /\ NonNegative(hi[j]) * q.Headroom \in Nat
          /\ NonNegative(lo[j]) * q.Headroom <= NonNegative(hi[j]) * q.Headroom
    BY <2>1, <2>2
  <2> QED
    BY Zenon, <1>2, <1>4, <2>3 DEF Adj
<1> QED
  BY <1>3, <1>4

(* The largest demand in the window is ordered as the demands are.         *)
LEMMA NeedMono ==
  ASSUME NEW m \in Nat, NEW q, NEW j \in 1..m,
         NEW lo \in [1..m -> Nat], NEW hi \in [1..m -> Nat],
         \A k \in 1..m : lo[k] <= hi[k],
         NEW a \in Nat, NEW b \in Nat,
         IsNeed(a, lo, q, m, j), IsNeed(b, hi, q, m, j)
  PROVE  a <= b
<1>1. PICK k \in Window(q, m, j) : a = lo[k]
  BY DEF IsNeed
<1>2. k \in 1..m /\ lo[k] <= hi[k] /\ hi[k] <= b
  BY <1>1 DEF IsNeed, Window
<1> QED
  BY <1>1, <1>2

(* A demand that is largest in its window exists: need of lines 111-120.   *)
LEMMA LargestExists ==
  ASSUME NEW m \in Nat, NEW f \in [1..m -> Nat], NEW W, W \subseteq 1..m, W # {}
  PROVE  \E j \in W : \A k \in W : f[k] <= f[j]
<1> DEFINE Top(b) == W \cap (1..b) # {} =>
                       \E j \in W \cap (1..b) : \A k \in W \cap (1..b) : f[k] <= f[j]
           T == {b \in Nat : Top(b)}
<1>1. 0 \in T
  OBVIOUS
<1>2. ASSUME NEW b \in Nat, b \in T PROVE b + 1 \in T
  <2>1. Top(b)
    BY <1>2
  <2>2. CASE b + 1 \notin W
    <3>1. W \cap (1..b + 1) = W \cap (1..b)
      BY <2>2
    <3>2. Top(b + 1)
      BY Zenon, <2>1, <3>1
    <3> HIDE DEF Top
    <3> QED
      BY <3>2
  <2>3. CASE b + 1 \in W
    <3>1. b + 1 \in W \cap (1..b + 1) /\ f[b + 1] \in Nat
      BY <2>3
    <3>2. \A k \in W \cap (1..b + 1) : k = b + 1 \/ k \in W \cap (1..b)
      OBVIOUS
    <3>3. \E j \in W \cap (1..b + 1) : \A k \in W \cap (1..b + 1) : f[k] <= f[j]
      <4>1. CASE \A k \in W \cap (1..b) : f[k] <= f[b + 1]
        <5>1. \A k \in W \cap (1..b + 1) : f[k] <= f[b + 1]
          BY <3>1, <3>2, <4>1
        <5> QED
          BY Zenon, <3>1, <5>1
      <4>2. CASE ~\A k \in W \cap (1..b) : f[k] <= f[b + 1]
        <5>1. PICK h \in W \cap (1..b) : ~(f[h] <= f[b + 1])
          BY <4>2
        <5>2. PICK j \in W \cap (1..b) : \A k \in W \cap (1..b) : f[k] <= f[j]
          BY Zenon, <2>1, <5>1
        <5>3. f[j] \in Nat /\ f[h] \in Nat /\ f[h] <= f[j] /\ f[b + 1] <= f[j]
          BY <3>1, <5>1, <5>2
        <5>4. j \in W \cap (1..b + 1) /\ \A k \in W \cap (1..b + 1) : f[k] <= f[j]
          BY <3>2, <5>2, <5>3
        <5> QED
          BY <5>4
      <4> QED
        BY <4>1, <4>2
    <3> QED
      BY <3>3
  <2> QED
    BY Zenon, <2>2, <2>3
<1> HIDE DEF T
<1>3. m \in T
  BY Zenon, <1>1, <1>2, Induction
<1>4. W \cap (1..m) = W
  BY Zenon
<1> QED
  BY Zenon, <1>3, <1>4 DEF T

(* The demand of a step, chosen as the largest of the prewarm window, is   *)
(* one of the demands.                                                     *)
LEMMA NeedFacts ==
  ASSUME NEW m \in Nat, NEW adj \in [1..m -> Nat], NEW q,
         q.PrewarmWindowSteps \in Nat, NEW k \in 1..m
  PROVE  LET need == CHOOSE x \in {adj[j] : j \in 1..m} : IsNeed(x, adj, q, m, k)
         IN need \in Nat /\ IsNeed(need, adj, q, m, k)
<1> DEFINE W == Window(q, m, k)
           D == {adj[j] : j \in 1..m}
<1>1. W \subseteq 1..m /\ k \in W
  BY DEF Window
<1> HIDE DEF W
<1>2. PICK j \in W : \A h \in W : adj[h] <= adj[j]
  BY Zenon, <1>1, LargestExists
<1>3. adj[j] \in D /\ IsNeed(adj[j], adj, q, m, k)
  BY <1>1, <1>2 DEF IsNeed, W
<1>4. \A x \in D : x \in Nat
  OBVIOUS
<1> HIDE DEF D
<1> DEFINE need == CHOOSE x \in D : IsNeed(x, adj, q, m, k)
<1>5. need \in D /\ IsNeed(need, adj, q, m, k)
  BY <1>3
<1> QED
  BY Zenon, <1>4, <1>5 DEF D

(* One count for each of m forecast steps, every count within the bounds,  *)
(* and every count the result of one iteration from the one before, the    *)
(* first from the bounded prev.                                            *)
Before(plan, prev, q, k) ==
  IF k = 1 THEN clampBounds(prev, q.MinReplicas, q.MaxReplicas) ELSE plan[k - 1]

InBounds(q) ==
  {x \in Nat : q.MinReplicas <= x /\ (q.MaxReplicas > 0 => x <= q.MaxReplicas)}

Iterated(plan, prev, q, m) ==
  /\ plan \in [1..m -> InBounds(q)]
  /\ \A k \in 1..m :
       /\ Before(plan, prev, q, k) \in InBounds(q)
       /\ \E need \in Nat : plan[k] = NextOut(Before(plan, prev, q, k), need, q)

(* The whole of ToReplicas.                                                *)
LEMMA ToReplicasFacts ==
  ASSUME NEW prev \in Int, NEW forecast \in Seq(Int), NEW policy \in Policy,
         NEW quantiles, SeriesOf(quantiles)
  PROVE  Iterated(ToReplicas(prev, forecast, policy, quantiles), prev,
                  Normalise(policy), Len(forecast))
<1> DEFINE q == Normalise(policy)
           m == Len(forecast)
           adj == Adj(q, forecast, quantiles)
           need == [k \in 1..m |->
                      CHOOSE x \in {adj[j] : j \in 1..m} : IsNeed(x, adj, q, m, k)]
           start == clampBounds(prev, q.MinReplicas, q.MaxReplicas)
           IsOut(f) == f = [k \in 0..m |-> IF k = 0 THEN start
                                            ELSE NextOut(f[k - 1], need[k], q)]
           out == CHOOSE f : IsOut(f)
           plan == ToReplicas(prev, forecast, policy, quantiles)
           S == InBounds(q)
<1>1. plan = [k \in 1..m |-> out[k]]
  BY DEF ToReplicas
<1>2. Normalised(q)
  BY NormaliseFacts
<1> HIDE DEF q, plan
<1>3. m \in Nat
  OBVIOUS
<1>4. adj \in [1..m -> Nat]
  BY <1>2, AdjFacts
<1> HIDE DEF adj, m
<1>5. q.PrewarmWindowSteps \in Nat
  BY DEF q, Normalise, Policy
<1>6. need \in [1..m -> Nat]
  BY Zenon, <1>3, <1>4, <1>5, NeedFacts
<1> HIDE DEF need
<1>7. start \in S
  <2>1. /\ q.MinReplicas \in Nat /\ q.MaxReplicas \in Int
        /\ q.MaxReplicas > 0 => q.MinReplicas <= q.MaxReplicas
    BY <1>2 DEF Normalised, Policy
  <2> QED
    BY <2>1 DEF clampBounds, InBounds
<1> HIDE DEF start
<1>8. ASSUME NEW x \in S, NEW d \in Nat PROVE NextOut(x, d, q) \in S
  BY Zenon, <1>2, NextOutBounds DEF InBounds
<1> HIDE DEF S
<1>9. IsOut(out)
  <2> DEFINE G == [k \in Nat |-> [x \in S |-> IF k \in 1..m THEN NextOut(x, need[k], q)
                                            ELSE x]]
  <2>1. G \in [Nat -> [S -> S]]
    BY <1>6, <1>8
  <2>2. \A k \in 1..m, x \in S : G[k][x] = NextOut(x, need[k], q)
    BY <1>3
  <2> HIDE DEF G
  <2>3. PICK f : Solves(f, m, S, start, G)
    BY Zenon, <1>3, <1>7, <2>1, FiniteRecursion
  <2>4. ASSUME NEW k \in 1..m PROVE f[k] = NextOut(f[k - 1], need[k], q)
    <3>1. f[k - 1] \in S
      BY <1>3, <2>3 DEF Solves
    <3>2. f[k] = G[k][f[k - 1]]
      BY Zenon, <2>3 DEF Solves
    <3> QED
      BY Zenon, <2>2, <3>1, <3>2
  <2>5. IsOut(f)
    <3>1. f \in [0..m -> S] /\ f[0] = start
      BY <2>3 DEF Solves
    <3>2. \A k \in 0..m : f[k] = IF k = 0 THEN start ELSE NextOut(f[k - 1], need[k], q)
      BY <1>3, <2>4, <3>1
    <3> QED
      BY Zenon, <3>1, <3>2
  <2> QED
    BY Zenon, <2>5
<1> HIDE DEF out
<1>10. out[0] = start /\ \A k \in 1..m : out[k] = NextOut(out[k - 1], need[k], q)
  BY <1>3, <1>9
<1> HIDE DEF IsOut
<1>11. \A k \in 0..m : out[k] \in S
  <2> DEFINE T == {k \in Nat : k <= m => out[k] \in S}
  <2>1. 0 \in T
    BY <1>7, <1>10
  <2>2. ASSUME NEW k \in Nat, k \in T PROVE k + 1 \in T
    <3>1. CASE k + 1 <= m
      <4>1. k + 1 \in 1..m /\ k + 1 - 1 = k /\ out[k] \in S
        BY <1>3, <2>2, <3>1
      <4>2. out[k + 1] = NextOut(out[k], need[k + 1], q) /\ need[k + 1] \in Nat
        BY <1>6, <1>10, <4>1
      <4> QED
        BY <1>8, <4>1, <4>2
    <3>2. CASE ~(k + 1 <= m)
      BY <3>2
    <3> QED
      BY <3>1, <3>2
  <2> HIDE DEF T
  <2>3. Nat \subseteq T
    BY Zenon, <2>1, <2>2, Induction
  <2> QED
    BY <1>3, <2>3 DEF T
<1> DEFINE before(k) == Before(plan, prev, q, k)
<1>12. ASSUME NEW k \in 1..m PROVE before(k) = out[k - 1]
  BY <1>1, <1>3, <1>10 DEF Before, start
<1> HIDE DEF before
<1>13. ASSUME NEW k \in 1..m
       PROVE  /\ plan[k] \in S /\ before(k) \in S
              /\ \E d \in Nat : plan[k] = NextOut(before(k), d, q)
  <2>1. plan[k] = out[k] /\ before(k) = out[k - 1] /\ need[k] \in Nat
    BY <1>1, <1>6, <1>12
  <2>2. k \in 0..m /\ k - 1 \in 0..m
    BY <1>3
  <2> QED
    BY Zenon, <1>10, <1>11, <2>1, <2>2
<1>14. plan \in [1..m -> S]
  BY <1>1, <1>13
<1>15. Iterated(plan, prev, q, m)
  BY Zenon, <1>13, <1>14 DEF Iterated, before, S
<1> QED
  BY <1>15 DEF m, q, plan

(* Normalise keeps the limits of a policy that validateWorkload accepts.   *)
LEMMA NormaliseKeeps ==
  ASSUME NEW pol \in Policy, 0 <= pol.MinReplicas, 0 < pol.UpMaxFactorPerStep,
         pol.MinReplicas <= pol.MaxReplicas, pol.DownMaxPercentPerStep \in 0..100
  PROVE  /\ Normalise(pol).MinReplicas = pol.MinReplicas
         /\ Normalise(pol).MaxReplicas = pol.MaxReplicas
         /\ Normalise(pol).UpMaxFactorPerStep = pol.UpMaxFactorPerStep
         /\ Normalise(pol).DownMaxPercentPerStep = pol.DownMaxPercentPerStep
BY DEF Normalise, Policy

(* A plan of ToReplicas keeps what MultiForecaster and Pipeline rely on,   *)
(* for every forecast and every policy that validateWorkload lets through: *)
(* one count per forecast step, each within MinReplicas and MaxReplicas,   *)
(* and the first one within one rate step of prev.                         *)
THEOREM ToReplicasLimits ==
  ASSUME NEW pol \in Policy, 0 <= pol.MinReplicas, 0 < pol.MaxReplicas,
         0 < pol.UpMaxFactorPerStep, pol.DownMaxPercentPerStep \in 0..100,
         NEW prev \in pol.MinReplicas..pol.MaxReplicas,
         NEW forecast \in Seq(Int), NEW quantiles, SeriesOf(quantiles)
  PROVE  /\ Len(ToReplicas(prev, forecast, pol, quantiles)) = Len(forecast)
         /\ KeepsLimits(ToReplicas(prev, forecast, pol, quantiles), prev, pol)
<1> DEFINE q == Normalise(pol)
           plan == ToReplicas(prev, forecast, pol, quantiles)
           m == Len(forecast)
<1>1. /\ pol.MinReplicas \in Nat /\ pol.MaxReplicas \in Nat /\ prev \in Nat
      /\ pol.MinReplicas <= pol.MaxReplicas
  BY DEF Policy
<1>2. /\ q.MinReplicas = pol.MinReplicas /\ q.MaxReplicas = pol.MaxReplicas
      /\ q.UpMaxFactorPerStep = pol.UpMaxFactorPerStep
      /\ q.DownMaxPercentPerStep = pol.DownMaxPercentPerStep
  BY Zenon, <1>1, NormaliseKeeps
<1>3. Normalised(q) /\ Iterated(plan, prev, q, m) /\ m \in Nat
  BY <1>1, NormaliseFacts, ToReplicasFacts
<1> HIDE DEF q, plan, m
<1>4. plan \in [1..m -> Nat] /\ \A k \in 1..m : WithinBounds(pol, plan[k])
  BY Zenon, <1>1, <1>2, <1>3 DEF Iterated, InBounds, WithinBounds
<1>5. plan \in Seq(Nat) /\ Len(plan) = m
  BY Zenon, <1>3, <1>4, FunctionIsSeq
<1>6. ASSUME 1 \in 1..m, pol.UpMaxFactorPerStep >= 100
      PROVE  WithinStep(pol, prev, plan[1])
  <2>1. Before(plan, prev, q, 1) = prev
    BY <1>1, <1>2 DEF Before, clampBounds
  <2>2. PICK need \in Nat : plan[1] = NextOut(prev, need, q)
    BY Zenon, <1>3, <1>6, <2>1 DEF Iterated
  <2> QED
    BY <1>1, <1>2, <1>3, <1>6, <2>2, NextOutRate DEF WithinStep
<1>7. plan # << >> => 1 \in 1..m
  BY <1>3, <1>5
<1> QED
  BY Zenon, <1>4, <1>5, <1>6, <1>7 DEF KeepsLimits, plan, m

------------------------------------------------------------------------------
(* The rate limits over several steps.                                     *)

(* Repeat applies its first argument n times.                             *)
LEMMA RepeatFacts ==
  ASSUME NEW g \in [Nat -> Nat], NEW c \in Nat, NEW n \in Nat
  PROVE  /\ Repeat(g, c, 0) = c
         /\ Repeat(g, c, n) \in Nat
         /\ Repeat(g, c, n + 1) = g[Repeat(g, c, n)]
<1> DEFINE Is(f, m) == f = [k \in 0..m |-> IF k = 0 THEN c ELSE g[f[k - 1]]]
           R(m) == CHOOSE f : Is(f, m)
<1>1. ASSUME NEW m \in Nat PROVE Is(R(m), m)
  <2> DEFINE G == [k \in Nat |-> g]
  <2>1. G \in [Nat -> [Nat -> Nat]] /\ \A k \in Nat : G[k] = g
    OBVIOUS
  <2> HIDE DEF G
  <2>2. PICK f : Solves(f, m, Nat, c, G)
    BY Zenon, <2>1, FiniteRecursion
  <2>3. Is(f, m)
    <3>0. ASSUME NEW k \in 1..m PROVE f[k] = g[f[k - 1]]
      <4>1. f[k] = G[k][f[k - 1]]
        BY <2>2 DEF Solves
      <4>2. G[k] = g
        BY <2>1
      <4> QED
        BY <4>1, <4>2
    <3>1. /\ f \in [0..m -> Nat] /\ f[0] = c
          /\ \A k \in 1..m : f[k] = g[f[k - 1]]
      BY Zenon, <2>2, <3>0 DEF Solves
    <3>2. \A k \in 0..m : f[k] = IF k = 0 THEN c ELSE g[f[k - 1]]
      BY <3>1
    <3> QED
      BY <3>1, <3>2
  <2> HIDE DEF Is
  <2> QED
    BY <2>3
<1>2. ASSUME NEW m \in Nat
      PROVE  R(m)[0] = c /\ \A k \in 1..m : R(m)[k] = g[R(m)[k - 1]]
  <2> DEFINE f == R(m)
  <2>1. f = [k \in 0..m |-> IF k = 0 THEN c ELSE g[f[k - 1]]]
    BY Zenon, <1>1
  <2> HIDE DEF f
  <2>2. f[0] = c
    BY <2>1
  <2>3. ASSUME NEW k \in 1..m PROVE f[k] = g[f[k - 1]]
    <3>1. k \in 0..m /\ k # 0
      OBVIOUS
    <3> QED
      BY <2>1, <3>1, Zenon
  <2> QED
    BY Zenon, <2>2, <2>3 DEF f
<1>3. \A m : Repeat(g, c, m) = R(m)[m]
  BY DEF Repeat
<1> HIDE DEF R
<1>4. ASSUME NEW k \in Nat
      PROVE  k <= n => R(n)[k] \in Nat /\ R(n + 1)[k] = R(n)[k]
  <2> DEFINE T == {j \in Nat : j <= n => R(n)[j] \in Nat /\ R(n + 1)[j] = R(n)[j]}
  <2>1. 0 \in T
    BY <1>2
  <2>2. ASSUME NEW j \in Nat, j \in T PROVE j + 1 \in T
    <3>1. CASE j + 1 <= n
      <4>1. j + 1 \in 1..n /\ j + 1 \in 1..n + 1 /\ (j + 1) - 1 = j /\ n + 1 \in Nat
        BY <3>1
      <4>2. R(n)[j] \in Nat /\ R(n + 1)[j] = R(n)[j]
        BY <2>2, <3>1
      <4>3. R(n)[j + 1] = g[R(n)[j]] /\ R(n + 1)[j + 1] = g[R(n + 1)[j]]
        BY Zenon, <1>2, <4>1
      <4> QED
        BY <4>2, <4>3
    <3>2. CASE ~(j + 1 <= n)
      BY <3>2
    <3> QED
      BY Zenon, <3>1, <3>2
  <2> HIDE DEF T
  <2>3. k \in T
    BY Zenon, <2>1, <2>2, Induction
  <2> QED
    BY <2>3 DEF T
<1>5. R(n)[n] \in Nat /\ R(n + 1)[n] = R(n)[n]
  BY <1>4
<1>6. R(n + 1)[n + 1] = g[R(n + 1)[n]]
  <2>1. n + 1 \in 1..n + 1 /\ (n + 1) - 1 = n /\ n + 1 \in Nat
    OBVIOUS
  <2> QED
    BY <1>2, <2>1
<1> QED
  BY Zenon, <1>2, <1>3, <1>5, <1>6

(* The counts that rate steps can reach: one step from any count between   *)
(* the extremes of n steps stays between those of n + 1.                   *)
LEMMA RateStepFacts ==
  ASSUME NEW c \in Nat, NEW n \in Nat, NEW up \in Nat \ {0}, NEW down \in 0..100
  PROVE  StepsReach(c, up, down, n)
<1> DEFINE g == [x \in Nat |-> MaxUp(IF x = 0 THEN 1 ELSE x, up)]
           d == [x \in Nat |-> MinDown(x, down)]
           H == Highest(c, up, n)
           L == Lowest(c, down, n)
<1>2. g \in [Nat -> Nat]
  <2>1. \A x \in Nat : MaxUp(IF x = 0 THEN 1 ELSE x, up) \in Nat
    <3>1. \A x \in Nat : (IF x = 0 THEN 1 ELSE x) \in Nat
      OBVIOUS
    <3> QED
      BY Zenon, <3>1, MaxUpFacts
  <2> QED
    BY <2>1
<1>3. d \in [Nat -> Nat]
  BY Zenon, MinDownFacts
<1>4. \A x \in Nat : g[x] = MaxUp(IF x = 0 THEN 1 ELSE x, up) /\ d[x] = MinDown(x, down)
  OBVIOUS
<1>5. \A m : Highest(c, up, m) = Repeat(g, c, m) /\ Lowest(c, down, m) = Repeat(d, c, m)
  BY DEF Highest, Lowest
<1> HIDE DEF g, d
<1>6. /\ Highest(c, up, 0) = c /\ H \in Nat /\ Highest(c, up, n + 1) = g[H]
      /\ Lowest(c, down, 0) = c /\ L \in Nat /\ Lowest(c, down, n + 1) = d[L]
  <2>1. /\ Repeat(g, c, 0) = c /\ Repeat(g, c, n) \in Nat
        /\ Repeat(g, c, n + 1) = g[Repeat(g, c, n)]
    BY Zenon, <1>2, RepeatFacts
  <2>2. /\ Repeat(d, c, 0) = c /\ Repeat(d, c, n) \in Nat
        /\ Repeat(d, c, n + 1) = d[Repeat(d, c, n)]
    BY Zenon, <1>3, RepeatFacts
  <2> QED
    BY <1>5, <2>1, <2>2, Zenon
<1> HIDE DEF H, L
<1>7. ASSUME NEW x \in Nat, NEW y \in Nat, x \in L..H,
             y <= MaxUp(IF x = 0 THEN 1 ELSE x, up), y >= MinDown(x, down)
      PROVE  y \in d[L]..g[H]
  <2> DEFINE b == IF x = 0 THEN 1 ELSE x
             B == IF H = 0 THEN 1 ELSE H
  <2>1. b \in Nat /\ B \in Nat /\ b <= B /\ L <= x
    BY <1>6, <1>7
  <2>2. y <= MaxUp(b, up)
    BY <1>7
  <2> HIDE DEF b, B
  <2>3. /\ MaxUp(b, up) <= MaxUp(B, up) /\ MaxUp(b, up) \in Nat /\ MaxUp(B, up) \in Nat
        /\ MinDown(L, down) <= MinDown(x, down)
        /\ MinDown(L, down) \in Nat /\ MinDown(x, down) \in Nat
    BY Zenon, <1>6, <2>1, MaxUpMono, MaxUpFacts, MinDownMono, MinDownFacts
  <2>4. y <= MaxUp(B, up) /\ y >= MinDown(L, down)
    BY <1>7, <2>2, <2>3
  <2>5. g[H] = MaxUp(B, up) /\ d[L] = MinDown(L, down)
    BY <1>4, <1>6 DEF B
  <2> QED
    BY <2>3, <2>4, <2>5
<1> QED
  BY <1>6, <1>7 DEF H, L, StepsReach

------------------------------------------------------------------------------
(* Sums.                                                                   *)

(* x is the sum of w[1], ..., w[n], and L the sums on the way to it.       *)
Summing(L, w, n) ==
  /\ L \in [0..n -> Int]
  /\ L[0] = 0 /\ \A k \in 1..n : L[k] = L[k - 1] + w[k]

Numbers(n) == [1..n -> Int]

SumIs(x, w, n) == \E L : Summing(L, w, n) /\ x = L[n]

(* Every list of numbers has a sum.                                        *)
LEMMA SumExists ==
  ASSUME NEW n \in Nat, NEW w \in Numbers(n)
  PROVE  \E x \in Int : SumIs(x, w, n)
<1> USE DEF Numbers
<1> DEFINE S == Int
           G == [k \in Nat |-> [x \in S |-> IF k \in 1..n THEN x + w[k] ELSE x]]
<1>1. G \in [Nat -> [S -> S]] /\ 0 \in S
  OBVIOUS
<1>2. \A k \in 1..n, x \in S : G[k][x] = x + w[k]
  OBVIOUS
<1> HIDE DEF G, S
<1>3. PICK L : Solves(L, n, S, 0, G)
  BY <1>1, FiniteRecursion
<1>4. L \in [0..n -> Int] /\ L[0] = 0
  BY <1>3 DEF Solves, S
<1>5. ASSUME NEW k \in 1..n PROVE L[k] = L[k - 1] + w[k]
  <2>1. k - 1 \in 0..n
    OBVIOUS
  <2>2. L[k] = G[k][L[k - 1]] /\ L[k - 1] \in S
    BY Zenon, <1>3, <2>1 DEF Solves
  <2> QED
    BY <1>2, <2>2
<1>6. Summing(L, w, n) /\ L[n] \in Int
  BY <1>4, <1>5 DEF Summing
<1> QED
  BY <1>6 DEF SumIs

(* One step of a summation.                                                *)
LEMMA SummingStep ==
  ASSUME NEW n \in Nat, NEW w, NEW L, Summing(L, w, n), NEW k \in Nat, k + 1 <= n
  PROVE  L[k + 1] = L[k] + w[k + 1] /\ L[k] \in Int /\ L[k + 1] \in Int
<1>1. k + 1 \in 1..n /\ k \in 0..n /\ k + 1 \in 0..n /\ k + 1 - 1 = k
  OBVIOUS
<1>2. L[k + 1] = L[k + 1 - 1] + w[k + 1]
  BY <1>1 DEF Summing
<1>3. L[k] \in Int /\ L[k + 1] \in Int
  BY <1>1 DEF Summing
<1> QED
  BY Zenon, <1>1, <1>2, <1>3

(* Two series that differ in one place have sums that differ by as much.   *)
DiffersAt(v, w, n, j, d) ==
  v[j] = w[j] + d /\ \A i \in 1..n : i # j => v[i] = w[i]

Apart(x, y, d) == x \in Int /\ y = x + d

(* Lists that differ at one place differ by as much in their sums.         *)
LEMMA SumDiffers ==
  ASSUME NEW n \in Nat, NEW w \in Numbers(n), NEW v \in Numbers(n),
         NEW j \in 1..n, NEW d \in Int, DiffersAt(v, w, n, j, d),
         NEW x, NEW y, SumIs(x, w, n), SumIs(y, v, n)
  PROVE  Apart(x, y, d)
<1>1. PICK L : Summing(L, w, n) /\ x = L[n]
  BY DEF SumIs
<1>2. PICK M : Summing(M, v, n) /\ y = M[n]
  BY DEF SumIs
<1> DEFINE Far(k) == M[k] = L[k] + (IF k >= j THEN d ELSE 0)
           T == {k \in Nat : k <= n => Far(k)}
<1>3. 0 \in T
  BY <1>1, <1>2 DEF Summing
<1>4. ASSUME NEW k \in Nat, k \in T PROVE k + 1 \in T
  <2>1. CASE k + 1 <= n
    <3>1. k + 1 \in 1..n /\ Far(k)
      BY <1>4, <2>1
    <3>2. /\ L[k + 1] = L[k] + w[k + 1] /\ M[k + 1] = M[k] + v[k + 1]
          /\ L[k] \in Int /\ M[k] \in Int
      BY <1>1, <1>2, <2>1, SummingStep
    <3>3. v[k + 1] = w[k + 1] + (IF k + 1 = j THEN d ELSE 0) /\ w[k + 1] \in Int
      <4>1. v[k + 1] \in Int /\ w[k + 1] \in Int
        BY Zenon, <3>1 DEF Numbers
      <4>2. k + 1 # j => v[k + 1] = w[k + 1]
        BY <3>1 DEF DiffersAt
      <4> QED
        BY <4>1, <4>2 DEF DiffersAt
    <3>4. (IF k + 1 >= j THEN d ELSE 0)
          = (IF k >= j THEN d ELSE 0) + (IF k + 1 = j THEN d ELSE 0)
      OBVIOUS
    <3>6. Far(k + 1)
      BY <3>1, <3>2, <3>3, <3>4
    <3> HIDE DEF Far
    <3> QED
      BY <3>6
  <2>2. CASE ~(k + 1 <= n)
    BY <2>2
  <2> QED
    BY Zenon, <2>1, <2>2
<1> HIDE DEF T
<1>5. n \in T
  BY Zenon, <1>3, <1>4, Induction
<1>6. Far(n)
  BY <1>5 DEF T
<1> QED
  BY <1>1, <1>2, <1>6 DEF Summing, Apart

(* A list has one sum.                                                     *)
LEMMA SumUnique ==
  ASSUME NEW n \in Nat, NEW w \in Numbers(n),
         NEW x, NEW y, SumIs(x, w, n), SumIs(y, w, n)
  PROVE  x \in Int /\ x = y
<1>1. CASE n = 0
  BY <1>1 DEF SumIs, Summing
<1>2. CASE n # 0
  <2>1. 1 \in 1..n /\ DiffersAt(w, w, n, 1, 0)
    BY <1>2 DEF DiffersAt, Numbers
  <2>2. Apart(x, y, 0)
    BY <2>1, SumDiffers
  <2> QED
    BY <2>2 DEF Apart
<1> QED
  BY Zenon, <1>1, <1>2

(* The sum of zeros.                                                       *)
LEMMA SumOfZeros ==
  ASSUME NEW n \in Nat, NEW w \in Numbers(n), \A i \in 1..n : w[i] = 0
  PROVE  SumIs(0, w, n)
<1> DEFINE L == [k \in 0..n |-> 0]
<1>1. Summing(L, w, n) /\ L[n] = 0
  BY DEF Summing, Numbers
<1> QED
  BY <1>1 DEF SumIs

(* The order of the summands does not matter.                              *)
LEMMA SumPermuted ==
  ASSUME NEW n \in Nat, NEW w \in Numbers(n), NEW u \in Numbers(n),
         NEW f \in Bijection(1..n, 1..n), \A i \in 1..n : u[i] = w[f[i]],
         NEW x, NEW y, SumIs(x, u, n), SumIs(y, w, n)
  PROVE  x = y
<1>1. /\ f \in [1..n -> 1..n]
      /\ \A i, k \in 1..n : f[i] = f[k] => i = k
      /\ \A j \in 1..n : \E i \in 1..n : f[i] = j
  BY DEF Bijection, Injection, Surjection, IsInjective
<1>2. PICK L : Summing(L, u, n) /\ x = L[n]
  BY DEF SumIs
<1> DEFINE place(j) == CHOOSE i \in 1..n : f[i] = j
<1>3. ASSUME NEW j \in 1..n PROVE place(j) \in 1..n /\ f[place(j)] = j
  BY <1>1
<1>4. ASSUME NEW i \in 1..n PROVE place(f[i]) = i /\ f[i] \in 1..n
  BY Zenon, <1>1, <1>3
<1> HIDE DEF place
<1> DEFINE mask(m) == [j \in 1..n |-> IF place(j) <= m THEN w[j] ELSE 0]
           T == {m \in Nat : m <= n => SumIs(L[m], mask(m), n)}
<1>5. \A m \in Nat : mask(m) \in Numbers(n)
  BY DEF Numbers
<1>6. 0 \in T
  <2>1. \A j \in 1..n : mask(0)[j] = 0
    BY <1>3
  <2> HIDE DEF mask
  <2>2. SumIs(0, mask(0), n)
    BY Zenon, <1>5, <2>1, SumOfZeros
  <2> QED
    BY Zenon, <1>2, <2>2 DEF Summing
<1>7. ASSUME NEW m \in Nat, m \in T PROVE m + 1 \in T
  <2>1. CASE m + 1 <= n
    <3> DEFINE j == f[m + 1]
    <3>1. m + 1 \in 1..n /\ m + 1 - 1 = m /\ SumIs(L[m], mask(m), n)
      BY <1>7, <2>1
    <3>2. j \in 1..n /\ place(j) = m + 1 /\ w[j] \in Int /\ u[m + 1] = w[j]
      BY Zenon, <1>4, <3>1 DEF Numbers
    <3>3. \A i \in 1..n : i # j => place(i) # m + 1 /\ place(i) \in 1..n
      BY Zenon, <1>3
    <3> HIDE DEF j
    <3>4. mask(m)[j] = 0 /\ mask(m + 1)[j] = mask(m)[j] + w[j]
      BY <3>2
    <3>5. ASSUME NEW i \in 1..n, i # j PROVE mask(m + 1)[i] = mask(m)[i]
      <4>1. place(i) \in Int /\ (place(i) <= m + 1 <=> place(i) <= m)
        BY <3>3, <3>5
      <4> QED
        BY <4>1
    <3> HIDE DEF mask
    <3> DEFINE a == mask(m)
               b == mask(m + 1)
               d == w[j]
               before == L[m]
    <3>6. a \in Numbers(n) /\ b \in Numbers(n) /\ d \in Int
      BY <1>5, <3>2
    <3>7. DiffersAt(b, a, n, j, d) /\ SumIs(before, a, n) /\ j \in 1..n
      BY Zenon, <3>1, <3>2, <3>4, <3>5 DEF DiffersAt
    <3> HIDE DEF a, b, d, before
    <3>8. PICK z \in Int : SumIs(z, b, n)
      BY Zenon, <3>6, SumExists
    <3>9. Apart(before, z, d)
      BY <3>6, <3>7, <3>8, SumDiffers, Zenon
    <3>10. L[m + 1] = L[m] + w[j]
      BY <1>2, <2>1, <3>2, SummingStep
    <3>11. SumIs(L[m + 1], mask(m + 1), n)
      BY Zenon, <3>8, <3>9, <3>10 DEF Apart, b, d, before
    <3> QED
      BY <3>11
  <2>2. CASE ~(m + 1 <= n)
    BY <2>2
  <2> QED
    BY Zenon, <2>1, <2>2
<1> HIDE DEF T
<1>8. n \in T
  BY Zenon, <1>6, <1>7, Induction
<1>9. SumIs(L[n], mask(n), n)
  BY <1>8 DEF T
<1>10. mask(n) = w
  <2>1. \A j \in 1..n : mask(n)[j] = w[j]
    BY <1>3
  <2> QED
    BY <2>1 DEF Numbers
<1> HIDE DEF mask
<1> QED
  BY <1>2, <1>9, <1>10, SumUnique

------------------------------------------------------------------------------
(* The answers of a range query, flattened and aggregated by second.       *)

(* Maps from seconds to loads.                                             *)
Maps == UNION {[D -> Int] : D \in {E \in SUBSET Int : IsFiniteSet(E)}}

(* What the map aggregateRangeResult fills can be.                         *)
LEMMA MapsFacts ==
  ASSUME NEW acc
  PROVE  acc \in Maps <=> /\ DOMAIN acc \subseteq Int /\ IsFiniteSet(DOMAIN acc)
                          /\ acc \in [DOMAIN acc -> Int]
BY DEF Maps

(* The map is empty at first.                                              *)
LEMMA EmptyMap == << >> \in Maps /\ DOMAIN << >> = {}
<1>1. << >> \in [{} -> Int] /\ DOMAIN << >> = {}
  OBVIOUS
<1>2. IsFiniteSet({})
  BY FS_EmptySet
<1> QED
  BY <1>1, <1>2 DEF Maps

Added(r, acc, s) ==
  LET sec == s.ts \div 1000
  IN r = [t \in DOMAIN acc \cup {sec} |->
            (IF t \in DOMAIN acc THEN acc[t] ELSE 0) + (IF t = sec THEN s.value ELSE 0)]

(* One sample added to the map.                                            *)
LEMMA AddFacts ==
  ASSUME NEW acc \in Maps, NEW s \in Sample
  PROVE  Add(acc, s) \in Maps /\ Added(Add(acc, s), acc, s)
<1> DEFINE sec == s.ts \div 1000
           D == DOMAIN acc \cup {sec}
<1>1. s.ts \in Int /\ s.value \in Int /\ sec \in Int
  BY DEF Sample
<1>2. DOMAIN acc \subseteq Int /\ IsFiniteSet(DOMAIN acc) /\ acc \in [DOMAIN acc -> Int]
  BY MapsFacts
<1>3. D \subseteq Int /\ IsFiniteSet(D)
  BY <1>1, <1>2, FS_AddElement
<1>4. Add(acc, s) = [t \in D |-> (IF t \in DOMAIN acc THEN acc[t] ELSE 0)
                               + (IF t = sec THEN s.value ELSE 0)]
  BY DEF Add
<1> HIDE DEF D, sec
<1>5. Add(acc, s) \in [D -> Int]
  BY <1>1, <1>2, <1>4
<1>6. Add(acc, s) \in Maps
  BY Zenon, <1>3, <1>5 DEF Maps
<1> QED
  BY <1>4, <1>6 DEF Added, D, sec

(* The map stays one.                                                      *)
LEMMA AddInMaps ==
  ASSUME NEW acc \in Maps, NEW s \in Sample
  PROVE  Add(acc, s) \in Maps
BY AddFacts

(* The map after n samples.                                                *)
Accumulated(A, samples) ==
  /\ DOMAIN A = 0..Len(samples) /\ A[0] = << >>
  /\ \A n \in 0..Len(samples) : A[n] \in Maps
  /\ \A n \in 1..Len(samples) : A[n] = Add(A[n - 1], samples[n])
  /\ AggregateRangeResult(samples) = A[Len(samples)]

(* The loop of aggregateRangeResult over the samples, with the map after   *)
(* each of them.                                                           *)
LEMMA AggregateSteps ==
  ASSUME NEW samples \in Seq(Sample)
  PROVE  \E A : Accumulated(A, samples)
<1> DEFINE m == Len(samples)
           IsAcc(f) == f = [n \in 0..m |->
                          IF n = 0 THEN << >>
                          ELSE LET before == f[n - 1] IN Add(before, samples[n])]
           acc == CHOOSE f : IsAcc(f)
           S == Maps
           G == [k \in Nat |-> [x \in S |-> IF k \in 1..m THEN Add(x, samples[k]) ELSE x]]
<1>1. AggregateRangeResult(samples) = acc[m]
  BY DEF AggregateRangeResult
<1>2. m \in Nat /\ \A k \in 1..m : samples[k] \in Sample
  OBVIOUS
<1> HIDE DEF m, S
<1>3. << >> \in S
  BY EmptyMap DEF S
<1>4. G \in [Nat -> [S -> S]]
  BY Zenon, <1>2, AddInMaps DEF S
<1>5. \A k \in 1..m, x \in S : G[k][x] = Add(x, samples[k])
  BY <1>2
<1> HIDE DEF G
<1>6. PICK f : Solves(f, m, S, << >>, G)
  BY Zenon, <1>2, <1>3, <1>4, FiniteRecursion
<1>7. \A k \in 1..m : f[k] = Add(f[k - 1], samples[k])
  BY <1>2, <1>5, <1>6 DEF Solves
<1>8. IsAcc(f)
  BY <1>2, <1>6, <1>7 DEF Solves
<1>9. IsAcc(acc)
  BY Zenon, <1>8
<1> HIDE DEF acc
<1>10. DOMAIN acc = 0..m /\ acc[0] = << >>
       /\ \A k \in 1..m : acc[k] = Add(acc[k - 1], samples[k])
  BY <1>2, <1>9
<1>11. \A k \in 0..m : acc[k] \in S
  <2> DEFINE T == {k \in Nat : k <= m => acc[k] \in S}
  <2>1. 0 \in T
    BY Zenon, <1>3, <1>10
  <2>2. ASSUME NEW k \in Nat, k \in T PROVE k + 1 \in T
    <3>1. CASE k + 1 <= m
      <4>1. k + 1 \in 1..m /\ k + 1 - 1 = k /\ acc[k] \in S
        BY <1>2, <2>2, <3>1
      <4>2. acc[k + 1] = Add(acc[k], samples[k + 1]) /\ samples[k + 1] \in Sample
        BY <1>2, <1>10, <4>1
      <4>3. acc[k + 1] \in S
        BY Zenon, <4>1, <4>2, AddInMaps DEF S
      <4> QED
        BY <4>3
    <3>2. CASE ~(k + 1 <= m)
      BY <3>2
    <3> QED
      BY Zenon, <3>1, <3>2
  <2> HIDE DEF T
  <2>3. Nat \subseteq T
    BY Zenon, <2>1, <2>2, Induction
  <2> QED
    BY <1>2, <2>3 DEF T
<1>12. Accumulated(acc, samples)
  BY Zenon, <1>1, <1>10, <1>11 DEF Accumulated, m, S
<1> QED
  BY <1>12
(* The series of an answer, one after the other, are one list of samples.  *)
LEMMA AllSamplesFacts ==
  ASSUME NEW R, NEW series \in Seq(Seq(R))
  PROVE  AllSamples(series) \in Seq(R)
<1> DEFINE m == Len(series)
           cat(x, i) == x \o series[i]
           IsFlat(f) == f = [i \in 0..m |-> IF i = 0 THEN << >> ELSE cat(f[i - 1], i)]
           flat == CHOOSE f : IsFlat(f)
           S == Seq(R)
           G == [k \in Nat |-> [x \in S |-> IF k \in 1..m THEN cat(x, k) ELSE x]]
<1>1. m \in Nat /\ << >> \in S /\ \A k \in 1..m, x \in S : cat(x, k) \in S
  OBVIOUS
<1>2. AllSamples(series) = flat[m]
  BY DEF AllSamples
<1> HIDE DEF m, S, cat
<1>3. G \in [Nat -> [S -> S]]
  BY <1>1
<1>4. \A k \in 1..m, x \in S : G[k][x] = cat(x, k)
  BY <1>1
<1> HIDE DEF G
<1>5. PICK f : Solves(f, m, S, << >>, G)
  BY Zenon, <1>1, <1>3, FiniteRecursion
<1>6. ASSUME NEW k \in 1..m PROVE f[k] = cat(f[k - 1], k)
  BY <1>1, <1>4, <1>5 DEF Solves
<1>7. IsFlat(f)
  BY <1>1, <1>5, <1>6 DEF Solves
<1>8. IsFlat(flat)
  BY Zenon, <1>7
<1> HIDE DEF flat
<1>9. flat[0] = << >> /\ \A k \in 1..m : flat[k] = cat(flat[k - 1], k)
  BY <1>1, <1>8
<1> HIDE DEF IsFlat
<1> DEFINE T == {k \in Nat : k <= m => flat[k] \in S}
<1>10. 0 \in T
  BY Zenon, <1>1, <1>9
<1>11. ASSUME NEW k \in Nat, k \in T PROVE k + 1 \in T
  <2>1. CASE k + 1 <= m
    <3>1. flat[k] \in S /\ k + 1 \in 1..m /\ k + 1 - 1 = k
      BY <1>1, <1>11, <2>1
    <3>2. flat[k + 1] = cat(flat[k], k + 1)
      BY <1>9, <3>1
    <3>3. flat[k + 1] \in S
      BY Zenon, <1>1, <3>1, <3>2
    <3> QED
      BY <3>3
  <2>2. CASE ~(k + 1 <= m)
    BY <1>1, <2>2
  <2> QED
    BY Zenon, <2>1, <2>2
<1> HIDE DEF T
<1>12. m \in T
  BY Zenon, <1>1, <1>10, <1>11, Induction
<1> QED
  BY <1>1, <1>2, <1>12 DEF S, T

AscendingOf(s, K) ==
  /\ Cardinality(K) \in Nat /\ s \in [1..Cardinality(K) -> K]
  /\ \A i, j \in 1..Cardinality(K) : i < j => s[i] < s[j]
  /\ \A t \in K : \E i \in 1..Cardinality(K) : s[i] = t

(* sort.Slice on the keys of the map lists each of them once, in order.    *)
LEMMA AscendingFacts ==
  ASSUME NEW K, K \subseteq Int, IsFiniteSet(K)
  PROVE  AscendingOf(Ascending(K), K)
<1> DEFINE n == Cardinality(K)
           upTo(t) == {u \in K : u <= t}
           rank(t) == Cardinality(upTo(t))
           s == Ascending(K)
<1>1. n \in Nat
  BY FS_CardinalityType
<1>2. ASSUME NEW t \in K PROVE rank(t) \in 1..n
  <2>1. /\ IsFiniteSet(upTo(t)) /\ Cardinality(upTo(t)) <= n
        /\ Cardinality(upTo(t)) \in Nat
    BY Zenon, FS_Subset, FS_CardinalityType
  <2>2. upTo(t) # {}
    OBVIOUS
  <2>3. Cardinality(upTo(t)) # 0
    BY Zenon, <2>1, <2>2, FS_EmptySet
  <2> QED
    BY <1>1, <2>1, <2>3
<1>3. ASSUME NEW t \in K, NEW u \in K, t < u PROVE rank(t) < rank(u)
  <2>1. \A v \in upTo(t) : v \in K /\ v <= u
    BY <1>3
  <2>2. u \in upTo(u) /\ u \notin upTo(t)
    BY <1>3
  <2>3. upTo(t) \subseteq upTo(u) /\ upTo(t) # upTo(u) /\ upTo(u) \subseteq K
    BY Zenon, <2>1, <2>2
  <2> HIDE DEF upTo
  <2>4. IsFiniteSet(upTo(u))
    BY Zenon, <2>3, FS_Subset
  <2>5. /\ Cardinality(upTo(t)) \in Nat /\ Cardinality(upTo(u)) \in Nat
        /\ Cardinality(upTo(t)) <= Cardinality(upTo(u))
        /\ Cardinality(upTo(t)) # Cardinality(upTo(u))
    BY Zenon, <2>3, <2>4, FS_Subset, FS_CardinalityType
  <2> QED
    BY <2>5
<1>4. s = [i \in 1..n |-> CHOOSE t \in K : rank(t) = i]
  BY DEF Ascending
<1> HIDE DEF n, s, rank, upTo
<1>6. ASSUME NEW t \in K, NEW u \in K, rank(t) = rank(u) PROVE t = u
  BY <1>2, <1>3, <1>6
<1>7. ASSUME NEW i \in 1..n PROVE \E t \in K : rank(t) = i
  <2> SUFFICES ASSUME \A t \in K : rank(t) # i PROVE FALSE
    OBVIOUS
  <2> DEFINE T == (1..n) \ {i}
             f == [t \in K |-> rank(t)]
  <2>1. f \in [K -> T]
    BY <1>2
  <2>2. IsFiniteSet(1..n) /\ Cardinality(1..n) = n
    BY <1>1, FS_Interval
  <2>3. IsFiniteSet(T) /\ Cardinality(T) = n - 1
    BY Zenon, <2>2, FS_RemoveElement
  <2>4. Cardinality(T) < Cardinality(K)
    BY <1>1, <2>3 DEF n
  <2> HIDE DEF T, f
  <2>5. \E x, y \in K : x # y /\ f[x] = f[y]
    BY Zenon, <2>1, <2>3, <2>4, FS_PigeonHole
  <2> QED
    BY Zenon, <1>6, <2>5 DEF f
<1>8. ASSUME NEW i \in 1..n PROVE s[i] \in K /\ rank(s[i]) = i
  BY Zenon, <1>4, <1>7
<1>9. s \in [1..n -> K]
  BY Zenon, <1>4, <1>8
<1>10. ASSUME NEW i \in 1..n, NEW j \in 1..n, i < j PROVE s[i] < s[j]
  <2>1. s[i] \in Int /\ s[j] \in Int /\ s[i] \in K /\ s[j] \in K /\ rank(s[i]) = i /\ rank(s[j]) = j
    BY Zenon, <1>8
  <2>2. s[i] # s[j] /\ ~(s[j] < s[i])
    BY <1>1, <1>3, <1>10, <2>1
  <2> QED
    BY <2>1, <2>2
<1>11. ASSUME NEW t \in K PROVE \E i \in 1..n : s[i] = t
  BY Zenon, <1>2, <1>6, <1>8
<1> QED
  BY Zenon, <1>1, <1>9, <1>10, <1>11 DEF AscendingOf, n, s

------------------------------------------------------------------------------
(* What each sample adds to the load of second t.                          *)
Parts(samples, t) ==
  [i \in 1..Len(samples) |->
     IF samples[i].ts \div 1000 = t THEN samples[i].value ELSE 0]

(* The fields of a sample.                                                 *)
LEMMA SampleFacts ==
  ASSUME NEW s \in Sample
  PROVE  s.ts \in Int /\ s.value \in Int /\ s.ts \div 1000 \in Int
BY DEF Sample

(* The values of one second, and zeros elsewhere, are numbers.             *)
LEMMA PartsFacts ==
  ASSUME NEW samples \in Seq(Sample), NEW t
  PROVE  Len(samples) \in Nat /\ Parts(samples, t) \in Numbers(Len(samples))
<1>1. Len(samples) \in Nat /\ \A i \in 1..Len(samples) : samples[i] \in Sample
  OBVIOUS
<1>2. \A i \in 1..Len(samples) : samples[i].value \in Int
  BY <1>1, SampleFacts
<1> QED
  BY <1>1, <1>2 DEF Parts, Numbers

(* LoadAt is the sum of the values of a second.                            *)
LEMMA LoadFacts ==
  ASSUME NEW samples \in Seq(Sample), NEW t
  PROVE  SumIs(LoadAt(samples, t), Parts(samples, t), Len(samples))
<1> DEFINE m == Len(samples)
           w == Parts(samples, t)
           part(n) == IF samples[n].ts \div 1000 = t THEN samples[n].value ELSE 0
           IsLoad(f) == f = [n \in 0..m |-> IF n = 0 THEN 0 ELSE f[n - 1] + part(n)]
           load == CHOOSE f : IsLoad(f)
<1>1. m \in Nat /\ w \in Numbers(m)
  BY PartsFacts
<1>2. LoadAt(samples, t) = load[m]
  BY DEF LoadAt
<1>3. \A k \in 1..m : w[k] = part(k)
  BY DEF Parts
<1> HIDE DEF m, w, part
<1>4. PICK x \in Int : SumIs(x, w, m)
  BY Zenon, <1>1, SumExists
<1>5. PICK L : Summing(L, w, m) /\ x = L[m]
  BY <1>4 DEF SumIs
<1>6. IsLoad(L)
  <2>1. L \in [0..m -> Int] /\ L[0] = 0
    BY Zenon, <1>5 DEF Summing
  <2>2. ASSUME NEW k \in 1..m PROVE L[k] = L[k - 1] + part(k)
    BY Zenon, <1>3, <1>5 DEF Summing
  <2>3. ASSUME NEW k \in 0..m PROVE L[k] = IF k = 0 THEN 0 ELSE L[k - 1] + part(k)
    BY <1>1, <2>1, <2>2
  <2> QED
    BY Zenon, <2>1, <2>3
<1>7. IsLoad(load)
  BY Zenon, <1>6
<1> HIDE DEF load
<1>8. load[0] = 0 /\ \A k \in 1..m : load[k] = load[k - 1] + w[k]
  BY <1>1, <1>3, <1>7
<1> HIDE DEF IsLoad
<1> DEFINE T == {k \in Nat : k <= m => load[k] = L[k]}
<1>9. 0 \in T
  BY Zenon, <1>5, <1>8 DEF Summing
<1>10. ASSUME NEW k \in Nat, k \in T PROVE k + 1 \in T
  <2>1. CASE k + 1 <= m
    <3>1. k + 1 \in 1..m /\ k + 1 - 1 = k /\ load[k] = L[k]
      BY <1>1, <1>10, <2>1
    <3>2. L[k + 1] = L[k] + w[k + 1]
      BY <1>1, <1>5, <2>1, SummingStep
    <3>3. load[k + 1] = load[k + 1 - 1] + w[k + 1]
      BY <1>8, <3>1
    <3>4. load[k + 1] = L[k + 1]
      BY Zenon, <3>1, <3>2, <3>3
    <3> QED
      BY <3>4
  <2>2. CASE ~(k + 1 <= m)
    BY <2>2
  <2> QED
    BY Zenon, <2>1, <2>2
<1> HIDE DEF T
<1>11. m \in T
  BY Zenon, <1>1, <1>9, <1>10, Induction
<1>12. load[m] = x
  BY <1>1, <1>5, <1>11 DEF T
<1> QED
  BY Zenon, <1>2, <1>4, <1>12 DEF m, w

(* A second that only one sample falls into has the load of that sample.   *)
AloneAt(samples, j) ==
  \A i \in 1..Len(samples) :
    samples[i].ts \div 1000 = samples[j].ts \div 1000 => i = j

(* The load of a second with a single sample is its value.                 *)
LEMMA LoadOfOne ==
  ASSUME NEW samples \in Seq(Sample), NEW j \in 1..Len(samples), AloneAt(samples, j)
  PROVE  LoadAt(samples, samples[j].ts \div 1000) = samples[j].value
<1> DEFINE m == Len(samples)
           t == samples[j].ts \div 1000
           w == Parts(samples, t)
           zeros == [i \in 1..m |-> 0]
           value == samples[j].value
           load == LoadAt(samples, t)
<1>1. m \in Nat /\ w \in Numbers(m) /\ SumIs(load, w, m)
  BY PartsFacts, LoadFacts
<1>2. zeros \in Numbers(m) /\ \A i \in 1..m : zeros[i] = 0
  BY DEF Numbers
<1>3. value \in Int /\ j \in 1..m
  BY SampleFacts
<1>4. DiffersAt(w, zeros, m, j, value)
  <2>1. w[j] = value
    BY DEF Parts
  <2>2. \A i \in 1..m : i # j => w[i] = 0
    BY DEF Parts, AloneAt
  <2> QED
    BY <1>2, <1>3, <2>1, <2>2 DEF DiffersAt
<1> HIDE DEF m, w, zeros, value, load, t
<1>5. SumIs(0, zeros, m)
  BY Zenon, <1>1, <1>2, SumOfZeros
<1>6. Apart(0, load, value)
  BY <1>1, <1>2, <1>3, <1>4, <1>5, SumDiffers, Zenon
<1> QED
  BY <1>3, <1>6 DEF Apart, load, value, t

(* AggregateRangeResult has one entry for each second with a sample, and   *)
(* it is the load of that second.                                          *)
Aggregates(acc, samples) ==
  /\ acc \in Maps
  /\ DOMAIN acc = {samples[i].ts \div 1000 : i \in DOMAIN samples}
  /\ \A t \in DOMAIN acc : acc[t] = LoadAt(samples, t)

(* aggregateRangeResult has one row for each second of the samples, in     *)
(* order, with the load of that second.                                    *)
LEMMA AggregateFacts ==
  ASSUME NEW samples \in Seq(Sample)
  PROVE  Aggregates(AggregateRangeResult(samples), samples)
<1> DEFINE m == Len(samples)
<1>1. m \in Nat /\ \A k \in 1..m : samples[k] \in Sample
  OBVIOUS
<1>2. PICK A : Accumulated(A, samples)
  BY Zenon, AggregateSteps
<1>3. AggregateRangeResult(samples) \in Maps /\ AggregateRangeResult(samples) = A[m]
  BY <1>1, <1>2 DEF Accumulated
<1>4. /\ A[0] = << >>
      /\ \A k \in 1..m : A[k] = Add(A[k - 1], samples[k])
      /\ \A k \in 0..m : A[k] \in Maps
  BY Zenon, <1>2 DEF Accumulated
<1>5. ASSUME NEW t \in Int
      PROVE  /\ t \in DOMAIN A[m] <=> \E i \in 1..m : samples[i].ts \div 1000 = t
             /\ t \in DOMAIN A[m] => A[m][t] = LoadAt(samples, t)
  <2> DEFINE w == Parts(samples, t)
  <2>1. PICK L : Summing(L, w, m) /\ LoadAt(samples, t) = L[m]
    BY LoadFacts DEF SumIs
  <2>2. \A k \in 1..m : w[k] = IF samples[k].ts \div 1000 = t THEN samples[k].value ELSE 0
    BY DEF Parts
  <2> HIDE DEF m, w
  <2> DEFINE Seen(k) == t \in DOMAIN A[k]
             Q(k) == /\ Seen(k) <=> \E i \in 1..k : samples[i].ts \div 1000 = t
                     /\ L[k] = IF Seen(k) THEN A[k][t] ELSE 0
             T == {k \in Nat : k <= m => Q(k)}
  <2>3. 0 \in T
    <3>1. ~Seen(0)
      BY Zenon, <1>4, EmptyMap
    <3>2. L[0] = 0
      BY Zenon, <2>1 DEF Summing
    <3>3. Q(0)
      BY <3>1, <3>2
    <3> HIDE DEF Q
    <3> QED
      BY Zenon, <3>3
  <2>4. ASSUME NEW k \in Nat, k \in T PROVE k + 1 \in T
    <3>1. CASE k + 1 <= m
      <4> DEFINE s == samples[k + 1]
                 sec == s.ts \div 1000
      <4>1. k + 1 \in 1..m /\ k \in 0..m /\ k + 1 - 1 = k /\ Q(k)
        BY <1>1, <2>4, <3>1
      <4>2. A[k] \in Maps /\ s \in Sample
        BY <1>1, <1>4, <4>1
      <4>3. A[k + 1] = Add(A[k + 1 - 1], s)
        BY <1>4, <4>1
      <4>4. Added(A[k + 1], A[k], s)
        BY <4>1, <4>2, <4>3, AddFacts
      <4>5. L[k + 1] = L[k] + w[k + 1] /\ L[k] \in Int /\ L[k + 1] \in Int
        BY Zenon, <1>1, <2>1, <3>1, SummingStep
      <4>6. w[k + 1] = (IF sec = t THEN s.value ELSE 0) /\ s.value \in Int
        BY <2>2, <4>1, <4>2 DEF Sample
      <4> HIDE DEF s
      <4>7. Seen(k + 1) <=> Seen(k) \/ sec = t
        BY <4>4 DEF Added
      <4>8. Seen(k + 1) =>
              A[k + 1][t] = (IF Seen(k) THEN A[k][t] ELSE 0)
                            + (IF sec = t THEN s.value ELSE 0)
        BY <4>4, <4>7 DEF Added
      <4>9. L[k + 1] = IF Seen(k + 1) THEN A[k + 1][t] ELSE 0
        BY <4>1, <4>5, <4>6, <4>7, <4>8
      <4>10. \A i \in 1..k + 1 : i \in 1..k \/ i = k + 1
        OBVIOUS
      <4>11. Seen(k + 1) <=> \E i \in 1..k + 1 : samples[i].ts \div 1000 = t
        BY <4>1, <4>7, <4>10 DEF s
      <4> HIDE DEF Seen
      <4>12. Q(k + 1)
        BY <4>9, <4>11
      <4> HIDE DEF Q
      <4> QED
        BY <4>12
    <3>2. CASE ~(k + 1 <= m)
      BY <3>2
    <3> QED
      BY Zenon, <3>1, <3>2
  <2> HIDE DEF T
  <2>5. m \in T
    BY Zenon, <1>1, <2>3, <2>4, Induction
  <2>6. Q(m)
    BY <1>1, <2>5 DEF T
  <2> QED
    BY <2>1, <2>6
<1>6. DOMAIN A[m] \subseteq Int
  BY Zenon, <1>3, MapsFacts
<1>7. \A i \in 1..m : samples[i].ts \div 1000 \in Int
  BY <1>1, SampleFacts
<1>8. DOMAIN samples = 1..m
  OBVIOUS
<1> HIDE DEF m
<1> DEFINE K == DOMAIN A[m]
           seconds == {samples[i].ts \div 1000 : i \in 1..m}
<1>9. ASSUME NEW t \in K PROVE t \in seconds
  BY <1>5, <1>6, <1>9
<1>10. ASSUME NEW t \in seconds PROVE t \in K
  BY <1>5, <1>7
<1>11. K = seconds
  BY Zenon, <1>9, <1>10
<1>12. \A t \in K : A[m][t] = LoadAt(samples, t)
  BY <1>5, <1>6
<1> QED
  BY Zenon, <1>3, <1>8, <1>11, <1>12 DEF Aggregates
(* The answers of a range query: what Collect makes of them.               *)
Raw == [ts : Int \cup {Bad}, value : Int \cup {Bad}]

WellFormed(samples) ==
  \A i \in DOMAIN samples : Bad \notin {samples[i].ts, samples[i].value}

(* An answer that parses consists of samples.                              *)
LEMMA WellFormedSamples ==
  ASSUME NEW samples \in Seq(Raw), WellFormed(samples)
  PROVE  samples \in Seq(Sample)
<1> DEFINE m == Len(samples)
<1>1. m \in Nat /\ DOMAIN samples = 1..m /\ \A i \in 1..m : samples[i] \in Raw
  OBVIOUS
<1>2. \A x \in Raw : x.ts # Bad /\ x.value # Bad => x \in Sample
  BY DEF Raw, Sample
<1>3. \A i \in 1..m : samples[i] \in Sample
  BY Zenon, <1>1, <1>2 DEF WellFormed
<1>4. samples = [i \in 1..m |-> samples[i]]
  BY <1>1
<1> HIDE DEF m
<1>5. samples \in [1..m -> Sample]
  BY Zenon, <1>3, <1>4
<1> QED
  BY Zenon, <1>1, <1>5, FunctionIsSeq

PrometheusRows(r, samples) ==
  LET acc == AggregateRangeResult(samples)
      ordered == Ascending(DOMAIN acc)
  IN /\ r.ok /\ WellFormed(samples)
     /\ r.rows = [i \in DOMAIN ordered |->
                    [ts |-> ordered[i], value |-> acc[ordered[i]]]]

(* Collect of the Prometheus adapter fails or returns the aggregate.       *)
LEMMA CollectPrometheusCases ==
  ASSUME NEW answer
  PROVE  \/ CollectPrometheus(answer) = Failed
         \/ PrometheusRows(CollectPrometheus(answer), AllSamples(answer.series))
BY Zenon DEF CollectPrometheus, PrometheusRows, WellFormed, Rows

(* Rows with the seconds of the samples, and with their loads.             *)
Instants(rows) ==
  [i \in DOMAIN rows |-> [ts |-> 1000 * rows[i].ts, value |-> rows[i].value]]

SameLoads(rows, samples) ==
  /\ rows \in Seq(Sample)
  /\ {rows[i].ts : i \in DOMAIN rows}
       = {samples[i].ts \div 1000 : i \in DOMAIN samples}
  /\ \A t \in {samples[i].ts \div 1000 : i \in DOMAIN samples} :
       LoadAt(Instants(rows), t) = LoadAt(samples, t)

(* The rows of a range query have the loads of its samples, in strictly    *)
(* ascending order.                                                        *)
LEMMA PrometheusSaysTheSame ==
  ASSUME NEW r, NEW samples \in Seq(Sample), PrometheusRows(r, samples)
  PROVE  /\ SameLoads(r.rows, samples)
         /\ \A i \in 1..Len(r.rows) - 1 : r.rows[i].ts < r.rows[i + 1].ts
<1> DEFINE acc == AggregateRangeResult(samples)
           K == DOMAIN acc
           n == Cardinality(K)
           o == Ascending(K)
           rows == r.rows
           m == Len(samples)
           seconds == {samples[i].ts \div 1000 : i \in DOMAIN samples}
           instants == Instants(rows)
<1>1. K \subseteq Int /\ IsFiniteSet(K) /\ acc \in [K -> Int]
  <2>1. acc \in Maps
    BY AggregateFacts, Zenon DEF Aggregates
  <2> QED
    BY Zenon, <2>1, MapsFacts
<1>2. DOMAIN samples = 1..m /\ m \in Nat /\ \A i \in 1..m : samples[i].ts \div 1000 \in Int
  <2>1. DOMAIN samples = 1..m /\ m \in Nat /\ \A i \in 1..m : samples[i] \in Sample
    OBVIOUS
  <2> QED
    BY <2>1, SampleFacts
<1>3. K = seconds /\ \A t \in K : acc[t] = LoadAt(samples, t)
  BY AggregateFacts, Zenon DEF Aggregates
<1>4. rows = [i \in DOMAIN o |-> [ts |-> o[i], value |-> acc[o[i]]]]
  BY DEF PrometheusRows
<1>5. AscendingOf(o, K)
  BY Zenon, <1>1, AscendingFacts
<1> HIDE DEF acc, K, o, rows, seconds, m, n, instants
<1>6. /\ n \in Nat /\ o \in [1..n -> K]
      /\ \A i, j \in 1..n : i < j => o[i] < o[j]
      /\ \A t \in K : \E i \in 1..n : o[i] = t
  BY <1>5 DEF AscendingOf, n
<1>7. \A i \in 1..n : o[i] \in K /\ o[i] \in Int /\ acc[o[i]] \in Int
  BY Zenon, <1>1, <1>6
<1>8. DOMAIN rows = 1..n /\ \A i \in 1..n : rows[i] = [ts |-> o[i], value |-> acc[o[i]]]
  BY Zenon, <1>4, <1>6
<1>9. rows \in [1..n -> Sample]
  <2>1. DOMAIN o = 1..n
    BY Zenon, <1>6
  <2>2. \A i \in 1..n : [ts |-> o[i], value |-> acc[o[i]]] \in Sample
    BY Zenon, <1>7 DEF Sample
  <2> QED
    BY Zenon, <1>4, <2>1, <2>2
<1>10. rows \in Seq(Sample) /\ Len(rows) = n
  BY Zenon, <1>6, <1>9, FunctionIsSeq
<1>11. {rows[i].ts : i \in DOMAIN rows} = seconds
  <2>1. \A i \in 1..n : rows[i].ts = o[i]
    BY <1>8
  <2>2. \A i \in DOMAIN rows : rows[i].ts \in seconds
    BY Zenon, <1>3, <1>7, <1>8, <2>1
  <2>3. \A t \in seconds : \E i \in DOMAIN rows : rows[i].ts = t
    BY <1>3, <1>6, <1>8, <2>1
  <2> QED
    BY Zenon, <2>2, <2>3
<1>12. \A i \in 1..Len(rows) - 1 : rows[i].ts < rows[i + 1].ts
  BY <1>6, <1>8, <1>10
<1>13. instants \in [1..n -> Sample]
  <2>1. \A i \in 1..n : 1000 * rows[i].ts \in Int /\ rows[i].value \in Int
    BY <1>7, <1>8
  <2>2. \A i \in 1..n : [ts |-> 1000 * rows[i].ts, value |-> rows[i].value] \in Sample
    BY <2>1 DEF Sample
  <2> QED
    BY <1>8, <2>2 DEF instants, Instants
<1>14. instants \in Seq(Sample) /\ Len(instants) = n
  BY <1>6, <1>13, FunctionIsSeq
<1>15. ASSUME NEW i \in 1..n
       PROVE  instants[i].ts \div 1000 = o[i] /\ instants[i].value = acc[o[i]]
  <2>1. instants[i].ts = 1000 * o[i] /\ instants[i].value = acc[o[i]]
    BY <1>8 DEF instants, Instants
  <2>2. \A x \in Int : (1000 * x) \div 1000 = x
    OBVIOUS
  <2> QED
    BY <1>7, <2>1, <2>2
<1>16. ASSUME NEW t \in seconds PROVE LoadAt(instants, t) = LoadAt(samples, t)
  <2>1. PICK j \in 1..n : o[j] = t
    BY Zenon, <1>3, <1>6
  <2>2. \A i \in 1..n : o[i] = o[j] => i = j
    <3>1. \A i \in 1..n : i # j => i < j \/ j < i
      BY <1>6
    <3> QED
      BY <1>6, <1>7, <3>1
  <2>3. AloneAt(instants, j) /\ j \in 1..Len(instants)
    BY <1>14, <1>15, <2>2 DEF AloneAt
  <2>4. LoadAt(instants, instants[j].ts \div 1000) = instants[j].value
    BY <1>14, <2>3, LoadOfOne
  <2> QED
    BY <1>3, <1>15, <2>1, <2>4
<1> QED
  BY Zenon, <1>10, <1>11, <1>12, <1>16 DEF SameLoads, seconds, rows, instants

(* a has the samples of b, up to the second, in the order given by f.      *)
Reordered(a, b, f, n) ==
  /\ a \in Seq(Sample) /\ b \in Seq(Sample) /\ Len(a) = n /\ Len(b) = n
  /\ \A i \in 1..n : /\ f[i] \in 1..n
                     /\ a[i].ts \div 1000 = b[f[i]].ts \div 1000
                     /\ a[i].value = b[f[i]].value

(* The load does not depend on the order of the samples.                   *)
LEMMA LoadPermuted ==
  ASSUME NEW n \in Nat, NEW f \in Bijection(1..n, 1..n),
         NEW a, NEW b, Reordered(a, b, f, n), NEW t
  PROVE  LoadAt(a, t) = LoadAt(b, t)
<1>0. /\ a \in Seq(Sample) /\ b \in Seq(Sample) /\ Len(a) = n /\ Len(b) = n
      /\ \A i \in 1..n : /\ f[i] \in 1..n
                         /\ a[i].ts \div 1000 = b[f[i]].ts \div 1000
                         /\ a[i].value = b[f[i]].value
  BY Zenon DEF Reordered
<1> DEFINE u == Parts(a, t)
           w == Parts(b, t)
           x == LoadAt(a, t)
           y == LoadAt(b, t)
<1>1. u \in Numbers(n) /\ w \in Numbers(n)
  BY <1>0, PartsFacts
<1>2. SumIs(x, u, n) /\ SumIs(y, w, n)
  BY <1>0, LoadFacts
<1>3. \A i \in 1..n : u[i] = w[f[i]]
  BY <1>0 DEF Parts
<1> HIDE DEF u, w, x, y
<1>4. x = y
  BY Zenon, <1>1, <1>2, <1>3, SumPermuted
<1> QED
  BY Zenon, <1>4 DEF x, y

(* The rows the HTTP adapter makes of sorted samples.                      *)
Cut(r) == [i \in DOMAIN r |-> [r[i] EXCEPT !.ts = @ \div 1000]]

(* A sample whose time is cut to seconds.                                  *)
LEMMA CutSample ==
  ASSUME NEW x \in Sample
  PROVE  [x EXCEPT !.ts = @ \div 1000] = [ts |-> x.ts \div 1000, value |-> x.value]
BY DEF Sample

(* The rows of the HTTP adapter, sorted and cut to seconds, have the loads *)
(* of the answer, in ascending order.                                      *)
LEMMA HTTPSaysTheSame ==
  ASSUME NEW samples \in Seq(Sample), NEW r \in Sorted(samples)
  PROVE  /\ SameLoads(Cut(r), samples)
         /\ \A i \in 1..Len(Cut(r)) - 1 : Cut(r)[i].ts <= Cut(r)[i + 1].ts
<1> DEFINE n == Len(samples)
           rows == Cut(r)
           seconds == {samples[i].ts \div 1000 : i \in DOMAIN samples}
           instants == Instants(rows)
<1>1. n \in Nat /\ DOMAIN samples = 1..n /\ \A i \in 1..n : samples[i] \in Sample
  OBVIOUS
<1>2. PICK f \in Bijection(1..n, 1..n) :
        /\ \A i \in 1..n - 1 : samples[f[i]].ts <= samples[f[i + 1]].ts
        /\ r = [i \in 1..n |-> samples[f[i]]]
  BY Zenon DEF Sorted
<1>3. /\ f \in [1..n -> 1..n]
      /\ \A j \in 1..n : \E i \in 1..n : f[i] = j
  BY Zenon DEF Bijection, Injection, Surjection
<1> HIDE DEF n, rows, seconds, instants
<1>4. ASSUME NEW i \in 1..n
      PROVE  /\ f[i] \in 1..n /\ r[i] = samples[f[i]] /\ r[i] \in Sample
             /\ r[i].ts \in Int /\ r[i].value \in Int /\ r[i].ts \div 1000 \in Int
  <2>1. f[i] \in 1..n /\ r[i] = samples[f[i]] /\ r[i] \in Sample
    BY Zenon, <1>1, <1>2, <1>3
  <2> QED
    BY <2>1, SampleFacts
<1>5. DOMAIN r = 1..n
  BY Zenon, <1>2
<1>6. DOMAIN rows = 1..n
      /\ \A i \in 1..n : rows[i] = [ts |-> r[i].ts \div 1000, value |-> r[i].value]
  <2>2. DOMAIN rows = 1..n
    BY <1>5 DEF rows, Cut
  <2>3. \A i \in 1..n : rows[i] = [r[i] EXCEPT !.ts = @ \div 1000]
    BY Zenon, <1>5 DEF rows, Cut
  <2>4. ASSUME NEW i \in 1..n
        PROVE  rows[i] = [ts |-> r[i].ts \div 1000, value |-> r[i].value]
    <3>1. r[i] \in Sample
      BY <1>4
    <3>2. rows[i] = [r[i] EXCEPT !.ts = @ \div 1000]
      BY <2>3
    <3> QED
      BY <3>1, <3>2, CutSample
  <2> QED
    BY Zenon, <2>2, <2>4
<1>7. rows \in [1..n -> Sample]
  <2>1. \A i \in 1..n : [ts |-> r[i].ts \div 1000, value |-> r[i].value] \in Sample
    BY <1>4 DEF Sample
  <2>2. rows = [i \in 1..n |-> rows[i]]
    BY <1>5 DEF rows, Cut
  <2> QED
    BY <1>6, <2>1, <2>2
<1>8. rows \in Seq(Sample) /\ Len(rows) = n
  BY Zenon, <1>1, <1>7, FunctionIsSeq
<1>9. {rows[i].ts : i \in DOMAIN rows} = seconds
  <2>1. ASSUME NEW i \in 1..n
        PROVE  rows[i].ts = samples[f[i]].ts \div 1000 /\ f[i] \in DOMAIN samples
    <3>1. rows[i] = [ts |-> r[i].ts \div 1000, value |-> r[i].value]
      BY <1>6
    <3>2. rows[i].ts = r[i].ts \div 1000
      BY <3>1
    <3>3. f[i] \in 1..n /\ r[i] = samples[f[i]]
      BY <1>4
    <3>4. DOMAIN samples = 1..n
      BY Zenon, <1>1
    <3> QED
      BY <3>2, <3>3, <3>4
  <2>2. \A i \in DOMAIN rows : rows[i].ts \in seconds
    BY <1>6, <2>1 DEF seconds
  <2>3. ASSUME NEW t \in seconds PROVE \E i \in DOMAIN rows : rows[i].ts = t
    <3>1. PICK j \in 1..n : t = samples[j].ts \div 1000
      BY <1>1 DEF seconds
    <3>2. PICK i \in 1..n : f[i] = j
      BY Zenon, <1>3
    <3> QED
      BY <1>6, <2>1, <3>1, <3>2
  <2> QED
    BY Zenon, <2>2, <2>3
<1>10. ASSUME NEW i \in 1..Len(rows) - 1 PROVE rows[i].ts <= rows[i + 1].ts
  <2>1. i \in 1..n - 1 /\ i \in 1..n /\ i + 1 \in 1..n
    BY <1>1, <1>8
  <2>2. /\ r[i].ts <= r[i + 1].ts /\ r[i].ts \in Int /\ r[i + 1].ts \in Int
        /\ rows[i].ts = r[i].ts \div 1000 /\ rows[i + 1].ts = r[i + 1].ts \div 1000
    BY <1>2, <1>4, <1>6, <2>1
  <2>3. \A x, y \in Int : x <= y => x \div 1000 <= y \div 1000
    OBVIOUS
  <2> QED
    BY <2>2, <2>3
<1>11. instants = [i \in 1..n |-> [ts |-> 1000 * (r[i].ts \div 1000), value |-> r[i].value]]
  BY <1>6 DEF instants, Instants
<1>12. instants \in [1..n -> Sample]
  <2>1. \A i \in 1..n : [ts |-> 1000 * (r[i].ts \div 1000), value |-> r[i].value] \in Sample
    BY <1>4 DEF Sample
  <2> QED
    BY <1>11, <2>1
<1>13. instants \in Seq(Sample) /\ Len(instants) = n
  BY <1>1, <1>12, FunctionIsSeq
<1>14. ASSUME NEW i \in 1..n
       PROVE  /\ f[i] \in 1..n
              /\ instants[i].ts \div 1000 = samples[f[i]].ts \div 1000
              /\ instants[i].value = samples[f[i]].value
  <2>1. \A x \in Int : (1000 * x) \div 1000 = x
    OBVIOUS
  <2>2. instants[i] = [ts |-> 1000 * (r[i].ts \div 1000), value |-> r[i].value]
    BY <1>11
  <2>3. instants[i].ts = 1000 * (r[i].ts \div 1000) /\ instants[i].value = r[i].value
    BY <2>2
  <2>4. f[i] \in 1..n /\ r[i] = samples[f[i]] /\ r[i].ts \div 1000 \in Int
    BY <1>4
  <2>5. instants[i].ts \div 1000 = r[i].ts \div 1000
    BY <2>1, <2>3, <2>4
  <2> QED
    BY <2>3, <2>4, <2>5
<1>15. ASSUME NEW t PROVE LoadAt(instants, t) = LoadAt(samples, t)
  <2>1. n \in Nat /\ Len(samples) = n /\ Len(instants) = n /\ instants \in Seq(Sample)
    BY Zenon, <1>1, <1>13 DEF n
  <2>2. Reordered(instants, samples, f, n)
    BY Zenon, <1>14, <2>1 DEF Reordered
  <2> QED
    BY <2>1, <2>2, LoadPermuted
<1>16. SameLoads(rows, samples)
  BY Zenon, <1>8, <1>9, <1>15 DEF SameLoads, seconds, instants
<1> QED
  BY Zenon, <1>10, <1>16 DEF rows
(* What the parsers of the HTTP adapter return.                            *)
LEMMA ParseFacts ==
  ASSUME NEW v \in Int \cup {Bad}, NEW format
  PROVE  Float(v) \in Int /\ parseTimestamp(format, v) \in Int \cup {Bad}
<1>1. Float(v) \in Int
  BY DEF Float
<1>2. 1000 * Float(v) \in Int
  BY <1>1
<1> HIDE DEF Float
<1>3. parseTimestamp(format, v) \in {v, 1000 * Float(v), Float(v), Bad}
  BY DEF parseTimestamp
<1> QED
  BY <1>1, <1>2, <1>3

(* Whatever a server of a known kind answers, Collect fails or returns     *)
(* rows that say what the answer says: every second that has a sample,     *)
(* with the sum of its samples, in time order.                             *)
THEOREM CollectSaysTheSame ==
  ASSUME NEW adapter \in {"prometheus", "victoriametrics", "http"}, NEW format,
         NEW answer \in IF adapter = "http" THEN HTTPAnswer ELSE RangeAnswer,
         NEW df \in Collect(adapter, format, answer)
  PROVE  \/ df = Failed
         \/ /\ df.ok /\ df.rows \in Seq(Sample)
            /\ SaysTheSame(df.rows, adapter, SamplesOf(adapter, format, answer))
<1>1. CASE adapter # "http"
  <2> DEFINE samples == AllSamples(answer.series)
  <2>1. answer.series \in Seq(Seq(Raw)) /\ df = CollectPrometheus(answer)
    BY Zenon, <1>1 DEF RangeAnswer, Raw, Collect, CollectVictoriaMetrics
  <2>2. samples \in Seq(Raw)
    BY Zenon, <2>1, AllSamplesFacts
  <2>3. SamplesOf(adapter, format, answer) = samples
    BY Zenon, <1>1 DEF SamplesOf
  <2>4. CASE PrometheusRows(df, samples)
    <3>1. WellFormed(samples) /\ df.ok
      BY Zenon, <2>4 DEF PrometheusRows
    <3> HIDE DEF samples
    <3>2. samples \in Seq(Sample)
      BY Zenon, <2>2, <3>1, WellFormedSamples
    <3>3. SameLoads(df.rows, samples)
          /\ \A i \in 1..Len(df.rows) - 1 : df.rows[i].ts < df.rows[i + 1].ts
      BY Zenon, <2>4, <3>2, PrometheusSaysTheSame
    <3>4. SaysTheSame(df.rows, adapter, samples) /\ df.rows \in Seq(Sample)
      BY Zenon, <1>1, <3>1, <3>3
         DEF SaysTheSame, SameLoads, WellFormed, Instants
    <3> QED
      BY Zenon, <2>3, <3>1, <3>4
  <2> QED
    BY Zenon, <2>1, <2>4, CollectPrometheusCases
<1>2. CASE adapter = "http"
  <2> DEFINE n == Len(answer.values)
             samples == [i \in 1..n |->
                           [ts |-> parseTimestamp(format, answer.timestamps[i]),
                            value |-> Float(answer.values[i])]]
  <2>1. /\ answer.values \in Seq(Int \cup {Bad})
        /\ answer.timestamps \in Seq(Int \cup {Bad})
    BY Zenon, <1>2 DEF HTTPAnswer
  <2>2. n \in Nat /\ DOMAIN answer.values = 1..n
        /\ \A i \in 1..n : answer.values[i] \in Int \cup {Bad}
    BY <2>1
  <2>3. SamplesOf(adapter, format, answer) = samples
    BY <1>2, <2>2, Zenon DEF SamplesOf
  <2>4. CASE df # Failed
    <3>1. /\ Len(answer.timestamps) = n /\ \A i \in 1..n : samples[i].ts # Bad
          /\ \E r \in Sorted(samples) : df = Rows(Cut(r))
      <4>1. df \in CollectHTTP(answer, format)
        BY <1>2, Zenon DEF Collect
      <4>2. Len(answer.timestamps) = n /\ ~\E i \in 1..n : samples[i].ts = Bad
        BY <2>4, <4>1, Zenon DEF CollectHTTP
      <4>3. df \in {Rows(Cut(r)) : r \in Sorted(samples)}
        BY <2>4, <4>1, <4>2, Zenon DEF CollectHTTP, Cut
      <4> QED
        BY <4>2, <4>3, Zenon
    <3>2. \A i \in 1..n : answer.timestamps[i] \in Int \cup {Bad}
      BY <2>1, <3>1
    <3>3. \A i \in 1..n : samples[i] \in Sample
      <4>1. ASSUME NEW i \in 1..n
            PROVE  /\ parseTimestamp(format, answer.timestamps[i]) \in Int
                   /\ Float(answer.values[i]) \in Int
        <5>1. parseTimestamp(format, answer.timestamps[i]) # Bad
          BY <3>1
        <5> QED
          BY Zenon, <2>2, <3>2, <5>1, ParseFacts
      <4> QED
        BY <4>1 DEF Sample
    <3>4. samples \in [1..n -> Sample]
      BY Zenon, <3>3
    <3> HIDE DEF samples, n
    <3>5. samples \in Seq(Sample)
      BY Zenon, <2>2, <3>4, FunctionIsSeq
    <3>6. PICK r \in Sorted(samples) : df = Rows(Cut(r))
      BY Zenon, <3>1
    <3>7. df.ok /\ df.rows = Cut(r)
      BY Zenon, <3>6 DEF Rows
    <3>8. SameLoads(df.rows, samples)
          /\ \A i \in 1..Len(df.rows) - 1 : df.rows[i].ts <= df.rows[i + 1].ts
      BY Zenon, <3>5, <3>7, HTTPSaysTheSame
    <3>9. SaysTheSame(df.rows, adapter, samples) /\ df.rows \in Seq(Sample)
      BY Zenon, <1>2, <3>8 DEF SaysTheSame, SameLoads, Instants
    <3> QED
      BY Zenon, <2>3, <3>7, <3>9
  <2> QED
    BY Zenon, <2>4
<1> QED
  BY Zenon, <1>1, <1>2
==============================================================================
