------------------------- MODULE RunningSumTheorems -------------------------
(***************************************************************************)
(* What SumTo computes, for every length and every function.               *)
(*                                                                         *)
(* The induction theorems of the library are about operators.  These       *)
(* proofs use induction on sets of naturals, which follows from the        *)
(* well-foundedness of < (SetInduction).                                   *)
(***************************************************************************)
EXTENDS RunningSums, WellFoundedInduction, TLAPS

\* A set that has 0, and n + 1 with every n, has all naturals.
LEMMA SetInduction ==
  ASSUME NEW S, 0 \in S, \A n \in Nat : n \in S => n + 1 \in S
  PROVE  Nat \subseteq S
<1> DEFINE T == Nat \ S
<1> DEFINE R == OpToRel(<, Nat)
<1> SUFFICES ASSUME T # {} PROVE FALSE
  OBVIOUS
<1>1. IsWellFoundedOn(R, Nat)
  BY NatLessThanWellFounded
<1>2. \A x \in Nat : x # 0 => <<x - 1, x>> \in R
  BY DEF OpToRel
<1> HIDE DEF R
<1>3. PICK x \in T : \A y \in T : <<y, x>> \notin R
  BY <1>1, WFMin
<1>4. x # 0 /\ x - 1 \in T
  OBVIOUS
<1> QED
  BY <1>2, <1>3, <1>4

\* sum[i] is f[1] + ... + f[i], for i up to n.
IsRunningSum(sum, n, f) ==
  sum = [i \in 0..n |-> IF i = 0 THEN 0 ELSE sum[i - 1] + f[i]]

LEMMA RunningSumExists ==
  ASSUME NEW f, NEW n \in Nat
  PROVE  \E sum : IsRunningSum(sum, n, f)
<1> DEFINE S == {m \in Nat : \E sum : IsRunningSum(sum, m, f)}
<1>1. 0 \in S
  <2>1. IsRunningSum([i \in 0..0 |-> 0], 0, f)
    BY DEF IsRunningSum
  <2> QED
    BY <2>1
<1>2. ASSUME NEW m \in Nat, m \in S
      PROVE  m + 1 \in S
  <2>1. PICK sum : IsRunningSum(sum, m, f)
    BY <1>2
  <2>2. DEFINE more == [i \in 0..(m + 1) |-> IF i = m + 1 THEN sum[m] + f[m + 1] ELSE sum[i]]
  <2>3. ASSUME NEW i \in 0..(m + 1)
        PROVE  more[i] = IF i = 0 THEN 0 ELSE more[i - 1] + f[i]
    <3>1. CASE i = m + 1
      BY <3>1
    <3>2. CASE i \in 0..m
      <4>1. sum[i] = IF i = 0 THEN 0 ELSE sum[i - 1] + f[i]
        BY <2>1, <3>2 DEF IsRunningSum
      <4>2. more[i] = sum[i] /\ (i # 0 => more[i - 1] = sum[i - 1])
        BY <3>2
      <4> QED
        BY <4>1, <4>2
    <3> QED
      BY <3>1, <3>2
  <2>4. IsRunningSum(more, m + 1, f)
    BY <2>3 DEF IsRunningSum
  <2> QED
    BY <2>4
<1> HIDE DEF S
<1>3. Nat \subseteq S
  BY <1>1, <1>2, SetInduction
<1> QED
  BY <1>3 DEF S

\* Running sums of functions that agree up to n agree up to n.
LEMMA RunningSumsAgree ==
  ASSUME NEW n \in Nat, NEW m \in Nat, n <= m, NEW f, NEW g,
         \A i \in 1..n : f[i] = g[i],
         NEW s, IsRunningSum(s, n, f), NEW t, IsRunningSum(t, m, g)
  PROVE  s[n] = t[n]
<1> DEFINE S == {i \in Nat : i <= n => s[i] = t[i]}
<1>1. 0 \in S
  BY DEF IsRunningSum
<1>2. ASSUME NEW i \in Nat, i \in S
      PROVE  i + 1 \in S
  <2>1. SUFFICES ASSUME i + 1 <= n
                 PROVE  s[i + 1] = t[i + 1]
    OBVIOUS
  <2>2. i + 1 \in 0..n /\ i + 1 \in 0..m /\ i + 1 \in 1..n /\ i + 1 # 0 /\ (i + 1) - 1 = i
    BY <2>1
  <2>3. s[i + 1] = s[i] + f[i + 1] /\ t[i + 1] = t[i] + g[i + 1]
    BY <2>2 DEF IsRunningSum
  <2>4. s[i] = t[i] /\ f[i + 1] = g[i + 1]
    BY <1>2, <2>1, <2>2
  <2> QED
    BY <2>3, <2>4
<1> HIDE DEF S
<1>3. Nat \subseteq S
  BY <1>1, <1>2, SetInduction
<1> QED
  BY <1>3 DEF S

\* The sum is the end of some running sum.
LEMMA SumToIsRunningSum ==
  ASSUME NEW f, NEW n \in Nat
  PROVE  \E sum : IsRunningSum(sum, n, f) /\ SumTo(n, f) = sum[n]
<1> DEFINE sum == CHOOSE s : s = [i \in 0..n |-> IF i = 0 THEN 0 ELSE s[i - 1] + f[i]]
<1>1. sum = [i \in 0..n |-> IF i = 0 THEN 0 ELSE sum[i - 1] + f[i]]
  BY RunningSumExists DEF IsRunningSum
<1>2. SumTo(n, f) = sum[n]
  BY DEF SumTo
<1> QED
  BY <1>1, <1>2 DEF IsRunningSum

\* The recursion SumTo is meant to satisfy.
LEMMA SumToStep ==
  ASSUME NEW f, NEW n \in Nat
  PROVE  SumTo(0, f) = 0 /\ SumTo(n + 1, f) = SumTo(n, f) + f[n + 1]
<1>1. SumTo(0, f) = 0
  <2>1. PICK sum : IsRunningSum(sum, 0, f) /\ SumTo(0, f) = sum[0]
    BY SumToIsRunningSum
  <2> QED
    BY <2>1 DEF IsRunningSum
<1>2. PICK s : IsRunningSum(s, n, f) /\ SumTo(n, f) = s[n]
  BY SumToIsRunningSum
<1>3. PICK t : IsRunningSum(t, n + 1, f) /\ SumTo(n + 1, f) = t[n + 1]
  BY SumToIsRunningSum
<1>4. s[n] = t[n]
  BY <1>2, <1>3, RunningSumsAgree
<1>5. t[n + 1] = t[n] + f[n + 1]
  BY <1>3 DEF IsRunningSum
<1> QED
  BY <1>1, <1>2, <1>3, <1>4, <1>5

\* The sum is over f[1], ..., f[n] only.
THEOREM SumToSame ==
  ASSUME NEW f, NEW g, NEW n \in Nat, \A i \in 1..n : f[i] = g[i]
  PROVE  SumTo(n, f) = SumTo(n, g)
<1>1. PICK s : IsRunningSum(s, n, f) /\ SumTo(n, f) = s[n]
  BY SumToIsRunningSum
<1>2. PICK t : IsRunningSum(t, n, g) /\ SumTo(n, g) = t[n]
  BY SumToIsRunningSum
<1> QED
  BY <1>1, <1>2, RunningSumsAgree

\* A sum of integers is an integer.
THEOREM SumToType ==
  ASSUME NEW f, NEW n \in Nat, \A i \in 1..n : f[i] \in Int
  PROVE  SumTo(n, f) \in Int
<1> DEFINE S == {m \in Nat : m <= n => SumTo(m, f) \in Int}
<1>1. 0 \in S
  BY SumToStep
<1>2. ASSUME NEW m \in Nat, m \in S
      PROVE  m + 1 \in S
  <2>1. SumTo(m + 1, f) = SumTo(m, f) + f[m + 1]
    BY SumToStep
  <2>2. m + 1 <= n => SumTo(m, f) \in Int /\ f[m + 1] \in Int
    BY <1>2
  <2> QED
    BY <2>1, <2>2
<1> HIDE DEF S
<1>3. Nat \subseteq S
  BY <1>1, <1>2, SetInduction
<1> QED
  BY <1>3 DEF S

\* A sum of nothing but zeros is zero.
THEOREM SumToZero ==
  ASSUME NEW f, NEW n \in Nat, \A i \in 1..n : f[i] = 0
  PROVE  SumTo(n, f) = 0
<1> DEFINE S == {m \in Nat : m <= n => SumTo(m, f) = 0}
<1>1. 0 \in S
  BY SumToStep
<1>2. ASSUME NEW m \in Nat, m \in S
      PROVE  m + 1 \in S
  <2>1. SumTo(m + 1, f) = SumTo(m, f) + f[m + 1]
    BY SumToStep
  <2>2. m + 1 <= n => SumTo(m, f) = 0 /\ f[m + 1] = 0
    BY <1>2
  <2> QED
    BY <2>1, <2>2
<1> HIDE DEF S
<1>3. Nat \subseteq S
  BY <1>1, <1>2, SetInduction
<1> QED
  BY <1>3 DEF S

\* Sums of functions that grow by h grow by the sum of h.
LEMMA SumToGrows ==
  ASSUME NEW f, NEW g, NEW h, NEW n \in Nat,
         \A i \in 1..n : f[i] \in Int /\ h[i] \in Int /\ g[i] = f[i] + h[i]
  PROVE  SumTo(n, g) = SumTo(n, f) + SumTo(n, h)
<1> DEFINE S == {m \in Nat : m <= n => SumTo(m, g) = SumTo(m, f) + SumTo(m, h)}
<1>1. 0 \in S
  BY SumToStep
<1>2. ASSUME NEW m \in Nat, m \in S
      PROVE  m + 1 \in S
  <2>1. SUFFICES ASSUME m + 1 <= n
                 PROVE  SumTo(m + 1, g) = SumTo(m + 1, f) + SumTo(m + 1, h)
    OBVIOUS
  <2>2. /\ SumTo(m + 1, f) = SumTo(m, f) + f[m + 1]
        /\ SumTo(m + 1, g) = SumTo(m, g) + g[m + 1]
        /\ SumTo(m + 1, h) = SumTo(m, h) + h[m + 1]
    BY SumToStep
  <2>3. SumTo(m, f) \in Int /\ SumTo(m, h) \in Int
    <3>1. \A i \in 1..m : f[i] \in Int /\ h[i] \in Int
      BY <2>1
    <3> QED
      BY <3>1, SumToType
  <2>4. /\ f[m + 1] \in Int /\ h[m + 1] \in Int /\ g[m + 1] = f[m + 1] + h[m + 1]
        /\ SumTo(m, g) = SumTo(m, f) + SumTo(m, h)
    BY <1>2, <2>1
  <2> QED
    BY <2>2, <2>3, <2>4
<1> HIDE DEF S
<1>3. Nat \subseteq S
  BY <1>1, <1>2, SetInduction
<1> QED
  BY <1>3 DEF S

\* The sum of a function that is zero but at k.
LEMMA SumToAlone ==
  ASSUME NEW f, NEW n \in Nat, NEW k \in 1..n, f[k] \in Int,
         \A i \in 1..n : i # k => f[i] = 0
  PROVE  SumTo(n, f) = f[k]
<1> DEFINE S == {m \in Nat : m <= n => SumTo(m, f) = IF m < k THEN 0 ELSE f[k]}
<1>1. 0 \in S
  BY SumToStep
<1>2. ASSUME NEW m \in Nat, m \in S
      PROVE  m + 1 \in S
  <2>1. SUFFICES ASSUME m + 1 <= n
                 PROVE  SumTo(m + 1, f) = IF m + 1 < k THEN 0 ELSE f[k]
    OBVIOUS
  <2>2. SumTo(m + 1, f) = SumTo(m, f) + f[m + 1]
    BY SumToStep
  <2>3. SumTo(m, f) = IF m < k THEN 0 ELSE f[k]
    BY <1>2, <2>1
  <2>4. m + 1 # k => f[m + 1] = 0
    BY <2>1
  <2> QED
    BY <2>2, <2>3, <2>4
<1> HIDE DEF S
<1>3. Nat \subseteq S
  BY <1>1, <1>2, SetInduction
<1> QED
  BY <1>3 DEF S

\* What is taken at j and put at k does not change the sum.
LEMMA SumToPair ==
  ASSUME NEW f, NEW n \in Nat, NEW j \in 1..n, NEW k \in 1..n, j # k,
         f[j] \in Int, f[k] = -f[j], \A i \in (1..n) \ {j, k} : f[i] = 0
  PROVE  SumTo(n, f) = 0
<1>1. PICK q \in Int : q = f[j]
  OBVIOUS
<1>2. ASSUME NEW g, g = [i \in 1..n |-> IF i = j THEN q ELSE 0],
             NEW h, h = [i \in 1..n |-> IF i = k THEN -q ELSE 0]
      PROVE  SumTo(n, f) = 0
  <2>1. SumTo(n, g) = q
    <3>1. g[j] = q /\ \A i \in 1..n : i # j => g[i] = 0
      BY <1>2
    <3> QED
      BY <3>1, SumToAlone
  <2>2. SumTo(n, h) = -q
    <3>1. h[k] = -q /\ -q \in Int /\ \A i \in 1..n : i # k => h[i] = 0
      BY <1>2
    <3> QED
      BY <3>1, SumToAlone
  <2>3. \A i \in 1..n : g[i] \in Int /\ h[i] \in Int /\ f[i] = g[i] + h[i]
    BY <1>1, <1>2
  <2>4. SumTo(n, f) = SumTo(n, g) + SumTo(n, h)
    BY <2>3, SumToGrows
  <2> QED
    BY <2>1, <2>2, <2>4
<1> QED
  BY <1>2

\* A sum over one more place, each of the old ones changed by e.
LEMMA SumToExtended ==
  ASSUME NEW n \in Nat, NEW m, m \in {n, n + 1}, NEW f, NEW g, NEW e,
         \A i \in 1..n : f[i] \in Int,
         \A i \in 1..m : e[i] \in Int,
         \A i \in 1..n : g[i] = f[i] + e[i],
         m = n + 1 => g[m] = e[m]
  PROVE  SumTo(m, g) = SumTo(n, f) + SumTo(m, e)
<1> DEFINE pad == [i \in 1..m |-> IF i <= n THEN f[i] ELSE 0]
<1>1. \A i \in 1..m : pad[i] \in Int /\ g[i] = pad[i] + e[i]
  OBVIOUS
<1>2. \A i \in 1..n : pad[i] = f[i]
  OBVIOUS
<1>3. m = n + 1 => pad[n + 1] = 0
  OBVIOUS
<1> HIDE DEF pad
<1>4. SumTo(m, g) = SumTo(m, pad) + SumTo(m, e)
  BY <1>1, SumToGrows
<1>5. SumTo(n, pad) = SumTo(n, f)
  BY <1>2, SumToSame
<1>6. SumTo(m, pad) = SumTo(n, pad)
  <2>1. SumTo(n, pad) \in Int
    BY <1>5, SumToType
  <2> QED
    BY <1>3, <2>1, SumToStep
<1> QED
  BY <1>4, <1>5, <1>6
=============================================================================
