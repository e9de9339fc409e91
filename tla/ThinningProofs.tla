--------------------------- MODULE ThinningProofs ---------------------------
(***************************************************************************)
(* Lemmas about sums, about recursive functions of a natural number, and   *)
(* about what an emergency leaves of a queue.  Induction is by the least   *)
(* counterexample, which exists since the sets 0 .. n - 1 are well-founded.*)
(***************************************************************************)
EXTENDS Thinning, FiniteSetTheorems, TLAPS

----------------------------------------------------------------------------
(* Induction over the natural numbers *)

\* A set of natural numbers has a least element.
LEMMA Least ==
  ASSUME NEW T \in SUBSET Nat, T # {}
  PROVE  \E n \in T : \A m \in T : n <= m
<1> DEFINE Below(n) == 0 .. n - 1
           U == {Below(n) : n \in T}
           R == StrictSubsetOrdering(Nat)
<1>1. U \subseteq FiniteSubsetsOf(Nat)
  <2>1. ASSUME NEW n \in T
        PROVE  Below(n) \in SUBSET Nat /\ IsFiniteSet(Below(n))
    BY FS_Interval
  <2> QED BY <2>1 DEF FiniteSubsetsOf
<1>2. U # {}
  OBVIOUS
<1>3. IsWellFoundedOn(R, FiniteSubsetsOf(Nat))
  BY FS_StrictSubsetOrderingWellFounded
<1> HIDE DEF U, R
<1>4. PICK x \in U : \A y \in U : ~ (<<y, x>> \in R)
  BY <1>1, <1>2, <1>3, WFMin
<1> USE DEF U, R
<1>5. PICK n \in T : x = Below(n)
  OBVIOUS
<1>6. ASSUME NEW m \in T, m < n
      PROVE  FALSE
  <2>1. Below(m) \in U
    OBVIOUS
  <2>2. Below(m) \subseteq Below(n) /\ m \in Below(n) /\ m \notin Below(m)
    BY <1>6
  <2>3. Below(m) \in SUBSET Nat /\ Below(n) \in SUBSET Nat
    OBVIOUS
  <2>4. <<Below(m), Below(n)>> \in R
    BY <2>2, <2>3 DEF StrictSubsetOrdering
  <2> QED BY <2>1, <2>4, <1>4, <1>5
<1> QED BY <1>6

\* Induction up to N, for the set of the numbers that have a property.
LEMMA Induction ==
  ASSUME NEW N \in Nat, NEW T, 0 \in T,
         \A n \in 1 .. N : n - 1 \in T => n \in T
  PROVE  \A n \in 0 .. N : n \in T
<1> DEFINE C == {n \in 0 .. N : n \notin T}
<1>1. SUFFICES ASSUME C # {}
               PROVE  FALSE
  OBVIOUS
<1>2. C \in SUBSET Nat
  OBVIOUS
<1>3. PICK n \in C : \A m \in C : n <= m
  <2> HIDE DEF C
  <2> QED BY <1>1, <1>2, Least
<1>4. n \in 0 .. N /\ n \notin T /\ n # 0
  OBVIOUS
<1>5. n - 1 \in 0 .. N /\ n - 1 \notin C
  BY <1>3, <1>4
<1> QED BY <1>4, <1>5

\* f is the recursion up to N that starts with x0, and step gives its steps.
Iterates(f, N, S, x0, step) ==
  /\ f \in [0 .. N -> S]
  /\ f[0] = x0 /\ \A n \in 1 .. N : f[n] = step[n][f[n - 1]]

\* A function may be defined by recursion up to N.
LEMMA Recursion ==
  ASSUME NEW S, NEW x0 \in S, NEW N \in Nat, NEW step, step \in [1 .. N -> [S -> S]]
  PROVE  \E f : Iterates(f, N, S, x0, step)
<1> DEFINE Upto(k, f) == f[0] = x0 /\ \A n \in 1 .. k : f[n] = step[n][f[n - 1]]
           Defined(k) == \E f \in [0 .. k -> S] : Upto(k, f)
           T == {k \in 0 .. N : Defined(k)}
<1>1. Defined(0)
  <2>1. Upto(0, [n \in 0 .. 0 |-> x0])
    OBVIOUS
  <2>2. [n \in 0 .. 0 |-> x0] \in [0 .. 0 -> S]
    OBVIOUS
  <2> QED BY <2>1, <2>2
<1>2. ASSUME NEW k \in 1 .. N, Defined(k - 1)
      PROVE  Defined(k)
  <2>1. PICK f \in [0 .. k - 1 -> S] : Upto(k - 1, f)
    BY <1>2
  <2> DEFINE g == [n \in 0 .. k |-> IF n = k THEN step[k][f[k - 1]] ELSE f[n]]
  <2>2. step[k][f[k - 1]] \in S
    OBVIOUS
  <2>3. g \in [0 .. k -> S]
    BY <2>2
  <2>4. g[0] = x0
    BY <2>1
  <2>5. ASSUME NEW n \in 1 .. k
        PROVE  g[n] = step[n][g[n - 1]]
    BY <2>1
  <2> QED BY <2>3, <2>4, <2>5
<1> HIDE DEF Defined
<1>3. 0 \in T /\ \A k \in 1 .. N : k - 1 \in T => k \in T
  BY <1>1, <1>2
<1>4. \A k \in 0 .. N : k \in T
  <2> HIDE DEF T
  <2> QED BY <1>3, Induction
<1>5. Defined(N)
  BY <1>4
<1> QED BY <1>5 DEF Defined, Iterates

----------------------------------------------------------------------------
(* Sums *)

\* The sums of the first n elements of s.
IsSums(f, s) ==
  /\ f \in [0 .. Len(s) -> Nat]
  /\ f[0] = 0 /\ \A n \in 1 .. Len(s) : f[n] = f[n - 1] + s[n]

\* Total is the last of them.
LEMMA SumsExist ==
  ASSUME NEW s \in Seq(Nat)
  PROVE  \E f : IsSums(f, s) /\ Total(s) = f[Len(s)]
<1> DEFINE Is(f) == f = [n \in 0 .. Len(s) |-> IF n = 0 THEN 0 ELSE f[n - 1] + s[n]]
           sum == CHOOSE f : Is(f)
           step == [n \in 1 .. Len(s) |-> [m \in Nat |-> m + s[n]]]
<1>1. step \in [1 .. Len(s) -> [Nat -> Nat]] /\ Len(s) \in Nat /\ 0 \in Nat
  OBVIOUS
<1>2. \A m \in Nat, n \in 1 .. Len(s) : step[n][m] = m + s[n]
  OBVIOUS
<1> HIDE DEF step
<1>3. \E f : Iterates(f, Len(s), Nat, 0, step)
  BY <1>1, Recursion
<1>4. PICK f \in [0 .. Len(s) -> Nat] :
        f[0] = 0 /\ \A n \in 1 .. Len(s) : f[n] = step[n][f[n - 1]]
  BY <1>3 DEF Iterates
<1>5. ASSUME NEW n \in 0 .. Len(s)
      PROVE  f[n] = IF n = 0 THEN 0 ELSE f[n - 1] + s[n]
  <2>1. CASE n = 0
    BY <2>1, <1>4
  <2>2. CASE n \in 1 .. Len(s)
    <3>1. n - 1 \in 0 .. Len(s) /\ n # 0
      BY <2>2, <1>1
    <3>2. f[n - 1] \in Nat
      BY <3>1, <1>4
    <3> QED BY <3>1, <3>2, <2>2, <1>4, <1>2
  <2> QED BY <2>1, <2>2
<1>6. Is(f)
  BY <1>5
<1>7. Is(sum)
  BY <1>6
<1>8. Total(s) = sum[Len(s)]
  BY DEF Total
<1> HIDE DEF sum
<1>9. sum[0] = 0 /\ \A n \in 1 .. Len(s) : sum[n] = sum[n - 1] + s[n]
  <2>1. sum[0] = 0
    BY <1>7, <1>1
  <2>2. ASSUME NEW n \in 1 .. Len(s)
        PROVE  sum[n] = sum[n - 1] + s[n]
    BY <1>7, <1>1
  <2> QED BY <2>1, <2>2
<1>10. \A n \in 0 .. Len(s) : n \in {k \in 0 .. Len(s) : sum[k] \in Nat}
  <2> DEFINE T == {k \in 0 .. Len(s) : sum[k] \in Nat}
             N == Len(s)
  <2>1. 0 \in T
    BY <1>9, <1>1
  <2>2. ASSUME NEW n \in 1 .. N, n - 1 \in T
        PROVE  n \in T
    BY <2>2, <1>9, <1>1
  <2>3. N \in Nat
    BY <1>1
  <2>4. \A n \in 0 .. N : n \in T
    <3> HIDE DEF T, N
    <3> QED BY <2>1, <2>2, <2>3, Induction
  <2> QED BY <2>4
<1>11. sum \in [0 .. Len(s) -> Nat]
  BY <1>7, <1>10
<1> QED BY <1>8, <1>9, <1>11 DEF IsSums


\* The sums one by one.
LEMMA SumsStep ==
  ASSUME NEW s \in Seq(Nat), NEW f, IsSums(f, s), NEW n \in 1 .. Len(s)
  PROVE  f[n] = f[n - 1] + s[n] /\ f[n] \in Nat /\ f[n - 1] \in Nat /\ s[n] \in Nat
<1>1. n \in 0 .. Len(s) /\ n - 1 \in 0 .. Len(s)
  OBVIOUS
<1>2. f[n] = f[n - 1] + s[n]
  BY DEF IsSums
<1>3. f[n] \in Nat /\ f[n - 1] \in Nat
  BY <1>1 DEF IsSums
<1>4. s[n] \in Nat
  OBVIOUS
<1> QED BY <1>2, <1>3, <1>4

LEMMA SumsType ==
  ASSUME NEW s \in Seq(Nat), NEW f, IsSums(f, s)
  PROVE  f[0] = 0 /\ \A n \in 0 .. Len(s) : f[n] \in Nat
<1> QED BY DEF IsSums

\* A sum is a natural number, and the elements one by one make it up.
LEMMA TotalType ==
  ASSUME NEW s \in Seq(Nat)
  PROVE  Total(s) \in Nat
<1>1. PICK f : IsSums(f, s) /\ Total(s) = f[Len(s)]
  BY SumsExist
<1> QED BY <1>1 DEF IsSums

LEMMA TotalEmpty == Total(<<>>) = 0
<1>1. PICK f : IsSums(f, <<>>) /\ Total(<<>>) = f[Len(<<>>)]
  <2>1. <<>> \in Seq(Nat)
    OBVIOUS
  <2> QED BY <2>1, SumsExist
<1> QED BY <1>1 DEF IsSums

\* Two sequences that agree up to N have the same sums up to N.
LEMMA SumsAgree ==
  ASSUME NEW s \in Seq(Nat), NEW t \in Seq(Nat), NEW f, NEW g,
         IsSums(f, s), IsSums(g, t),
         NEW N \in Nat, N <= Len(s), N <= Len(t), \A i \in 1 .. N : s[i] = t[i]
  PROVE  \A n \in 0 .. N : f[n] = g[n]
<1> DEFINE T == {n \in 0 .. N : f[n] = g[n]}
<1>1. 0 \in T
  BY DEF IsSums
<1>2. ASSUME NEW n \in 1 .. N, n - 1 \in T
      PROVE  n \in T
  <2>1. n \in 1 .. Len(s) /\ n \in 1 .. Len(t) /\ s[n] = t[n]
    OBVIOUS
  <2> QED BY <2>1, <1>2 DEF IsSums
<1>3. \A n \in 0 .. N : n \in T
  <2> HIDE DEF T
  <2> QED BY <1>1, <1>2, Induction
<1> QED BY <1>3

LEMMA SameSequence ==
  ASSUME NEW S, NEW s \in Seq(S), NEW t \in Seq(S), Len(s) = Len(t),
         \A i \in 1 .. Len(s) : s[i] = t[i]
  PROVE  s = t
<1> QED OBVIOUS

LEMMA AppendedNat ==
  ASSUME NEW s \in Seq(Nat), NEW x \in Nat
  PROVE  /\ Append(s, x) \in Seq(Nat) /\ Len(Append(s, x)) = Len(s) + 1
         /\ Append(s, x)[Len(s) + 1] = x
         /\ \A i \in 1 .. Len(s) : s[i] = Append(s, x)[i]
<1> QED OBVIOUS

LEMMA TotalAppend ==
  ASSUME NEW s \in Seq(Nat), NEW x \in Nat
  PROVE  Total(Append(s, x)) = Total(s) + x
<1> DEFINE t == Append(s, x)
           N == Len(s)
<1>1. t \in Seq(Nat) /\ Len(t) = N + 1 /\ t[N + 1] = x /\ N \in Nat
  BY AppendedNat
<1>2. \A i \in 1 .. N : s[i] = t[i]
  BY AppendedNat
<1>3. PICK f : IsSums(f, s) /\ Total(s) = f[N]
  BY SumsExist
<1> HIDE DEF t
<1>4. PICK g : IsSums(g, t) /\ Total(t) = g[Len(t)]
  BY <1>1, SumsExist
<1>5. f[N] = g[N]
  <2>1. N <= Len(s) /\ N <= Len(t) /\ N \in 0 .. N
    BY <1>1
  <2> HIDE DEF N
  <2> QED BY <2>1, <1>1, <1>2, <1>3, <1>4, SumsAgree
<1>6. g[N + 1] = g[N] + x
  <2>1. N + 1 \in 1 .. Len(t) /\ (N + 1) - 1 = N
    BY <1>1
  <2>2. g[N + 1] = g[(N + 1) - 1] + t[N + 1]
    BY <2>1, <1>1, <1>4, SumsStep
  <2> QED BY <2>1, <2>2, <1>1
<1> QED BY <1>1, <1>3, <1>4, <1>5, <1>6 DEF t

LEMMA TailNat ==
  ASSUME NEW s \in Seq(Nat), s # <<>>
  PROVE  /\ Tail(s) \in Seq(Nat) /\ Len(s) = Len(Tail(s)) + 1 /\ Len(Tail(s)) \in Nat
         /\ Head(s) = s[1] /\ s[1] \in Nat
         /\ \A i \in 1 .. Len(Tail(s)) : Tail(s)[i] = s[i + 1]
<1> QED OBVIOUS

LEMMA TotalTail ==
  ASSUME NEW s \in Seq(Nat), s # <<>>
  PROVE  Total(s) = Head(s) + Total(Tail(s))
<1> DEFINE t == Tail(s)
           N == Len(t)
<1>1. /\ t \in Seq(Nat) /\ Len(s) = N + 1 /\ N \in Nat /\ s[1] \in Nat
      /\ Head(s) = s[1]
      /\ \A i \in 1 .. N : t[i] = s[i + 1]
  BY TailNat
<1> HIDE DEF t
<1>2. PICK f : IsSums(f, s) /\ Total(s) = f[Len(s)]
  BY SumsExist
<1>3. PICK g : IsSums(g, t) /\ Total(t) = g[Len(t)]
  BY <1>1, SumsExist
<1> DEFINE U == {n \in 0 .. N : f[n + 1] = s[1] + g[n]}
<1>4. 0 \in U
  <2>1. f[1] = f[0] + s[1] /\ f[0] = 0 /\ g[0] = 0
    BY <1>1, <1>2, <1>3 DEF IsSums
  <2> QED BY <2>1, <1>1
<1>5. ASSUME NEW n \in 1 .. N, n - 1 \in U
      PROVE  n \in U
  <2>1. n + 1 \in 1 .. Len(s) /\ n \in 1 .. Len(t) /\ (n + 1) - 1 = n /\ (n - 1) + 1 = n
    BY <1>1
  <2>2. f[n + 1] = f[(n + 1) - 1] + s[n + 1] /\ s[n + 1] \in Nat
    BY <2>1, <1>2, SumsStep
  <2>3. g[n] = g[n - 1] + t[n] /\ g[n - 1] \in Nat
    BY <2>1, <1>1, <1>3, SumsStep
  <2>4. f[(n - 1) + 1] = s[1] + g[n - 1] /\ t[n] = s[n + 1]
    BY <1>1, <1>5
  <2>5. f[n + 1] = f[n] + s[n + 1] /\ f[n] = s[1] + g[n - 1]
    BY <2>1, <2>2, <2>4
  <2>6. f[n + 1] = s[1] + g[n]
    BY <2>2, <2>3, <2>4, <2>5, <1>1, SMTT(30)
  <2> QED BY <2>6
<1>6. \A n \in 0 .. N : n \in U
  <2> HIDE DEF U, N
  <2> QED BY <1>1, <1>4, <1>5, Induction
<1>7. N \in U
  BY <1>1, <1>6
<1> QED BY <1>1, <1>2, <1>3, <1>7 DEF t

\* One element more at the end, or one less at the front.
LEMMA TotalLonger ==
  ASSUME NEW s \in Seq(Nat), NEW t \in Seq(Nat), Len(t) = Len(s) + 1,
         \A i \in 1 .. Len(s) : t[i] = s[i]
  PROVE  Total(t) = Total(s) + t[Len(t)]
<1> DEFINE x == t[Len(t)]
           u == Append(s, x)
<1>1. Len(s) \in Nat /\ x \in Nat
  BY Len(t) \in 1 .. Len(t)
<1>2. /\ u \in Seq(Nat) /\ Len(u) = Len(s) + 1 /\ u[Len(s) + 1] = x
      /\ \A i \in 1 .. Len(s) : s[i] = u[i]
  BY <1>1, AppendedNat
<1>3. Total(u) = Total(s) + x
  BY <1>1, TotalAppend
<1> HIDE DEF u
<1>4. ASSUME NEW i \in 1 .. Len(t)
      PROVE  t[i] = u[i]
  <2>1. CASE i = Len(s) + 1
    BY <2>1, <1>2
  <2>2. CASE i \in 1 .. Len(s)
    BY <2>2, <1>2
  <2> QED BY <2>1, <2>2, <1>1
<1>5. t = u
  BY <1>2, <1>4, SameSequence
<1> QED BY <1>3, <1>5

LEMMA TotalShorter ==
  ASSUME NEW s \in Seq(Nat), NEW t \in Seq(Nat), Len(s) = Len(t) + 1,
         \A i \in 1 .. Len(t) : t[i] = s[i + 1]
  PROVE  Total(s) = s[1] + Total(t)
<1>1. s # <<>> /\ Len(t) \in Nat
  OBVIOUS
<1>2. /\ Tail(s) \in Seq(Nat) /\ Len(s) = Len(Tail(s)) + 1 /\ Len(Tail(s)) \in Nat
      /\ Head(s) = s[1]
      /\ \A i \in 1 .. Len(Tail(s)) : Tail(s)[i] = s[i + 1]
  BY <1>1, TailNat
<1>3. Len(t) = Len(Tail(s)) /\ \A i \in 1 .. Len(t) : t[i] = Tail(s)[i]
  BY <1>1, <1>2
<1>4. t = Tail(s)
  BY <1>2, <1>3, SameSequence
<1> QED BY <1>1, <1>2, <1>4, TotalTail

\* The sums grow.
LEMMA SumsGrow ==
  ASSUME NEW s \in Seq(Nat), NEW f, IsSums(f, s),
         NEW m \in Nat, NEW n \in Nat, m <= n, n <= Len(s)
  PROVE  f[m] <= f[n]
<1> DEFINE T == {k \in 0 .. n - m : f[m] <= f[m + k]}
           N == n - m
<1>1. N \in Nat
  OBVIOUS
<1>2. 0 \in T
  <2>1. m \in 0 .. Len(s) /\ m + 0 = m
    OBVIOUS
  <2>2. f[m] \in Nat
    BY <2>1, SumsType
  <2> QED BY <2>1, <2>2
<1>3. ASSUME NEW k \in 1 .. N, k - 1 \in T
      PROVE  k \in T
  <2> DEFINE j == m + k
  <2>1. j \in 1 .. Len(s) /\ m + (k - 1) = j - 1 /\ m \in 0 .. Len(s)
    OBVIOUS
  <2>2. f[m] \in Nat
    BY <2>1, SumsType
  <2>3. f[j] = f[j - 1] + s[j] /\ f[j - 1] \in Nat /\ s[j] \in Nat
    <3> HIDE DEF j
    <3> QED BY <2>1, SumsStep
  <2>4. f[m] <= f[j - 1]
    BY <2>1, <1>3
  <2>5. f[m] <= f[j]
    <3> HIDE DEF j
    <3> QED BY <2>2, <2>3, <2>4
  <2> QED BY <2>5
<1>4. \A k \in 0 .. N : k \in T
  <2> HIDE DEF T, N
  <2> QED BY <1>1, <1>2, <1>3, Induction
<1>5. N \in T /\ m + N = n
  BY <1>1, <1>4
<1> QED BY <1>5

\* What is picked out of a sequence has no greater sum.
LEMMA TotalPicked ==
  ASSUME NEW s \in Seq(Nat), NEW k \in Nat, NEW p \in Picks(k, Len(s)),
         NEW t \in Seq(Nat), Len(t) = k, \A i \in 1 .. k : t[i] = s[p[i]]
  PROVE  Total(t) <= Total(s)
<1>1. PICK f : IsSums(f, s) /\ Total(s) = f[Len(s)]
  BY SumsExist
<1>2. PICK g : IsSums(g, t) /\ Total(t) = g[Len(t)]
  BY SumsExist
<1>3. p \in [1 .. k -> 1 .. Len(s)] /\ \A i, j \in 1 .. k : i < j => p[i] < p[j]
  BY DEF Picks
<1> DEFINE T == {n \in 0 .. k : n # 0 => g[n] <= f[p[n]]}
<1>4. 0 \in T
  OBVIOUS
<1>5. ASSUME NEW n \in 1 .. k, n - 1 \in T
      PROVE  n \in T
  <2>1. g[n] = g[n - 1] + s[p[n]] /\ g[n - 1] \in Nat
    <3>1. g[n] = g[n - 1] + t[n] /\ g[n - 1] \in Nat
      BY <1>2, SumsStep
    <3> QED BY <3>1
  <2>2. p[n] \in 1 .. Len(s)
    BY <1>3
  <2>3. f[p[n]] = f[p[n] - 1] + s[p[n]] /\ f[p[n] - 1] \in Nat /\ s[p[n]] \in Nat
    BY <1>1, <2>2, SumsStep
  <2>4. g[n - 1] <= f[p[n] - 1]
    <3>1. CASE n = 1
      BY <3>1, <1>2, <2>3 DEF IsSums
    <3>2. CASE n # 1
      <4>1. n - 1 \in 1 .. k /\ p[n - 1] < p[n] /\ p[n - 1] \in 1 .. Len(s)
        BY <3>2, <1>3
      <4>2. g[n - 1] <= f[p[n - 1]]
        BY <4>1, <1>5
      <4>3. f[p[n - 1]] <= f[p[n] - 1]
        <5>1. /\ p[n - 1] \in Nat /\ p[n] - 1 \in Nat
              /\ p[n - 1] <= p[n] - 1 /\ p[n] - 1 <= Len(s)
          <6> DEFINE x == p[n - 1]
                     y == p[n]
          <6>1. x < y /\ x \in 1 .. Len(s) /\ y \in 1 .. Len(s)
            BY <4>1, <2>2
          <6> HIDE DEF x, y
          <6>2. x \in Nat /\ y - 1 \in Nat /\ x <= y - 1 /\ y - 1 <= Len(s)
            BY <6>1
          <6> QED BY <6>2 DEF x, y
        <5> QED BY <5>1, <1>1, SumsGrow
      <4>4. f[p[n - 1]] \in Nat
        BY <4>1, <1>1, SumsStep
      <4>5. g[n - 1] \in Nat /\ f[p[n] - 1] \in Nat
        BY <2>1, <2>3
      <4> QED BY <4>2, <4>3, <4>4, <4>5
    <3> QED BY <3>1, <3>2
  <2>5. g[n] <= f[p[n]]
    <3> DEFINE gn == g[n]
               gm == g[n - 1]
               fp == f[p[n]]
               fm == f[p[n] - 1]
               sp == s[p[n]]
    <3>1. gn = gm + sp /\ fp = fm + sp /\ gm <= fm /\ {gm, fm, sp} \subseteq Nat
      BY <2>1, <2>3, <2>4
    <3> HIDE DEF gn, gm, fp, fm, sp
    <3>2. gn <= fp
      BY <3>1
    <3> QED BY <3>2 DEF gn, fp
  <2> QED BY <2>5
<1>6. \A n \in 0 .. k : n \in T
  <2> HIDE DEF T
  <2> QED BY <1>4, <1>5, Induction
<1>7. CASE k = 0
  <2>1. g[0] = 0 /\ f[Len(s)] \in Nat
    BY <1>1, <1>2, SumsType
  <2> QED BY <2>1, <1>1, <1>2, <1>7
<1>8. CASE k # 0
  <2>1. k \in T /\ p[k] \in 1 .. Len(s)
    BY <1>3, <1>6, <1>8
  <2>2. g[k] <= f[p[k]]
    BY <2>1, <1>8
  <2>3. f[p[k]] <= f[Len(s)]
    <3>1. p[k] \in Nat /\ Len(s) \in Nat /\ p[k] <= Len(s)
      BY <2>1
    <3> QED BY <3>1, <1>1, SumsGrow
  <2>4. g[k] \in Nat /\ f[p[k]] \in Nat /\ f[Len(s)] \in Nat
    <3>1. p[k] \in 0 .. Len(s) /\ Len(s) \in 0 .. Len(s) /\ k \in 0 .. Len(t)
      BY <2>1
    <3> QED BY <3>1, <1>1, <1>2, SumsType
  <2> QED BY <2>2, <2>3, <2>4, <1>1, <1>2
<1> QED BY <1>7, <1>8

\* A sequence turned round has the same sum.
LEMMA TotalTurned ==
  ASSUME NEW s \in Seq(Nat), NEW t \in Seq(Nat), Len(t) = Len(s),
         \A i \in 1 .. Len(s) : t[i] = s[Len(s) - i + 1]
  PROVE  Total(t) = Total(s)
<1> DEFINE N == Len(s)
<1>1. PICK f : IsSums(f, s) /\ Total(s) = f[N]
  BY SumsExist
<1>2. PICK g : IsSums(g, t) /\ Total(t) = g[N]
  BY SumsExist
<1> DEFINE T == {n \in 0 .. N : g[n] + f[N - n] = f[N]}
<1>3. N \in Nat /\ 0 \in T
  <2>1. N \in 0 .. N /\ 0 \in 0 .. N /\ N - 0 = N /\ N \in Nat
    OBVIOUS
  <2>2. g[0] = 0 /\ f[N] \in Nat
    BY <2>1, <1>1, <1>2, SumsType
  <2> QED BY <2>1, <2>2
<1>4. ASSUME NEW n \in 1 .. N, n - 1 \in T
      PROVE  n \in T
  <2>1. g[n] = g[n - 1] + t[n] /\ g[n - 1] \in Nat /\ t[n] = s[N - n + 1]
    BY <1>2, SumsStep
  <2>2. N - n + 1 \in 1 .. N /\ (N - n + 1) - 1 = N - n /\ N - (n - 1) = N - n + 1
    BY <1>3
  <2> DEFINE m == N - n + 1
  <2>3. f[m] = f[m - 1] + s[m] /\ f[m - 1] \in Nat /\ s[m] \in Nat
    <3>1. m \in 1 .. Len(s)
      BY <2>2
    <3> HIDE DEF m
    <3> QED BY <3>1, <1>1, SumsStep
  <2>4. m - 1 = N - n /\ g[n - 1] + f[m] = f[N] /\ t[n] = s[m]
    BY <2>1, <2>2, <1>4
  <2> HIDE DEF m
  <2>5. g[n] = g[n - 1] + s[m]
    BY <2>1, <2>4
  <2>6. g[n] + f[m - 1] = f[N]
    <3>1. g[n - 1] \in Nat /\ g[n - 1] + f[m] = f[N]
      BY <2>1, <2>4
    <3>2. g[n - 1] + (f[m - 1] + s[m]) = f[N]
      BY <3>1, <2>3
    <3>3. f[N] \in Nat
      BY <1>1, <1>3, SumsType
    <3> DEFINE a == g[n - 1]
               b == f[m - 1]
               c == s[m]
               d == f[N]
    <3>4. a + (b + c) = d /\ a \in Nat /\ b \in Nat /\ c \in Nat /\ d \in Nat
      BY <3>1, <3>2, <3>3, <2>3
    <3> HIDE DEF a, b, c, d
    <3>5. (a + c) + b = d
      BY <3>4
    <3> QED BY <3>5, <2>5 DEF a, b, c, d
  <2> QED BY <2>4, <2>6
<1>5. \A n \in 0 .. N : n \in T
  <2> HIDE DEF T, N
  <2> QED BY <1>3, <1>4, Induction
<1>6. g[N] + f[N - N] = f[N] /\ N - N = 0
  BY <1>3, <1>5
<1>7. f[0] = 0 /\ g[N] \in Nat
  <2>1. N \in 0 .. N
    BY <1>3
  <2> QED BY <2>1, <1>1, <1>2, SumsType
<1> QED BY <1>1, <1>2, <1>6, <1>7

----------------------------------------------------------------------------
(* What an emergency leaves *)

\* What is left is a part of the queue, in its order.
LEMMA ThinnedFacts ==
  ASSUME NEW S, NEW q \in Seq(S), NEW kept \in Thinned(q)
  PROVE  /\ kept \in Seq(S) /\ Len(kept) <= Len(q)
         /\ \E f \in Picks(Len(kept), Len(q)) : \A i \in 1 .. Len(kept) : kept[i] = q[f[i]]
<1>1. PICK k \in 0 .. Len(q) : kept \in {[i \in 1 .. k |-> q[f[i]]] : f \in Picks(k, Len(q))}
  BY DEF Thinned
<1>2. PICK f \in Picks(k, Len(q)) : kept = [i \in 1 .. k |-> q[f[i]]]
  BY <1>1
<1>3. f \in [1 .. k -> 1 .. Len(q)] /\ k \in Nat /\ k <= Len(q)
  BY DEF Picks
<1>4. kept \in [1 .. k -> S]
  BY <1>2, <1>3
<1>5. kept \in Seq(S) /\ Len(kept) = k
  BY <1>3, <1>4
<1> QED BY <1>2, <1>5

\* Nothing need be removed.
LEMMA AllKept ==
  ASSUME NEW S, NEW q \in Seq(S)
  PROVE  \E f \in Picks(Len(q), Len(q)) : \A i \in 1 .. Len(q) : q[i] = q[f[i]]
<1> DEFINE f == [i \in 1 .. Len(q) |-> i]
<1>1. f \in Picks(Len(q), Len(q))
  BY DEF Picks
<1>2. \A i \in 1 .. Len(q) : f[i] = i
  OBVIOUS
<1> HIDE DEF f
<1> QED BY <1>1, <1>2
=============================================================================
