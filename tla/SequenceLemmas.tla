--------------------------- MODULE SequenceLemmas ---------------------------
(***************************************************************************)
(* Facts about sequences that the proofs of several components share.      *)
(*                                                                         *)
(* The first part is induction over the natural numbers, stated for sets:  *)
(* a set that holds 0 and the successor of each of its members holds every *)
(* natural number.  It needs no operator parameter, so the provers can     *)
(* apply it, and with it what a recursive function computes is proved like *)
(* anything else.  The second part says so for the filter of Loops, the    *)
(* last for its other loops.  The third part is about queues: a            *)
(* concatenation of the packets delivered, those in flight and those       *)
(* waiting, and what moving one of them does to it.                        *)
(***************************************************************************)
EXTENDS Loops, SequenceTheorems, WellFoundedInduction, TLAPS

\* A non-empty set of natural numbers has a least member.
LEMMA NatMinimum ==
  ASSUME NEW T \in SUBSET Nat, T # {}
  PROVE  \E x \in T : \A y \in T : x <= y
<1> DEFINE R == OpToRel(<, Nat)
<1>1. IsWellFoundedOn(R, Nat)
  BY NatLessThanWellFounded
<1>2. \A x, y \in Nat : <<y, x>> \in R <=> y < x
  BY DEF OpToRel
<1>3. PICK x \in T : \A y \in T : ~ (<<y, x>> \in R)
  <2> HIDE DEF R
  <2> QED
    BY <1>1, WFMin
<1>4. ASSUME NEW y \in T PROVE x <= y
  <2>1. ~ (<<y, x>> \in R)
    BY <1>3
  <2>2. <<y, x>> \in R <=> y < x
    BY <1>2
  <2> HIDE DEF R
  <2> QED
    BY <2>1, <2>2
<1> QED
  BY <1>4

\* Induction over the natural numbers.
LEMMA NatSetInduction ==
  ASSUME NEW T, 0 \in T, \A n \in Nat : n \in T => n + 1 \in T
  PROVE  Nat \subseteq T
<1> SUFFICES ASSUME Nat \ T # {} PROVE FALSE
  OBVIOUS
<1>1. PICK x \in Nat \ T : \A y \in Nat \ T : x <= y
  BY NatMinimum
<1>2. x # 0
  OBVIOUS
<1>3. x - 1 \in Nat /\ x - 1 \in T
  BY <1>1, <1>2
<1> QED
  BY <1>3, <1>1

\* The functions that give the value of a recursion at n from its value at n - 1.
Steps(N, S) == [(1 .. N) \X S -> S]

\* f is the recursion from a along step, up to N.
Iterates(f, a, N, step) == f[0] = a /\ \A n \in 1 .. N : f[n] = step[<<n, f[n - 1]>>]

\* Such a recursion has a solution: a recursive function over 0 .. N exists.
LEMMA FiniteRecursion ==
  ASSUME NEW S, NEW a \in S, NEW N \in Nat, NEW step \in Steps(N, S)
  PROVE  \E f \in [0 .. N -> S] : Iterates(f, a, N, step)
<1> USE DEF Steps, Iterates
<1> DEFINE T == {k \in Nat : k <= N => \E f \in [0 .. k -> S] : Iterates(f, a, k, step)}
<1>1. 0 \in T
  <2>1. [n \in 0 .. 0 |-> a] \in [0 .. 0 -> S] /\ Iterates([n \in 0 .. 0 |-> a], a, 0, step)
    OBVIOUS
  <2> QED
    BY <2>1
<1>2. ASSUME NEW k \in Nat, k \in T PROVE k + 1 \in T
  <2> SUFFICES ASSUME k + 1 <= N
               PROVE  \E f \in [0 .. k + 1 -> S] : Iterates(f, a, k + 1, step)
    OBVIOUS
  <2>1. PICK f \in [0 .. k -> S] : Iterates(f, a, k, step)
    BY <1>2
  <2> DEFINE g == [n \in 0 .. k + 1 |-> IF n = k + 1 THEN step[<<k + 1, f[k]>>] ELSE f[n]]
  <2>2. step[<<k + 1, f[k]>>] \in S
    OBVIOUS
  <2>3. g \in [0 .. k + 1 -> S]
    BY <2>2
  <2>4. g[0] = a
    BY <2>1
  <2>5. ASSUME NEW n \in 1 .. k + 1 PROVE g[n] = step[<<n, g[n - 1]>>]
    <3>1. CASE n = k + 1
      <4>1. g[n] = step[<<k + 1, f[k]>>] /\ g[n - 1] = f[k]
        BY <3>1
      <4> QED
        BY <4>1, <3>1
    <3>2. CASE n # k + 1
      <4>1. n \in 1 .. k /\ n - 1 \in 0 .. k
        BY <3>2
      <4>2. g[n] = f[n] /\ g[n - 1] = f[n - 1]
        BY <4>1
      <4> QED
        BY <4>1, <4>2, <2>1
    <3> QED
      BY <3>1, <3>2
  <2> QED
    BY <2>3, <2>4, <2>5
<1>3. N \in T
  <2> HIDE DEF T
  <2> QED
    BY <1>1, <1>2, NatSetInduction
<1> QED
  BY <1>3

\* Function f repeats step from a on.
Repeats(f, S, a, step) ==
  f \in [Nat -> S] /\ f[0] = a /\ \A n \in Nat : f[n + 1] = step[f[n]]

Maps(S) == [S -> S]

\* And there is one over all natural numbers.
LEMMA NatRecursion ==
  ASSUME NEW S, NEW a \in S, NEW step \in Maps(S)
  PROVE  \E f : Repeats(f, S, a, step)
<1> USE DEF Maps
<1> DEFINE st(N) == [q \in (1 .. N) \X S |-> step[q[2]]]
           P(f, N) == f \in [0 .. N -> S] /\ f[0] = a /\ \A n \in 1 .. N : f[n] = step[f[n - 1]]
           F(N) == CHOOSE f : P(f, N)
<1>1. ASSUME NEW N \in Nat PROVE \E f : P(f, N)
  <2>1. st(N) \in Steps(N, S)
    BY DEF Steps
  <2>2. \A n \in 1 .. N, y \in S : st(N)[<<n, y>>] = step[y]
    OBVIOUS
  <2> DEFINE t == st(N)
  <2>3. t \in Steps(N, S) /\ \A n \in 1 .. N, y \in S : t[<<n, y>>] = step[y]
    BY <2>1, <2>2
  <2> HIDE DEF t
  <2>4. PICK f \in [0 .. N -> S] : Iterates(f, a, N, t)
    BY <2>3, FiniteRecursion
  <2>5. ASSUME NEW n \in 1 .. N PROVE f[n] = step[f[n - 1]]
    <3>1. n - 1 \in 0 .. N /\ f[n - 1] \in S
      OBVIOUS
    <3> QED
      BY <2>3, <2>4, <3>1 DEF Iterates
  <2>6. f[0] = a
    BY <2>4 DEF Iterates
  <2> QED
    BY <2>5, <2>6
<1>2. ASSUME NEW N \in Nat PROVE P(F(N), N)
  <2>1. \E f : P(f, N)
    BY <1>1
  <2> HIDE DEF P
  <2> QED
    BY <2>1, Zenon
<1>3. ASSUME NEW N \in Nat PROVE P(F(N), N) /\ P(F(N + 1), N + 1)
  <2> HIDE DEF P, F
  <2>1. N + 1 \in Nat
    OBVIOUS
  <2> QED
    BY <1>2, <2>1
<1>4. ASSUME NEW N \in Nat PROVE F(N + 1)[N] = F(N)[N]
  <2> DEFINE g == F(N + 1)
             h == F(N)
             K == {n \in Nat : n <= N => g[n] = h[n]}
  <2>1. P(g, N + 1) /\ P(h, N)
    <3> HIDE DEF P, F
    <3> QED
      BY <1>3
  <2> HIDE DEF g, h
  <2>2. 0 \in K
    BY <2>1
  <2>3. ASSUME NEW n \in Nat, n \in K PROVE n + 1 \in K
    <3> SUFFICES ASSUME n + 1 <= N PROVE g[n + 1] = h[n + 1]
      OBVIOUS
    <3>1. n + 1 \in 1 .. N /\ n + 1 \in 1 .. N + 1 /\ (n + 1) - 1 = n /\ n <= N
      OBVIOUS
    <3>2. g[n + 1] = step[g[n]] /\ h[n + 1] = step[h[n]]
      BY <2>1, <3>1
    <3> QED
      BY <2>3, <3>1, <3>2
  <2>4. N \in K
    <3> HIDE DEF K
    <3> QED
      BY <2>2, <2>3, NatSetInduction
  <2> QED
    BY <2>4 DEF g, h
<1> DEFINE f == [n \in Nat |-> F(n)[n]]
<1>5. f[0] = a
  <2>1. F(0)[0] = a
    BY <1>2
  <2> HIDE DEF F
  <2> QED
    BY <2>1
<1>6. f \in [Nat -> S]
  <2>1. ASSUME NEW n \in Nat PROVE F(n)[n] \in S
    <3>1. F(n) \in [0 .. n -> S]
      BY <1>2
    <3> HIDE DEF F
    <3> QED
      BY <3>1
  <2> HIDE DEF F
  <2> QED
    BY <2>1
<1>7. ASSUME NEW n \in Nat PROVE f[n + 1] = step[f[n]]
  <2>1. P(F(n + 1), n + 1)
    <3> HIDE DEF P, F
    <3> QED
      BY <1>3
  <2>2. F(n + 1)[n] = F(n)[n]
    BY <1>4
  <2> HIDE DEF F
  <2>3. F(n + 1)[n + 1] = step[F(n + 1)[(n + 1) - 1]] /\ (n + 1) - 1 = n
    BY <2>1
  <2> QED
    BY <2>2, <2>3
<1>8. Repeats(f, S, a, step)
  <2> HIDE DEF f
  <2> QED
    BY <1>5, <1>6, <1>7 DEF Repeats
<1> QED
  BY <1>8

\* The loop's result after n iterations is what its recursive definition says.
LEMMA FilterUpToDef ==
  ASSUME NEW R, NEW s \in Seq(R), NEW T
  PROVE  /\ FilterUpTo(s, T) \in [0 .. Len(s) -> Seq(R)]
         /\ FilterUpTo(s, T)[0] = <<>>
         /\ \A n \in 1 .. Len(s) :
              FilterUpTo(s, T)[n] = AppendIf(FilterUpTo(s, T)[n - 1], s[n], T)
<1> DEFINE N == Len(s)
           S == Seq(R)
           e == <<>>
           step == [q \in (1 .. N) \X S |-> AppendIf(q[2], s[q[1]], T)]
           Is(g) == g = [n \in 0 .. N |-> IF n = 0 THEN e ELSE AppendIf(g[n - 1], s[n], T)]
           h == FilterUpTo(s, T)
<1>1. N \in Nat /\ e \in S /\ \A n \in 1 .. N, y \in S : AppendIf(y, s[n], T) \in S
  <2>1. \A n \in 1 .. N : s[n] \in R
    OBVIOUS
  <2> QED
    BY <2>1 DEF AppendIf
<1>2. h = CHOOSE g : Is(g)
  BY DEF FilterUpTo
<1> HIDE DEF N, S, h, e
<1>3. step \in Steps(N, S)
  BY <1>1 DEF Steps
<1>4. \A n \in 1 .. N, y \in S : step[<<n, y>>] = AppendIf(y, s[n], T)
  BY <1>1
<1> HIDE DEF step
<1>5. PICK f \in [0 .. N -> S] : Iterates(f, e, N, step)
  BY <1>1, <1>3, FiniteRecursion
<1>6. Is(f)
  <2>1. ASSUME NEW n \in 1 .. N PROVE f[n] = AppendIf(f[n - 1], s[n], T)
    <3>1. n - 1 \in 0 .. N
      BY <1>1
    <3> QED
      BY <1>4, <1>5, <3>1 DEF Iterates
  <2>2. \A n \in 0 .. N : f[n] = IF n = 0 THEN e ELSE AppendIf(f[n - 1], s[n], T)
    BY <1>1, <1>5, <2>1 DEF Iterates
  <2> DEFINE G == [n \in 0 .. N |-> IF n = 0 THEN e ELSE AppendIf(f[n - 1], s[n], T)]
  <2>3. \A n \in 0 .. N : f[n] = G[n]
    BY <2>2
  <2>4. DOMAIN G = 0 .. N /\ G = [n \in DOMAIN G |-> G[n]]
    BY Zenon
  <2>5. f = G
    <3> HIDE DEF G
    <3> QED
      BY <2>3, <2>4
  <2> QED
    BY <2>5
<1>7. Is(h)
  <2> HIDE DEF Is
  <2> QED
    BY <1>2, <1>6
<1>8. /\ DOMAIN h = 0 .. N /\ h[0] = e
      /\ \A n \in 1 .. N : h[n] = AppendIf(h[n - 1], s[n], T)
  <2>1. DOMAIN h = 0 .. N
    BY <1>7
  <2>2. \A n \in 0 .. N : h[n] = IF n = 0 THEN e ELSE AppendIf(h[n - 1], s[n], T)
    BY <1>7, Zenon
  <2>3. h[0] = e
    BY <1>1, <2>2
  <2>4. ASSUME NEW n \in 1 .. N PROVE h[n] = AppendIf(h[n - 1], s[n], T)
    <3>1. n \in 0 .. N /\ n # 0
      BY <1>1
    <3> QED
      BY <2>2, <3>1
  <2> QED
    BY <2>1, <2>3, <2>4
<1>9. h \in [0 .. N -> S]
  <2> DEFINE K == {n \in Nat : n <= N => h[n] \in S}
  <2>1. 0 \in K
    BY <1>1, <1>8
  <2>2. ASSUME NEW n \in Nat, n \in K PROVE n + 1 \in K
    <3> SUFFICES ASSUME n + 1 <= N PROVE h[n + 1] \in S
      OBVIOUS
    <3>1. n + 1 \in 1 .. N /\ (n + 1) - 1 = n
      BY <1>1
    <3>2. h[n + 1] = AppendIf(h[n], s[n + 1], T)
      BY <1>8, <3>1
    <3>3. h[n] \in S
      <4>1. n <= N
        BY <1>1
      <4> QED
        BY <2>2, <4>1
    <3> HIDE DEF K
    <3> QED
      BY <1>1, <3>1, <3>2, <3>3
  <2>3. \A n \in 0 .. N : h[n] \in S
    <3> HIDE DEF K
    <3>1. Nat \subseteq K
      BY <2>1, <2>2, NatSetInduction
    <3> QED
      BY <3>1, <1>1 DEF K
  <2>4. h = [n \in 0 .. N |-> h[n]]
    BY <1>7, <1>8
  <2> QED
    BY <2>3, <2>4
<1> QED
  BY <1>8, <1>9 DEF N, S, h, e

\* After m iterations the result depends on the first m elements only.
LEMMA FilterUpToPrefix ==
  ASSUME NEW R, NEW s \in Seq(R), NEW t \in Seq(R), NEW T, NEW m \in Nat,
         m <= Len(s), m <= Len(t), \A n \in 1 .. m : s[n] = t[n]
  PROVE  FilterUpTo(s, T)[m] = FilterUpTo(t, T)[m]
<1> DEFINE f == FilterUpTo(s, T)
           g == FilterUpTo(t, T)
           K == {n \in Nat : n <= m => f[n] = g[n]}
<1>1. f[0] = <<>> /\ g[0] = <<>>
  BY FilterUpToDef
<1>2. \A n \in 1 .. m : f[n] = AppendIf(f[n - 1], s[n], T) /\ g[n] = AppendIf(g[n - 1], s[n], T)
  <2>1. \A n \in 1 .. Len(s) : f[n] = AppendIf(f[n - 1], s[n], T)
    BY FilterUpToDef
  <2>2. \A n \in 1 .. Len(t) : g[n] = AppendIf(g[n - 1], t[n], T)
    BY FilterUpToDef
  <2>3. Len(s) \in Nat /\ Len(t) \in Nat
    OBVIOUS
  <2> HIDE DEF f, g
  <2> QED
    BY <2>1, <2>2, <2>3
<1> HIDE DEF f, g
<1>3. 0 \in K
  BY <1>1
<1>4. ASSUME NEW n \in Nat, n \in K PROVE n + 1 \in K
  <2> SUFFICES ASSUME n + 1 <= m PROVE f[n + 1] = g[n + 1]
    OBVIOUS
  <2>1. n + 1 \in 1 .. m /\ (n + 1) - 1 = n /\ n <= m
    OBVIOUS
  <2> QED
    BY <1>2, <1>4, <2>1
<1>5. m \in K
  <2> HIDE DEF K
  <2> QED
    BY <1>3, <1>4, NatSetInduction
<1> QED
  BY <1>5 DEF f, g

\* Nothing is kept of no elements.
LEMMA FilterEmpty ==
  ASSUME NEW T PROVE Filter(<<>>, T) = <<>>
<1>1. <<>> \in Seq({}) /\ Len(<<>>) = 0
  OBVIOUS
<1>2. FilterUpTo(<<>>, T)[0] = <<>>
  BY <1>1, FilterUpToDef
<1> QED
  BY <1>1, <1>2 DEF Filter

\* What is kept are elements of the sequence.
LEMMA FilterType ==
  ASSUME NEW R, NEW s \in Seq(R), NEW T
  PROVE  Filter(s, T) \in Seq(R)
<1>1. Len(s) \in Nat
  OBVIOUS
<1> QED
  BY <1>1, FilterUpToDef DEF Filter

\* One more element adds itself or nothing.
LEMMA FilterAppend ==
  ASSUME NEW R, NEW s \in Seq(R), NEW x \in R, NEW T
  PROVE  Filter(Append(s, x), T) = AppendIf(Filter(s, T), x, T)
<1> DEFINE t == Append(s, x)
           N == Len(s)
<1>1. t \in Seq(R) /\ N \in Nat /\ Len(t) = N + 1 /\ t[N + 1] = x
      /\ \A n \in 1 .. N : t[n] = s[n]
  OBVIOUS
<1> HIDE DEF t
<1>2. FilterUpTo(t, T)[N + 1] = AppendIf(FilterUpTo(t, T)[N], x, T)
  <2>1. N + 1 \in 1 .. Len(t) /\ (N + 1) - 1 = N
    BY <1>1
  <2>2. \A n \in 1 .. Len(t) : FilterUpTo(t, T)[n] = AppendIf(FilterUpTo(t, T)[n - 1], t[n], T)
    BY <1>1, FilterUpToDef
  <2> HIDE DEF N
  <2> QED
    BY <1>1, <2>1, <2>2
<1>3. FilterUpTo(t, T)[N] = FilterUpTo(s, T)[N]
  <2>1. N <= Len(s) /\ N <= Len(t)
    BY <1>1
  <2> QED
    BY <1>1, <2>1, FilterUpToPrefix
<1> QED
  BY <1>1, <1>2, <1>3 DEF Filter, t

\* Adding at the end of a concatenation is adding at the end of its last part.
LEMMA AppendIfConcat ==
  ASSUME NEW R, NEW s \in Seq(R), NEW t \in Seq(R), NEW x \in R, NEW T
  PROVE  AppendIf(s \o t, x, T) = s \o AppendIf(t, x, T)
<1> DEFINE u == Append(s \o t, x)
           v == s \o Append(t, x)
<1>1. u \in Seq(R) /\ v \in Seq(R)
  OBVIOUS
<1>2. Len(u) = Len(v) /\ \A i \in 1 .. Len(u) : u[i] = v[i]
  OBVIOUS
<1>3. u = v
  <2> HIDE DEF u, v
  <2> QED
    BY <1>1, <1>2, SeqEqual
<1> QED
  BY <1>3, Zenon DEF AppendIf

\* A sequence is its first element followed by the rest.
LEMMA HeadTailConcat ==
  ASSUME NEW R, NEW s \in Seq(R), s # <<>>
  PROVE  s = <<Head(s)>> \o Tail(s)
<1>1. Len(s) \in Nat /\ Len(s) >= 1 /\ Head(s) = s[1] /\ Head(s) \in R /\ Tail(s) \in Seq(R)
  OBVIOUS
<1>2. Len(<<Head(s)>> \o Tail(s)) = Len(s)
  OBVIOUS
<1>3. \A i \in 1 .. Len(s) : (<<Head(s)>> \o Tail(s))[i] = s[i]
  BY <1>1
<1>4. <<Head(s)>> \o Tail(s) \in Seq(R)
  BY <1>1
<1> QED
  BY <1>1, <1>2, <1>3, <1>4, SeqEqual

\* Keeping elements of a concatenation keeps those of both parts, in order.
LEMMA FilterConcat ==
  ASSUME NEW R, NEW s \in Seq(R), NEW t \in Seq(R), NEW T
  PROVE  Filter(s \o t, T) = Filter(s, T) \o Filter(t, T)
<1> DEFINE K == {k \in Nat : \A u \in Seq(R) : Len(u) = k =>
                               Filter(s \o u, T) = Filter(s, T) \o Filter(u, T)}
<1>1. 0 \in K
  <2> SUFFICES ASSUME NEW u \in Seq(R), Len(u) = 0
               PROVE  Filter(s \o u, T) = Filter(s, T) \o Filter(u, T)
    OBVIOUS
  <2>1. u = <<>> /\ s \o u = s
    OBVIOUS
  <2>2. Filter(s, T) \o <<>> = Filter(s, T)
    BY FilterType
  <2> QED
    BY <2>1, <2>2, FilterEmpty
<1>2. ASSUME NEW k \in Nat, k \in K PROVE k + 1 \in K
  <2> SUFFICES ASSUME NEW u \in Seq(R), Len(u) = k + 1
               PROVE  Filter(s \o u, T) = Filter(s, T) \o Filter(u, T)
    OBVIOUS
  <2>1. PICK v \in Seq(R), x \in R : u = Append(v, x)
    BY SequenceEmptyOrAppend
  <2>2. Len(v) = k /\ s \o v \in Seq(R)
    BY <2>1
  <2>8. s \o u = Append(s \o v, x)
    BY <2>1
  <2>3. Filter(s \o v, T) = Filter(s, T) \o Filter(v, T)
    BY <1>2, <2>2
  <2>4. Filter(s \o u, T) = AppendIf(Filter(s, T) \o Filter(v, T), x, T)
    BY <2>2, <2>3, <2>8, FilterAppend
  <2>5. Filter(u, T) = AppendIf(Filter(v, T), x, T)
    BY <2>1, FilterAppend
  <2>6. Filter(s, T) \in Seq(R) /\ Filter(v, T) \in Seq(R)
    BY FilterType
  <2>7. AppendIf(Filter(s, T) \o Filter(v, T), x, T) = Filter(s, T) \o AppendIf(Filter(v, T), x, T)
    BY <2>6, AppendIfConcat
  <2> QED
    BY <2>4, <2>5, <2>7
<1>3. Len(t) \in K
  <2>1. Len(t) \in Nat
    OBVIOUS
  <2> HIDE DEF K
  <2> QED
    BY <2>1, <1>1, <1>2, NatSetInduction
<1> QED
  BY <1>3

\* The first element is kept in front, or dropped.
LEMMA FilterCons ==
  ASSUME NEW R, NEW s \in Seq(R), s # <<>>, NEW T
  PROVE  Filter(s, T) = IF Head(s) \in T THEN <<Head(s)>> \o Filter(Tail(s), T)
                        ELSE Filter(Tail(s), T)
<1> DEFINE x == Head(s)
           t == Tail(s)
           u == <<x>>
           e == <<>>
<1>1. x \in R /\ t \in Seq(R) /\ u \in Seq(R) /\ e \in Seq(R)
  OBVIOUS
<1>2. s = u \o t /\ u = Append(e, x)
  BY HeadTailConcat
<1>3. Filter(e, T) = e
  BY FilterEmpty
<1>4. e \o Filter(t, T) = Filter(t, T) /\ Append(e, x) = u
  BY <1>1, FilterType
<1> HIDE DEF x, t, u, e
<1>5. Filter(s, T) = Filter(u, T) \o Filter(t, T)
  <2>1. Filter(u \o t, T) = Filter(u, T) \o Filter(t, T)
    BY <1>1, FilterConcat
  <2> QED
    BY <1>2, <2>1
<1>6. Filter(u, T) = AppendIf(e, x, T)
  BY <1>1, <1>2, <1>3, FilterAppend
<1> QED
  BY <1>4, <1>5, <1>6 DEF AppendIf, x, t, u

\* Keeping what is in T, and of that what is in U, keeps what is in both.
LEMMA FilterFilter ==
  ASSUME NEW R, NEW s \in Seq(R), NEW T, NEW U
  PROVE  Filter(Filter(s, T), U) = Filter(s, T \cap U)
<1> DEFINE V == T \cap U
           K == {k \in Nat : \A u \in Seq(R) : Len(u) = k => Filter(Filter(u, T), U) = Filter(u, V)}
<1> HIDE DEF V
<1>1. 0 \in K
  <2> SUFFICES ASSUME NEW u \in Seq(R), Len(u) = 0 PROVE Filter(Filter(u, T), U) = Filter(u, V)
    OBVIOUS
  <2>1. u = <<>>
    OBVIOUS
  <2> QED
    BY <2>1, FilterEmpty
<1>2. ASSUME NEW k \in Nat, k \in K PROVE k + 1 \in K
  <2> SUFFICES ASSUME NEW u \in Seq(R), Len(u) = k + 1
               PROVE  Filter(Filter(u, T), U) = Filter(u, V)
    OBVIOUS
  <2>1. PICK v \in Seq(R), x \in R : u = Append(v, x)
    <3>1. u # <<>>
      OBVIOUS
    <3> HIDE DEF K
    <3> QED
      BY <3>1, SequenceEmptyOrAppend
  <2>2. Filter(Filter(v, T), U) = Filter(v, V)
    BY <1>2, <2>1
  <2>3. Filter(u, T) = AppendIf(Filter(v, T), x, T) /\ Filter(u, V) = AppendIf(Filter(v, V), x, V)
    BY <2>1, FilterAppend
  <2> DEFINE w == Filter(v, T)
  <2>4. w \in Seq(R)
    BY FilterType
  <2> HIDE DEF w
  <2>5. CASE x \in T
    <3>1. Filter(u, T) = Append(w, x)
      BY <2>3, <2>5 DEF AppendIf, w
    <3>2. Filter(Append(w, x), U) = AppendIf(Filter(w, U), x, U)
      BY <2>4, FilterAppend
    <3>3. AppendIf(Filter(v, V), x, U) = AppendIf(Filter(v, V), x, V)
      BY <2>5 DEF AppendIf, V
    <3>4. Filter(w, U) = Filter(v, V)
      BY <2>2 DEF w
    <3> QED
      BY <2>3, <3>1, <3>2, <3>3, <3>4
  <2>6. CASE x \notin T
    <3>1. Filter(u, T) = w /\ Filter(u, V) = Filter(v, V)
      BY <2>3, <2>6 DEF AppendIf, w, V
    <3> QED
      BY <2>2, <3>1 DEF w
  <2> QED
    BY <2>5, <2>6
<1>3. Len(s) \in K
  <2>1. Len(s) \in Nat
    OBVIOUS
  <2> HIDE DEF K
  <2> QED
    BY <2>1, <1>1, <1>2, NatSetInduction
<1> QED
  BY <1>3 DEF V

\* The lanes up to c of lanes 1 to N.
LEMMA FilterInterval ==
  ASSUME NEW N \in Nat, NEW c \in 0 .. N
  PROVE  Filter([i \in 1 .. N |-> i], 1 .. c) = [i \in 1 .. c |-> i]
<1> DEFINE q == [i \in 1 .. N |-> i]
           T == 1 .. c
           low(n) == IF n <= c THEN n ELSE c
           f == FilterUpTo(q, T)
           K == {n \in Nat : n <= N => f[n] = [i \in 1 .. low(n) |-> i]}
<1>1. q \in Seq(Nat) /\ Len(q) = N /\ \A n \in 1 .. N : q[n] = n
  OBVIOUS
<1>2. f[0] = <<>> /\ \A n \in 1 .. N : f[n] = AppendIf(f[n - 1], n, T)
  <2> HIDE DEF q, T
  <2>1. f[0] = <<>> /\ \A n \in 1 .. Len(q) : f[n] = AppendIf(f[n - 1], q[n], T)
    BY <1>1, FilterUpToDef
  <2> HIDE DEF f
  <2> QED
    BY <1>1, <2>1
<1>3. Filter(q, T) = f[N]
  BY <1>1 DEF Filter
<1> HIDE DEF f, q
<1>4. 0 \in K
  BY <1>2
<1>5. ASSUME NEW n \in Nat, n \in K PROVE n + 1 \in K
  <2> SUFFICES ASSUME n + 1 <= N PROVE f[n + 1] = [i \in 1 .. low(n + 1) |-> i]
    OBVIOUS
  <2>1. f[n] = [i \in 1 .. low(n) |-> i]
    BY <1>5
  <2>2. f[n + 1] = AppendIf(f[n], n + 1, T)
    <3>1. n + 1 \in 1 .. N /\ (n + 1) - 1 = n
      OBVIOUS
    <3> QED
      BY <1>2, <3>1
  <2>3. CASE n + 1 <= c
    <3>1. f[n + 1] = Append([i \in 1 .. n |-> i], n + 1)
      BY <2>1, <2>2, <2>3 DEF AppendIf
    <3>2. Append([i \in 1 .. n |-> i], n + 1) = [i \in 1 .. n + 1 |-> i]
      OBVIOUS
    <3> QED
      BY <3>1, <3>2, <2>3
  <2>4. CASE ~(n + 1 <= c)
    <3>1. f[n + 1] = f[n] /\ low(n) = c /\ low(n + 1) = c
      BY <2>2, <2>4 DEF AppendIf
    <3> QED
      BY <2>1, <3>1
  <2> QED
    BY <2>3, <2>4
<1>6. N \in K
  <2> HIDE DEF K
  <2> QED
    BY <1>4, <1>5, NatSetInduction
<1> QED
  BY <1>3, <1>6 DEF q

\* Appending to a concatenation is appending to its last part.
LEMMA ConcatAppend ==
  ASSUME NEW R, NEW s \in Seq(R), NEW t \in Seq(R), NEW x \in R
  PROVE  s \o Append(t, x) = Append(s \o t, x)
<1> DEFINE u == Append(s \o t, x)
           v == s \o Append(t, x)
<1>1. u \in Seq(R) /\ v \in Seq(R)
  OBVIOUS
<1>2. Len(u) = Len(v) /\ \A i \in 1 .. Len(u) : u[i] = v[i]
  OBVIOUS
<1> HIDE DEF u, v
<1>3. u = v
  BY <1>1, <1>2, SeqEqual
<1> QED
  BY <1>3 DEF u, v

\* The first of the waiting goes in flight.
LEMMA EnterFlight ==
  ASSUME NEW R, NEW a \in Seq(R), NEW x \in R, NEW c \in Seq(R)
  PROVE  (a \o <<>>) \o (<<x>> \o c) = (a \o <<x>>) \o c
<1> DEFINE u == (a \o <<>>) \o (<<x>> \o c)
           v == (a \o <<x>>) \o c
<1>1. u \in Seq(R) /\ v \in Seq(R)
  OBVIOUS
<1>2. Len(u) = Len(v) /\ \A i \in 1 .. Len(u) : u[i] = v[i]
  OBVIOUS
<1> HIDE DEF u, v
<1>3. u = v
  BY <1>1, <1>2, SeqEqual
<1> QED
  BY <1>3 DEF u, v

\* The one in flight is delivered, and was the next to be.
LEMMA LeaveFlight ==
  ASSUME NEW R, NEW a \in Seq(R), NEW x \in R, NEW c \in Seq(R)
  PROVE  /\ (a \o <<x>>) \o c = (Append(a, x) \o <<>>) \o c
         /\ Len(a) < Len((a \o <<x>>) \o c)
         /\ ((a \o <<x>>) \o c)[Len(a) + 1] = x
<1> DEFINE u == (a \o <<x>>) \o c
           v == (Append(a, x) \o <<>>) \o c
<1>1. u \in Seq(R) /\ v \in Seq(R)
  OBVIOUS
<1>2. Len(u) = Len(v) /\ \A i \in 1 .. Len(u) : u[i] = v[i]
  OBVIOUS
<1>3. Len(a) < Len(u) /\ u[Len(a) + 1] = x
  OBVIOUS
<1> HIDE DEF u, v
<1>4. u = v
  BY <1>1, <1>2, SeqEqual
<1> QED
  BY <1>3, <1>4 DEF u, v

\* The first of the queue is delivered, and was the next to be.
LEMMA QueueOut ==
  ASSUME NEW R, NEW g \in Seq(R), NEW e \in Seq(R), e # <<>>, NEW t \in Seq(R)
  PROVE  /\ (g \o e) \o t = (Append(g, Head(e)) \o Tail(e)) \o t
         /\ Len(g) < Len((g \o e) \o t)
         /\ ((g \o e) \o t)[Len(g) + 1] = Head(e)
<1> DEFINE u == (g \o e) \o t
           v == (Append(g, Head(e)) \o Tail(e)) \o t
<1>1. u \in Seq(R) /\ v \in Seq(R) /\ Len(e) >= 1
  OBVIOUS
<1>2. Len(u) = Len(v)
  OBVIOUS
<1>3. \A i \in 1 .. Len(u) : u[i] = v[i]
  OBVIOUS
<1>4. Len(g) < Len(u)
  OBVIOUS
<1>5. u[Len(g) + 1] = Head(e)
  OBVIOUS
<1> HIDE DEF u, v
<1>6. u = v
  BY <1>1, <1>2, <1>3, SeqEqual
<1> QED
  BY <1>4, <1>5, <1>6 DEF u, v

\* The one at the end joins the queue.
LEMMA QueueIn ==
  ASSUME NEW R, NEW g \in Seq(R), NEW e \in Seq(R), NEW x \in R
  PROVE  (g \o e) \o <<x>> = (g \o Append(e, x)) \o <<>>
<1> DEFINE u == (g \o e) \o <<x>>
           v == (g \o Append(e, x)) \o <<>>
<1>1. u \in Seq(R) /\ v \in Seq(R)
  OBVIOUS
<1>2. Len(u) = Len(v) /\ \A i \in 1 .. Len(u) : u[i] = v[i]
  OBVIOUS
<1> HIDE DEF u, v
<1>3. u = v
  BY <1>1, <1>2, SeqEqual
<1> QED
  BY <1>3 DEF u, v

\* A sequence is the prefix of what Append makes of it.
LEMMA AppendPrefix ==
  ASSUME NEW R, NEW s \in Seq(R), NEW x \in R
  PROVE  /\ Len(Append(s, x)) = Len(s) + 1
         /\ SubSeq(Append(s, x), 1, Len(s)) = s
         /\ Append(s, x)[Len(s) + 1] = x
<1>1. Len(Append(s, x)) = Len(s) + 1 /\ Append(s, x)[Len(s) + 1] = x
  OBVIOUS
<1> DEFINE u == SubSeq(Append(s, x), 1, Len(s))
<1>2. u \in Seq(R) /\ Len(u) = Len(s) /\ \A i \in 1 .. Len(s) : u[i] = s[i]
  OBVIOUS
<1>3. u = s
  <2> HIDE DEF u
  <2> QED
    BY <1>2, SeqEqual
<1> QED
  BY <1>1, <1>3
-----------------------------------------------------------------------------
(* Flat and Sum *)

\* What the lines up to the n-th hold is what the recursive definition says.
LEMMA FlatUpToDef ==
  ASSUME NEW R, NEW lines \in Seq(Seq(R))
  PROVE  /\ FlatUpTo(lines) \in [0 .. Len(lines) -> Seq(R)]
         /\ FlatUpTo(lines)[0] = <<>>
         /\ \A n \in 1 .. Len(lines) : FlatUpTo(lines)[n] = FlatUpTo(lines)[n - 1] \o lines[n]
<1> DEFINE N == Len(lines)
           S == Seq(R)
           Join(y, n) == y \o lines[n]
           e == <<>>
           step == [q \in (1 .. N) \X S |-> Join(q[2], q[1])]
           Is(g) == g = [n \in 0 .. N |-> IF n = 0 THEN e ELSE Join(g[n - 1], n)]
           h == FlatUpTo(lines)
<1>1. N \in Nat /\ e \in S /\ \A n \in 1 .. N, y \in S : Join(y, n) \in S
  <2>1. \A n \in 1 .. N : lines[n] \in S
    OBVIOUS
  <2> QED
    BY <2>1
<1>2. h = CHOOSE g : Is(g)
  BY DEF FlatUpTo
<1> HIDE DEF N, S, h, e, Join
<1>3. step \in Steps(N, S)
  BY <1>1 DEF Steps
<1>4. \A n \in 1 .. N, y \in S : step[<<n, y>>] = Join(y, n)
  BY <1>1
<1> HIDE DEF step
<1>5. PICK f \in [0 .. N -> S] : Iterates(f, e, N, step)
  BY <1>1, <1>3, FiniteRecursion
<1>6. Is(f)
  <2>1. ASSUME NEW n \in 1 .. N PROVE f[n] = Join(f[n - 1], n)
    <3>1. n - 1 \in 0 .. N
      BY <1>1
    <3> QED
      BY <1>4, <1>5, <3>1 DEF Iterates
  <2>2. \A n \in 0 .. N : f[n] = IF n = 0 THEN e ELSE Join(f[n - 1], n)
    BY <1>1, <1>5, <2>1 DEF Iterates
  <2> DEFINE G == [n \in 0 .. N |-> IF n = 0 THEN e ELSE Join(f[n - 1], n)]
  <2>3. \A n \in 0 .. N : f[n] = G[n]
    BY <2>2
  <2>4. DOMAIN G = 0 .. N /\ G = [n \in DOMAIN G |-> G[n]]
    BY Zenon
  <2>5. f = G
    <3> HIDE DEF G
    <3> QED
      BY <2>3, <2>4
  <2> QED
    BY <2>5
<1>7. Is(h)
  <2> HIDE DEF Is
  <2> QED
    BY <1>2, <1>6
<1>8. /\ DOMAIN h = 0 .. N /\ h[0] = e
      /\ \A n \in 1 .. N : h[n] = Join(h[n - 1], n)
  <2>1. DOMAIN h = 0 .. N
    BY <1>7
  <2>2. \A n \in 0 .. N : h[n] = IF n = 0 THEN e ELSE Join(h[n - 1], n)
    BY <1>7, Zenon
  <2>3. h[0] = e
    BY <1>1, <2>2
  <2>4. ASSUME NEW n \in 1 .. N PROVE h[n] = Join(h[n - 1], n)
    <3>1. n \in 0 .. N /\ n # 0
      BY <1>1
    <3> QED
      BY <2>2, <3>1
  <2> QED
    BY <2>1, <2>3, <2>4
<1>9. h \in [0 .. N -> S]
  <2> DEFINE K == {n \in Nat : n <= N => h[n] \in S}
  <2>1. 0 \in K
    BY <1>1, <1>8
  <2>2. ASSUME NEW n \in Nat, n \in K PROVE n + 1 \in K
    <3> SUFFICES ASSUME n + 1 <= N PROVE h[n + 1] \in S
      OBVIOUS
    <3>1. n + 1 \in 1 .. N /\ (n + 1) - 1 = n
      BY <1>1
    <3>2. h[n + 1] = Join(h[n], n + 1)
      BY <1>8, <3>1
    <3>3. h[n] \in S
      <4>1. n <= N
        BY <1>1
      <4> QED
        BY <2>2, <4>1
    <3> HIDE DEF K
    <3> QED
      BY <1>1, <3>1, <3>2, <3>3
  <2>3. \A n \in 0 .. N : h[n] \in S
    <3> HIDE DEF K
    <3>1. Nat \subseteq K
      BY <2>1, <2>2, NatSetInduction
    <3> QED
      BY <3>1, <1>1 DEF K
  <2>4. h = [n \in 0 .. N |-> h[n]]
    BY <1>7, <1>8
  <2> QED
    BY <2>3, <2>4
<1> QED
  BY <1>8, <1>9 DEF N, S, h, e, Join

\* The first m lines hold the same packets, whatever follows them.
LEMMA FlatUpToPrefix ==
  ASSUME NEW R, NEW s \in Seq(Seq(R)), NEW t \in Seq(Seq(R)), NEW m \in Nat,
         m <= Len(s), m <= Len(t), \A n \in 1 .. m : s[n] = t[n]
  PROVE  FlatUpTo(s)[m] = FlatUpTo(t)[m]
<1> DEFINE f == FlatUpTo(s)
           g == FlatUpTo(t)
           K == {n \in Nat : n <= m => f[n] = g[n]}
<1>1. f[0] = <<>> /\ g[0] = <<>>
  BY FlatUpToDef
<1>2. \A n \in 1 .. m : f[n] = f[n - 1] \o s[n] /\ g[n] = g[n - 1] \o s[n]
  <2>1. \A n \in 1 .. Len(s) : f[n] = f[n - 1] \o s[n]
    BY FlatUpToDef
  <2>2. \A n \in 1 .. Len(t) : g[n] = g[n - 1] \o t[n]
    BY FlatUpToDef
  <2>3. Len(s) \in Nat /\ Len(t) \in Nat
    OBVIOUS
  <2>4. ASSUME NEW n \in 1 .. m PROVE n \in 1 .. Len(s) /\ n \in 1 .. Len(t) /\ t[n] = s[n]
    BY <2>3
  <2> HIDE DEF f, g
  <2> QED
    BY <2>1, <2>2, <2>4, Zenon
<1> HIDE DEF f, g
<1>3. 0 \in K
  BY <1>1
<1>4. ASSUME NEW n \in Nat, n \in K PROVE n + 1 \in K
  <2> SUFFICES ASSUME n + 1 <= m PROVE f[n + 1] = g[n + 1]
    OBVIOUS
  <2>1. n + 1 \in 1 .. m /\ (n + 1) - 1 = n /\ n <= m
    OBVIOUS
  <2> QED
    BY <1>2, <1>4, <2>1
<1>5. m \in K
  <2> HIDE DEF K
  <2> QED
    BY <1>3, <1>4, NatSetInduction
<1> QED
  BY <1>5 DEF f, g

\* No lines, no packets.
LEMMA FlatEmpty ==
  Flat(<<>>) = <<>>
<1>1. <<>> \in Seq(Seq({})) /\ Len(<<>>) = 0
  OBVIOUS
<1>2. FlatUpTo(<<>>)[0] = <<>>
  BY <1>1, FlatUpToDef
<1> QED
  BY <1>1, <1>2 DEF Flat

\* The packets of lines are a sequence.
LEMMA FlatType ==
  ASSUME NEW R, NEW s \in Seq(Seq(R))
  PROVE  Flat(s) \in Seq(R)
<1> DEFINE f == FlatUpTo(s)
<1>1. Len(s) \in 0 .. Len(s)
  OBVIOUS
<1>2. f \in [0 .. Len(s) -> Seq(R)]
  BY FlatUpToDef
<1>3. f[Len(s)] \in Seq(R)
  <2> HIDE DEF f
  <2> QED
    BY <1>1, <1>2, Zenon
<1> QED
  BY <1>3 DEF Flat

\* One more line adds its packets.
LEMMA FlatAppend ==
  ASSUME NEW R, NEW s \in Seq(Seq(R)), NEW x \in Seq(R)
  PROVE  Flat(Append(s, x)) = Flat(s) \o x
<1> DEFINE t == Append(s, x)
           N == Len(s)
           Q == Seq(R)
<1>1. t \in Seq(Q) /\ N \in Nat /\ Len(t) = N + 1 /\ t[N + 1] = x
      /\ \A n \in 1 .. N : t[n] = s[n]
  <2> HIDE DEF Q
  <2>1. s \in Seq(Q) /\ x \in Q
    BY DEF Q
  <2> QED
    BY <2>1
<1> HIDE DEF t
<1>2. FlatUpTo(t)[N + 1] = FlatUpTo(t)[N] \o x
  <2>1. N + 1 \in 1 .. Len(t) /\ (N + 1) - 1 = N
    BY <1>1
  <2>2. \A n \in 1 .. Len(t) : FlatUpTo(t)[n] = FlatUpTo(t)[n - 1] \o t[n]
    BY <1>1, FlatUpToDef
  <2> HIDE DEF N
  <2> QED
    BY <1>1, <2>1, <2>2
<1>3. FlatUpTo(t)[N] = FlatUpTo(s)[N]
  <2>1. N <= Len(s) /\ N <= Len(t)
    BY <1>1
  <2> QED
    BY <1>1, <2>1, FlatUpToPrefix
<1> QED
  BY <1>1, <1>2, <1>3 DEF Flat, t

\* A line of one packet appends it.
LEMMA FlatAppendOne ==
  ASSUME NEW R, NEW s \in Seq(Seq(R)), NEW x \in R
  PROVE  Flat(Append(s, <<x>>)) = Append(Flat(s), x)
<1>1. <<x>> \in Seq(R) /\ Flat(s) \in Seq(R)
  BY FlatType
<1>2. Flat(Append(s, <<x>>)) = Flat(s) \o <<x>>
  BY <1>1, FlatAppend
<1> QED
  BY <1>1, <1>2

\* The sums up to the n-th are what the recursive definition says.
LEMMA SumUpToDef ==
  ASSUME NEW counts \in Seq(Nat)
  PROVE  /\ SumUpTo(counts) \in [0 .. Len(counts) -> Nat]
         /\ SumUpTo(counts)[0] = 0
         /\ \A n \in 1 .. Len(counts) : SumUpTo(counts)[n] = SumUpTo(counts)[n - 1] + counts[n]
<1> DEFINE N == Len(counts)
           S == Nat
           Join(y, n) == y + counts[n]
           e == 0
           step == [q \in (1 .. N) \X S |-> Join(q[2], q[1])]
           Is(g) == g = [n \in 0 .. N |-> IF n = 0 THEN e ELSE Join(g[n - 1], n)]
           h == SumUpTo(counts)
<1>1. N \in Nat /\ e \in S /\ \A n \in 1 .. N, y \in S : Join(y, n) \in S
  <2>1. \A n \in 1 .. N : counts[n] \in S
    OBVIOUS
  <2> QED
    BY <2>1
<1>2. h = CHOOSE g : Is(g)
  BY DEF SumUpTo
<1> HIDE DEF N, S, h, e, Join
<1>3. step \in Steps(N, S)
  BY <1>1 DEF Steps
<1>4. \A n \in 1 .. N, y \in S : step[<<n, y>>] = Join(y, n)
  BY <1>1
<1> HIDE DEF step
<1>5. PICK f \in [0 .. N -> S] : Iterates(f, e, N, step)
  BY <1>1, <1>3, FiniteRecursion
<1>6. Is(f)
  <2>1. ASSUME NEW n \in 1 .. N PROVE f[n] = Join(f[n - 1], n)
    <3>1. n - 1 \in 0 .. N
      BY <1>1
    <3> QED
      BY <1>4, <1>5, <3>1 DEF Iterates
  <2>2. \A n \in 0 .. N : f[n] = IF n = 0 THEN e ELSE Join(f[n - 1], n)
    BY <1>1, <1>5, <2>1 DEF Iterates
  <2> DEFINE G == [n \in 0 .. N |-> IF n = 0 THEN e ELSE Join(f[n - 1], n)]
  <2>3. \A n \in 0 .. N : f[n] = G[n]
    BY <2>2
  <2>4. DOMAIN G = 0 .. N /\ G = [n \in DOMAIN G |-> G[n]]
    BY Zenon
  <2>5. f = G
    <3> HIDE DEF G
    <3> QED
      BY <2>3, <2>4
  <2> QED
    BY <2>5
<1>7. Is(h)
  <2> HIDE DEF Is
  <2> QED
    BY <1>2, <1>6
<1>8. /\ DOMAIN h = 0 .. N /\ h[0] = e
      /\ \A n \in 1 .. N : h[n] = Join(h[n - 1], n)
  <2>1. DOMAIN h = 0 .. N
    BY <1>7
  <2>2. \A n \in 0 .. N : h[n] = IF n = 0 THEN e ELSE Join(h[n - 1], n)
    BY <1>7, Zenon
  <2>3. h[0] = e
    BY <1>1, <2>2
  <2>4. ASSUME NEW n \in 1 .. N PROVE h[n] = Join(h[n - 1], n)
    <3>1. n \in 0 .. N /\ n # 0
      BY <1>1
    <3> QED
      BY <2>2, <3>1
  <2> QED
    BY <2>1, <2>3, <2>4
<1>9. h \in [0 .. N -> S]
  <2> DEFINE K == {n \in Nat : n <= N => h[n] \in S}
  <2>1. 0 \in K
    BY <1>1, <1>8
  <2>2. ASSUME NEW n \in Nat, n \in K PROVE n + 1 \in K
    <3> SUFFICES ASSUME n + 1 <= N PROVE h[n + 1] \in S
      OBVIOUS
    <3>1. n + 1 \in 1 .. N /\ (n + 1) - 1 = n
      BY <1>1
    <3>2. h[n + 1] = Join(h[n], n + 1)
      BY <1>8, <3>1
    <3>3. h[n] \in S
      <4>1. n <= N
        BY <1>1
      <4> QED
        BY <2>2, <4>1
    <3> HIDE DEF K
    <3> QED
      BY <1>1, <3>1, <3>2, <3>3
  <2>3. \A n \in 0 .. N : h[n] \in S
    <3> HIDE DEF K
    <3>1. Nat \subseteq K
      BY <2>1, <2>2, NatSetInduction
    <3> QED
      BY <3>1, <1>1 DEF K
  <2>4. h = [n \in 0 .. N |-> h[n]]
    BY <1>7, <1>8
  <2> QED
    BY <2>3, <2>4
<1> QED
  BY <1>8, <1>9 DEF N, S, h, e, Join

\* A sum of natural numbers is one, and 0 only if all of them are.
LEMMA SumZero ==
  ASSUME NEW counts \in Seq(Nat)
  PROVE  /\ Sum(counts) \in Nat
         /\ Sum(counts) = 0 => \A i \in 1 .. Len(counts) : counts[i] = 0
<1> DEFINE f == SumUpTo(counts)
           N == Len(counts)
           K == {n \in Nat : n <= N /\ f[n] = 0 => \A i \in 1 .. n : counts[i] = 0}
<1>1. N \in Nat /\ Sum(counts) = f[N] /\ \A i \in 1 .. N : counts[i] \in Nat
  BY DEF Sum
<1>2. f \in [0 .. N -> Nat] /\ \A n \in 1 .. N : f[n] = f[n - 1] + counts[n]
  BY SumUpToDef
<1> HIDE DEF f, N
<1>3. 0 \in K
  OBVIOUS
<1>4. ASSUME NEW n \in Nat, n \in K PROVE n + 1 \in K
  <2> SUFFICES ASSUME n + 1 <= N, f[n + 1] = 0 PROVE \A i \in 1 .. n + 1 : counts[i] = 0
    OBVIOUS
  <2>1. n + 1 \in 1 .. N /\ n \in 0 .. N /\ (n + 1) - 1 = n /\ n <= N
    BY <1>1
  <2>2. f[n + 1] = f[n] + counts[n + 1] /\ f[n] \in Nat /\ counts[n + 1] \in Nat
    BY <1>1, <1>2, <2>1
  <2>3. f[n] = 0 /\ counts[n + 1] = 0
    BY <2>2
  <2>4. \A i \in 1 .. n : counts[i] = 0
    BY <1>4, <2>1, <2>3
  <2> QED
    BY <2>3, <2>4
<1>5. N \in K
  <2> HIDE DEF K
  <2> QED
    BY <1>1, <1>3, <1>4, NatSetInduction
<1> QED
  BY <1>1, <1>2, <1>5 DEF N

\* What a filter lets through are the elements of the set, and no others.
LEMMA FilterElements ==
  ASSUME NEW R, NEW s \in Seq(R), NEW T
  PROVE  /\ \A j \in 1 .. Len(Filter(s, T)) :
              \E i \in 1 .. Len(s) : s[i] \in T /\ Filter(s, T)[j] = s[i]
         /\ \A i \in 1 .. Len(s) : s[i] \in T => \E j \in 1 .. Len(Filter(s, T)) : Filter(s, T)[j] = s[i]
<1> DEFINE f == FilterUpTo(s, T)
           N == Len(s)
           From(n) == \A j \in 1 .. Len(f[n]) : \E i \in 1 .. n : s[i] \in T /\ f[n][j] = s[i]
           Got(n) == \A i \in 1 .. n : s[i] \in T => \E j \in 1 .. Len(f[n]) : f[n][j] = s[i]
           K == {n \in Nat : n <= N => From(n) /\ Got(n)}
<1>1. N \in Nat /\ Filter(s, T) = f[N] /\ \A i \in 1 .. N : s[i] \in R
  BY DEF Filter
<1>2. /\ f \in [0 .. N -> Seq(R)] /\ f[0] = <<>>
      /\ \A n \in 1 .. N : f[n] = AppendIf(f[n - 1], s[n], T)
  BY FilterUpToDef
<1> HIDE DEF f, N
<1>3. 0 \in K
  BY <1>2
<1>4. ASSUME NEW n \in Nat, n \in K PROVE n + 1 \in K
  <2> SUFFICES ASSUME n + 1 <= N PROVE From(n + 1) /\ Got(n + 1)
    OBVIOUS
  <2> DEFINE g == f[n]
             h == f[n + 1]
             x == s[n + 1]
  <2>1. n + 1 \in 1 .. N /\ n \in 0 .. N /\ (n + 1) - 1 = n /\ n <= N
    BY <1>1
  <2>2. h = AppendIf(g, x, T) /\ g \in Seq(R) /\ x \in R
    BY <1>1, <1>2, <2>1
  <2>3. From(n) /\ Got(n)
    BY <1>4, <2>1
  <2> HIDE DEF K
  <2>4. CASE x \notin T
    <3>1. h = g
      BY <2>2, <2>4 DEF AppendIf
    <3>2. From(n + 1)
      BY <2>3, <3>1
    <3>3. Got(n + 1)
      BY <2>3, <2>4, <3>1
    <3> QED
      BY <3>2, <3>3
  <2>5. CASE x \in T
    <3>1. h = Append(g, x)
      BY <2>2, <2>5 DEF AppendIf
    <3> HIDE DEF g, h
    <3>2. Len(h) = Len(g) + 1 /\ h[Len(g) + 1] = x /\ Len(g) \in Nat
          /\ \A j \in 1 .. Len(g) : h[j] = g[j]
      BY <2>2, <3>1
    <3>3. ASSUME NEW j \in 1 .. Len(h) PROVE \E i \in 1 .. n + 1 : s[i] \in T /\ h[j] = s[i]
      <4>1. CASE j \in 1 .. Len(g)
        BY <2>3, <3>2, <4>1 DEF g
      <4>2. CASE j = Len(g) + 1
        BY <2>5, <3>2, <4>2
      <4> QED
        BY <3>2, <4>1, <4>2
    <3>4. ASSUME NEW i \in 1 .. n + 1, s[i] \in T PROVE \E j \in 1 .. Len(h) : h[j] = s[i]
      <4>1. CASE i \in 1 .. n
        <5>1. PICK j \in 1 .. Len(g) : g[j] = s[i]
          BY <2>3, <3>4, <4>1 DEF g
        <5>2. j \in 1 .. Len(h) /\ h[j] = s[i]
          BY <3>2, <5>1
        <5> QED
          BY <5>2
      <4>2. CASE i = n + 1
        <5>1. Len(g) + 1 \in 1 .. Len(h)
          BY <3>2
        <5> QED
          BY <3>2, <4>2, <5>1
      <4> QED
        BY <4>1, <4>2
    <3> QED
      BY <3>3, <3>4 DEF h
  <2> QED
    BY <2>4, <2>5
<1>5. N \in K
  <2> HIDE DEF K
  <2> QED
    BY <1>1, <1>3, <1>4, NatSetInduction
<1>6. From(N) /\ Got(N)
  BY <1>1, <1>5
<1> QED
  BY <1>1, <1>6 DEF N

\* A filter that every element passes changes nothing.
LEMMA FilterAll ==
  ASSUME NEW R, NEW s \in Seq(R), NEW T, \A i \in 1 .. Len(s) : s[i] \in T
  PROVE  Filter(s, T) = s
<1> DEFINE f == FilterUpTo(s, T)
           N == Len(s)
           K == {n \in Nat : n <= N => Len(f[n]) = n /\ \A i \in 1 .. n : f[n][i] = s[i]}
<1>1. N \in Nat /\ Filter(s, T) = f[N] /\ \A i \in 1 .. N : s[i] \in R /\ s[i] \in T
  BY DEF Filter
<1>2. /\ f \in [0 .. N -> Seq(R)] /\ f[0] = <<>>
      /\ \A n \in 1 .. N : f[n] = AppendIf(f[n - 1], s[n], T)
  BY FilterUpToDef
<1> HIDE DEF f, N
<1>3. 0 \in K
  BY <1>2
<1>4. ASSUME NEW n \in Nat, n \in K PROVE n + 1 \in K
  <2> SUFFICES ASSUME n + 1 <= N
               PROVE  Len(f[n + 1]) = n + 1 /\ \A i \in 1 .. n + 1 : f[n + 1][i] = s[i]
    OBVIOUS
  <2> DEFINE g == f[n]
             x == s[n + 1]
  <2>1. n + 1 \in 1 .. N /\ n \in 0 .. N /\ (n + 1) - 1 = n /\ n <= N
    BY <1>1
  <2>2. f[n + 1] = Append(g, x) /\ g \in Seq(R) /\ x \in R
    BY <1>1, <1>2, <2>1 DEF AppendIf
  <2>3. Len(g) = n /\ \A i \in 1 .. n : g[i] = s[i]
    BY <1>4, <2>1
  <2> HIDE DEF g, K
  <2> QED
    BY <2>2, <2>3
<1>5. N \in K
  <2> HIDE DEF K
  <2> QED
    BY <1>1, <1>3, <1>4, NatSetInduction
<1>6. f[N] \in Seq(R) /\ Len(f[N]) = N /\ \A i \in 1 .. N : f[N][i] = s[i]
  BY <1>1, <1>2, <1>5
<1> QED
  BY <1>1, <1>6, SeqEqual DEF N

\* What is in the lines is in their concatenation, and nothing else.
LEMMA FlatElements ==
  ASSUME NEW R, NEW s \in Seq(Seq(R))
  PROVE  /\ \A j \in 1 .. Len(Flat(s)) :
              \E i \in 1 .. Len(s) : \E m \in 1 .. Len(s[i]) : Flat(s)[j] = s[i][m]
         /\ \A i \in 1 .. Len(s) : \A m \in 1 .. Len(s[i]) :
              \E j \in 1 .. Len(Flat(s)) : Flat(s)[j] = s[i][m]
<1> DEFINE f == FlatUpTo(s)
           N == Len(s)
           From(n) == \A j \in 1 .. Len(f[n]) : \E i \in 1 .. n : \E m \in 1 .. Len(s[i]) : f[n][j] = s[i][m]
           Got(n) == \A i \in 1 .. n : \A m \in 1 .. Len(s[i]) : \E j \in 1 .. Len(f[n]) : f[n][j] = s[i][m]
           K == {n \in Nat : n <= N => From(n) /\ Got(n)}
<1>1. N \in Nat /\ Flat(s) = f[N] /\ \A i \in 1 .. N : s[i] \in Seq(R)
  BY DEF Flat
<1>2. /\ f \in [0 .. N -> Seq(R)] /\ f[0] = <<>>
      /\ \A n \in 1 .. N : f[n] = f[n - 1] \o s[n]
  BY FlatUpToDef
<1> HIDE DEF f, N
<1>3. 0 \in K
  BY <1>2
<1>4. ASSUME NEW n \in Nat, n \in K PROVE n + 1 \in K
  <2> SUFFICES ASSUME n + 1 <= N PROVE From(n + 1) /\ Got(n + 1)
    OBVIOUS
  <2> DEFINE g == f[n]
             h == f[n + 1]
             x == s[n + 1]
  <2>1. n + 1 \in 1 .. N /\ n \in 0 .. N /\ (n + 1) - 1 = n /\ n <= N
    BY <1>1
  <2>2. h = g \o x /\ g \in Seq(R) /\ x \in Seq(R)
    BY <1>1, <1>2, <2>1
  <2>3. From(n) /\ Got(n)
    BY <1>4, <2>1
  <2> HIDE DEF K, g, h, x
  <2>4. /\ Len(h) = Len(g) + Len(x) /\ Len(g) \in Nat /\ Len(x) \in Nat
        /\ \A j \in 1 .. Len(g) : h[j] = g[j]
        /\ \A m \in 1 .. Len(x) : h[Len(g) + m] = x[m]
    BY <2>2
  <2>5. ASSUME NEW j \in 1 .. Len(h)
        PROVE  \E i \in 1 .. n + 1 : \E m \in 1 .. Len(s[i]) : h[j] = s[i][m]
    <3>1. CASE j \in 1 .. Len(g)
      <4>1. PICK i \in 1 .. n : \E m \in 1 .. Len(s[i]) : g[j] = s[i][m]
        BY <2>3, <3>1 DEF g
      <4>2. i \in 1 .. n + 1
        OBVIOUS
      <4> QED
        BY <2>4, <3>1, <4>1, <4>2
    <3>2. CASE j > Len(g)
      <4>1. j - Len(g) \in 1 .. Len(x) /\ h[j] = x[j - Len(g)]
        <5>1. j - Len(g) \in 1 .. Len(x) /\ Len(g) + (j - Len(g)) = j
          BY <2>4, <3>2
        <5> QED
          BY <2>4, <5>1
      <4> QED
        BY <4>1 DEF x
    <3> QED
      BY <2>4, <3>1, <3>2
  <2>6. ASSUME NEW i \in 1 .. n + 1, NEW m \in 1 .. Len(s[i])
        PROVE  \E j \in 1 .. Len(h) : h[j] = s[i][m]
    <3>1. CASE i \in 1 .. n
      <4>1. PICK j \in 1 .. Len(g) : g[j] = s[i][m]
        BY <2>3, <3>1 DEF g
      <4>2. j \in 1 .. Len(h) /\ h[j] = s[i][m]
        BY <2>4, <4>1
      <4> QED
        BY <4>2
    <3>2. CASE i = n + 1
      <4>1. m \in 1 .. Len(x) /\ s[i][m] = x[m]
        BY <3>2 DEF x
      <4>2. Len(g) + m \in 1 .. Len(h) /\ h[Len(g) + m] = x[m]
        BY <2>4, <4>1
      <4> QED
        BY <4>1, <4>2
    <3> QED
      BY <3>1, <3>2
  <2> QED
    BY <2>5, <2>6 DEF h
<1>5. N \in K
  <2> HIDE DEF K
  <2> QED
    BY <1>1, <1>3, <1>4, NatSetInduction
<1>6. From(N) /\ Got(N)
  BY <1>1, <1>5
<1>7. ASSUME NEW j \in 1 .. Len(Flat(s))
      PROVE  \E i \in 1 .. Len(s) : \E m \in 1 .. Len(s[i]) : Flat(s)[j] = s[i][m]
  <2>1. j \in 1 .. Len(f[N])
    BY <1>1
  <2>2. PICK i \in 1 .. N : \E m \in 1 .. Len(s[i]) : f[N][j] = s[i][m]
    BY <1>6, <2>1
  <2> QED
    BY <1>1, <2>2 DEF N
<1>8. ASSUME NEW i \in 1 .. Len(s), NEW m \in 1 .. Len(s[i])
      PROVE  \E j \in 1 .. Len(Flat(s)) : Flat(s)[j] = s[i][m]
  <2>1. PICK j \in 1 .. Len(f[N]) : f[N][j] = s[i][m]
    BY <1>6 DEF N
  <2> QED
    BY <1>1, <2>1
<1> QED
  BY <1>7, <1>8

\* A sequence whose elements are those of one and then of another.
LEMMA IsConcat ==
  ASSUME NEW R, NEW u \in Seq(R), NEW a \in Seq(R), NEW b \in Seq(R), Len(u) = Len(a) + Len(b),
         \A i \in 1 .. Len(a) : u[i] = a[i], \A i \in 1 .. Len(b) : u[Len(a) + i] = b[i]
  PROVE  u = a \o b
<1>1. a \o b \in Seq(R) /\ Len(a \o b) = Len(a) + Len(b)
  OBVIOUS
<1>2. ASSUME NEW i \in 1 .. Len(u) PROVE u[i] = (a \o b)[i]
  <2>1. CASE i <= Len(a)
    <3>1. i \in 1 .. Len(a) /\ (a \o b)[i] = a[i]
      BY <2>1
    <3> QED
      BY <3>1
  <2>2. CASE ~(i <= Len(a))
    <3>1. i - Len(a) \in 1 .. Len(b) /\ Len(a) + (i - Len(a)) = i /\ (a \o b)[i] = b[i - Len(a)]
      BY <2>2
    <3> QED
      BY <3>1
  <2> QED
    BY <2>1, <2>2
<1> QED
  BY <1>1, <1>2

\* The sums up to the m-th only depend on the first m numbers.
LEMMA SumUpToPrefix ==
  ASSUME NEW s \in Seq(Nat), NEW t \in Seq(Nat), NEW m \in Nat,
         m <= Len(s), m <= Len(t), \A n \in 1 .. m : s[n] = t[n]
  PROVE  SumUpTo(s)[m] = SumUpTo(t)[m]
<1> DEFINE f == SumUpTo(s)
           g == SumUpTo(t)
           K == {n \in Nat : n <= m => f[n] = g[n]}
<1>1. Len(s) \in Nat /\ Len(t) \in Nat
  OBVIOUS
<1>2. f[0] = 0 /\ \A n \in 1 .. Len(s) : f[n] = f[n - 1] + s[n]
  BY SumUpToDef
<1>3. g[0] = 0 /\ \A n \in 1 .. Len(t) : g[n] = g[n - 1] + t[n]
  BY SumUpToDef
<1> HIDE DEF f, g
<1>4. 0 \in K
  BY <1>2, <1>3
<1>5. ASSUME NEW n \in Nat, n \in K PROVE n + 1 \in K
  <2> SUFFICES ASSUME n + 1 <= m PROVE f[n + 1] = g[n + 1]
    OBVIOUS
  <2>1. n + 1 \in 1 .. Len(s) /\ n + 1 \in 1 .. Len(t) /\ n + 1 \in 1 .. m /\ (n + 1) - 1 = n
    BY <1>1
  <2>2. f[n] = g[n]
    BY <1>5
  <2>3. f[n + 1] = f[n] + s[n + 1] /\ g[n + 1] = g[n] + t[n + 1] /\ s[n + 1] = t[n + 1]
    BY <1>2, <1>3, <2>1
  <2> QED
    BY <2>2, <2>3
<1>6. m \in K
  <2> HIDE DEF K
  <2> QED
    BY <1>4, <1>5, NatSetInduction
<1> QED
  BY <1>6 DEF f, g

\* A sum up to the k-th is the sum of a prefix; the rest adds its own sum.
LEMMA SumSplit ==
  ASSUME NEW s \in Seq(Nat), NEW k \in 0 .. Len(s)
  PROVE  /\ SumUpTo(s)[k] \in Nat
         /\ Sum(SubSeq(s, 1, k)) = SumUpTo(s)[k]
         /\ Sum(SubSeq(s, k + 1, Len(s))) \in Nat
         /\ Sum(s) = SumUpTo(s)[k] + Sum(SubSeq(s, k + 1, Len(s)))
<1> DEFINE N == Len(s)
           u == SubSeq(s, 1, k)
           t == SubSeq(s, k + 1, N)
           f == SumUpTo(s)
           g == SumUpTo(t)
           K == {m \in Nat : m <= N - k => f[k + m] = f[k] + g[m]}
<1>1. N \in Nat /\ k \in Nat /\ k <= N
  OBVIOUS
<1>2. u \in Seq(Nat) /\ Len(u) = k /\ \A n \in 1 .. k : u[n] = s[n]
  OBVIOUS
<1>3. t \in Seq(Nat) /\ Len(t) = N - k /\ \A n \in 1 .. N - k : t[n] = s[k + n]
  OBVIOUS
<1>4. f \in [0 .. N -> Nat] /\ \A n \in 1 .. N : f[n] = f[n - 1] + s[n]
  BY SumUpToDef
<1>5. g \in [0 .. N - k -> Nat] /\ g[0] = 0 /\ \A n \in 1 .. N - k : g[n] = g[n - 1] + t[n]
  BY <1>3, SumUpToDef
<1>6. Sum(u) = f[k]
  <2> HIDE DEF u
  <2>1. k <= Len(u) /\ k <= Len(s)
    BY <1>1, <1>2
  <2>2. SumUpTo(u)[k] = f[k]
    BY <1>1, <1>2, <2>1, SumUpToPrefix
  <2> QED
    BY <1>2, <2>2 DEF Sum
<1>7. Sum(t) = g[N - k] /\ Sum(s) = f[N]
  BY <1>3 DEF Sum
<1> HIDE DEF u, t, f, g, N
<1>8. 0 \in K
  BY <1>1, <1>4, <1>5
<1>9. ASSUME NEW m \in Nat, m \in K PROVE m + 1 \in K
  <2> SUFFICES ASSUME m + 1 <= N - k PROVE f[k + (m + 1)] = f[k] + g[m + 1]
    OBVIOUS
  <2>1. /\ m + 1 \in 1 .. N - k /\ (m + 1) - 1 = m /\ m \in 0 .. N - k /\ m <= N - k
        /\ k + (m + 1) \in 1 .. N /\ k + (m + 1) - 1 = k + m /\ k + m \in 0 .. N
    BY <1>1
  <2>2. f[k + m] = f[k] + g[m]
    BY <1>9, <2>1
  <2>3. f[k + (m + 1)] = f[k + m] + s[k + (m + 1)]
    BY <1>4, <2>1
  <2>4. g[m + 1] = g[m] + t[m + 1] /\ t[m + 1] = s[k + (m + 1)]
    BY <1>3, <1>5, <2>1
  <2>5. f[k] \in Nat /\ g[m] \in Nat
    BY <1>1, <1>4, <1>5, <2>1
  <2>6. s[k + (m + 1)] \in Nat
    BY <2>1 DEF N
  <2> QED
    BY <2>2, <2>3, <2>4, <2>5, <2>6
<1>10. N - k \in K
  <2>1. N - k \in Nat
    BY <1>1
  <2> HIDE DEF K
  <2> QED
    BY <1>8, <1>9, <2>1, NatSetInduction
<1>11. k + (N - k) = N /\ N - k \in Nat /\ N - k \in 0 .. N - k
  BY <1>1
<1>12. f[N] = f[k] + g[N - k]
  BY <1>10, <1>11
<1>13. f[k] \in Nat /\ g[N - k] \in Nat
  BY <1>1, <1>4, <1>5, <1>11
<1> QED
  BY <1>6, <1>7, <1>12, <1>13 DEF u, t, f, N

\* The sums up to the n-th do not decrease, and each number is counted.
LEMMA SumUpToGrows ==
  ASSUME NEW s \in Seq(Nat), NEW k \in 1 .. Len(s)
  PROVE  /\ SumUpTo(s)[k - 1] \in Nat /\ s[k] \in Nat
         /\ SumUpTo(s)[k] = SumUpTo(s)[k - 1] + s[k]
         /\ SumUpTo(s)[k - 1] + s[k] <= Sum(s)
<1>1. k \in 0 .. Len(s) /\ k - 1 \in 0 .. Len(s) /\ s[k] \in Nat
  OBVIOUS
<1>2. SumUpTo(s)[k] = SumUpTo(s)[k - 1] + s[k]
  BY SumUpToDef
<1> DEFINE rest == Sum(SubSeq(s, k + 1, Len(s)))
<1>3. Sum(s) = SumUpTo(s)[k] + rest /\ rest \in Nat /\ SumUpTo(s)[k] \in Nat
  BY <1>1, SumSplit
<1>4. SumUpTo(s)[k - 1] \in Nat
  BY <1>1, SumSplit
<1> HIDE DEF rest
<1> QED
  BY <1>1, <1>2, <1>3, <1>4

\* A number at the end is added; the sums before it stay.
LEMMA SumAppend ==
  ASSUME NEW s \in Seq(Nat), NEW x \in Nat
  PROVE  /\ Sum(Append(s, x)) = Sum(s) + x
         /\ \A k \in 0 .. Len(s) : SumUpTo(Append(s, x))[k] = SumUpTo(s)[k]
<1> DEFINE t == Append(s, x)
<1>1. t \in Seq(Nat) /\ Len(t) = Len(s) + 1 /\ t[Len(s) + 1] = x /\ Len(s) \in Nat
      /\ \A n \in 1 .. Len(s) : t[n] = s[n]
  OBVIOUS
<1> HIDE DEF t
<1>2. ASSUME NEW k \in 0 .. Len(s) PROVE SumUpTo(t)[k] = SumUpTo(s)[k]
  <2>1. k \in Nat /\ k <= Len(s) /\ k <= Len(t) /\ \A n \in 1 .. k : s[n] = t[n]
    BY <1>1
  <2> QED
    BY <1>1, <2>1, SumUpToPrefix
<1>3. Len(s) + 1 \in 1 .. Len(t) /\ (Len(s) + 1) - 1 = Len(s) /\ Len(s) \in 0 .. Len(s)
  BY <1>1
<1>4. SumUpTo(t)[Len(s) + 1] = SumUpTo(t)[Len(s)] + x
  BY <1>1, <1>3, SumUpToDef
<1> QED
  BY <1>1, <1>2, <1>3, <1>4 DEF Sum, t

\* The sums up to the n-th do not decrease.
LEMMA SumUpToOrder ==
  ASSUME NEW s \in Seq(Nat), NEW m \in 0 .. Len(s), NEW k \in 0 .. m
  PROVE  SumUpTo(s)[k] <= SumUpTo(s)[m]
<1> DEFINE t == SubSeq(s, 1, m)
<1>1. t \in Seq(Nat) /\ Len(t) = m /\ m \in Nat /\ k \in Nat /\ m <= Len(s) /\ k <= m
      /\ \A n \in 1 .. m : t[n] = s[n]
  OBVIOUS
<1> HIDE DEF t
<1>2. k <= Len(s) /\ k <= Len(t) /\ m <= Len(t) /\ \A n \in 1 .. k : s[n] = t[n]
  BY <1>1
<1>3. SumUpTo(s)[m] = SumUpTo(t)[m]
  BY <1>1, <1>2, SumUpToPrefix
<1>4. SumUpTo(s)[k] = SumUpTo(t)[k]
  BY <1>1, <1>2, SumUpToPrefix
<1> DEFINE rest == Sum(SubSeq(t, k + 1, Len(t)))
<1>5. Sum(t) = SumUpTo(t)[k] + rest /\ rest \in Nat /\ SumUpTo(t)[k] \in Nat
  BY <1>1, <1>2, SumSplit
<1>6. Sum(t) = SumUpTo(t)[m]
  BY <1>1 DEF Sum
<1> HIDE DEF rest
<1> QED
  BY <1>3, <1>4, <1>5, <1>6
=============================================================================
