------------------------------ MODULE BootIniProofs ------------------------------
EXTENDS BootIni, SequenceTheorems, FiniteSetTheorems, FunctionTheorems, TLAPS

-----------------------------------------------------------------------------
(* Numbers, and functions that are defined by recursion on them             *)

\* A set of numbers that is not empty has a least one.
LEMMA Least ==
    ASSUME NEW S \in SUBSET Nat, S # {}
    PROVE  \E x \in S : \A y \in S : x <= y
<1>1. PICK x \in S : \A y \in S : ~(<<y, x>> \in OpToRel(<, Nat))
    BY NatLessThanWellFounded, WFMin
<1>2. \A y \in S : ~(y < x)
    BY <1>1 DEF OpToRel
<1>3. \A y \in S : x <= y
    BY <1>2
<1> QED BY <1>3

\* Induction, with a set in place of a predicate.
LEMMA Counting ==
    ASSUME NEW lo \in Nat, NEW P, lo \in P, \A n \in Nat : lo <= n /\ n \in P => n + 1 \in P
    PROVE  \A n \in Nat : lo <= n => n \in P
<1> DEFINE S == {n \in Nat : lo <= n /\ n \notin P}
<1>1. CASE S = {}
    BY <1>1
<1>2. CASE S # {}
  <2>1. PICK x \in S : \A y \in S : x <= y
    BY <1>2, Least
  <2>2. x \in Nat /\ lo < x
    OBVIOUS
  <2>3. x - 1 \in Nat /\ lo <= x - 1 /\ x - 1 \notin S
    BY <2>1, <2>2
  <2>4. x - 1 \in P /\ (x - 1) + 1 = x
    BY <2>3
  <2> QED
    BY <2>3, <2>4
<1> QED
    BY <1>1, <1>2

\* op takes what has been computed and a number.
StaysIn(op, V, lo, hi) == \A i \in lo + 1 .. hi : \A v \in V : op[<<v, i>>] \in V
\* f starts with b and goes on with op.
Recurs(f, op, b, V, lo, hi) ==
    /\ f \in [lo .. hi -> V] /\ f[lo] = b
    /\ \A i \in lo + 1 .. hi : f[i] = op[<<f[i - 1], i>>]

\* A function that takes each value from the one before it exists.
LEMMA Recursion ==
    ASSUME NEW lo \in Nat, NEW hi \in Nat, lo <= hi, NEW V, NEW b \in V, NEW op, StaysIn(op, V, lo, hi)
    PROVE  \E f : Recurs(f, op, b, V, lo, hi)
<1> DEFINE P == {m \in Nat : m <= hi => \E f : Recurs(f, op, b, V, lo, m)}
<1>1. lo \in P
  <2>1. [i \in lo .. lo |-> b] \in [lo .. lo -> V] /\ [i \in lo .. lo |-> b][lo] = b
    OBVIOUS
  <2>2. Recurs([i \in lo .. lo |-> b], op, b, V, lo, lo)
    BY <2>1 DEF Recurs
  <2> QED
    BY <2>2
<1>2. ASSUME NEW n \in Nat, lo <= n, n \in P
      PROVE  n + 1 \in P
  <2> SUFFICES ASSUME n + 1 <= hi
               PROVE  \E f : Recurs(f, op, b, V, lo, n + 1)
    OBVIOUS
  <2>1. PICK f : Recurs(f, op, b, V, lo, n)
    BY <1>2
  <2> DEFINE g == [i \in lo .. n + 1 |-> IF i = n + 1 THEN op[<<f[n], n + 1>>] ELSE f[i]]
  <2>2. f[n] \in V
    BY <1>2, <2>1 DEF Recurs
  <2>3. n + 1 \in lo + 1 .. hi
    BY <1>2
  <2>4. op[<<f[n], n + 1>>] \in V
    BY <2>2, <2>3 DEF StaysIn
  <2>5. g \in [lo .. n + 1 -> V]
    BY <2>1, <2>4 DEF Recurs
  <2>6. g[lo] = b
    BY <1>2, <2>1 DEF Recurs
  <2>7. ASSUME NEW i \in lo + 1 .. n + 1
        PROVE  g[i] = op[<<g[i - 1], i>>]
    <3>1. i - 1 \in lo .. n /\ i - 1 \in lo .. n + 1 /\ i \in lo .. n + 1 /\ i - 1 # n + 1
      BY <1>2
    <3>2. g[i - 1] = f[i - 1]
      BY <3>1
    <3>3. CASE i = n + 1
      BY <3>1, <3>2, <3>3
    <3>4. CASE i # n + 1
      <4>1. i \in lo + 1 .. n
        BY <3>1, <3>4
      <4> QED
        BY <2>1, <3>1, <3>2, <4>1 DEF Recurs
    <3> QED
      BY <3>3, <3>4
  <2> HIDE DEF g
  <2> QED
    BY <2>5, <2>6, <2>7 DEF Recurs
<1> HIDE DEF P
<1>3. hi \in P
    BY <1>1, <1>2, Counting
<1> QED
    BY <1>3 DEF P

\* Two functions that take the same steps are the same.
Agree(f, g, lo, hi) == f[lo] = g[lo] /\ \A i \in lo + 1 .. hi : f[i - 1] = g[i - 1] => f[i] = g[i]

\* Two functions that begin alike and go on alike are alike.
LEMMA SameSteps ==
    ASSUME NEW lo \in Nat, NEW hi \in Nat, NEW f, NEW g, Agree(f, g, lo, hi)
    PROVE  \A i \in lo .. hi : f[i] = g[i]
<1> DEFINE P == {i \in Nat : i <= hi => f[i] = g[i]}
<1>1. lo \in P
    BY DEF Agree
<1>2. ASSUME NEW n \in Nat, lo <= n, n \in P
      PROVE  n + 1 \in P
  <2> SUFFICES ASSUME n + 1 <= hi
               PROVE  f[n + 1] = g[n + 1]
    OBVIOUS
  <2>1. n + 1 \in lo + 1 .. hi /\ (n + 1) - 1 = n /\ f[n] = g[n]
    BY <1>2
  <2> QED
    BY <2>1 DEF Agree
<1>3. \A n \in Nat : lo <= n => n \in P
  <2> HIDE DEF P
  <2> QED
    BY <1>1, <1>2, Counting
<1> QED
    BY <1>3

\* What holds of the empty sequence and is kept by one more element.
LEMMA Growing ==
    ASSUME NEW S, NEW P, <<>> \in P,
           \A t \in Seq(S) : \A x \in S : t \in P => Append(t, x) \in P
    PROVE  \A t \in Seq(S) : t \in P
<1> DEFINE Q == {n \in Nat : \A t \in Seq(S) : Len(t) = n => t \in P}
<1>1. 0 \in Q
  <2>1. ASSUME NEW t \in Seq(S), Len(t) = 0
        PROVE  t = <<>>
    BY <2>1, EmptySeq
  <2> QED
    BY <2>1
<1>2. ASSUME NEW n \in Nat, 0 <= n, n \in Q
      PROVE  n + 1 \in Q
  <2> SUFFICES ASSUME NEW t \in Seq(S), Len(t) = n + 1
               PROVE  t \in P
    OBVIOUS
  <2>1. t \in [1 .. n + 1 -> S]
    BY LenProperties
  <2> DEFINE u == [i \in 1 .. n |-> t[i]]
  <2>2. u \in Seq(S) /\ Len(u) = n /\ t[n + 1] \in S
    BY <2>1
  <2>3. Append(u, t[n + 1]) = t
    <3>1. Append(u, t[n + 1]) \in Seq(S) /\ Len(Append(u, t[n + 1])) = n + 1
      BY <2>2
    <3>2. \A i \in 1 .. n + 1 : Append(u, t[n + 1])[i] = t[i]
      BY <2>2
    <3> QED
      BY <3>1, <3>2, SeqEqual
  <2>4. u \in P
    BY <1>2, <2>2
  <2> HIDE DEF u
  <2>5. Append(u, t[n + 1]) \in P
    BY <2>2, <2>4
  <2> QED
    BY <2>3, <2>5
<1> HIDE DEF Q
<1>3. \A n \in Nat : 0 <= n => n \in Q
    BY <1>1, <1>2, Counting
<1> QED
    BY <1>3, LenProperties DEF Q

-----------------------------------------------------------------------------
(* Lines that are left out                                                  *)

\* f has what is left of the first lines.
Leaving(f, t, kinds) ==
    /\ f \in [0 .. Len(t) -> Seq(Line)] /\ f[0] = <<>>
    /\ \A i \in 1 .. Len(t) : f[i] = IF t[i] \in kinds THEN f[i - 1] ELSE Append(f[i - 1], t[i])

\* Without is what such a function has at the end.
LEMMA WithoutBy ==
    ASSUME NEW t \in Seq(Line), NEW kinds
    PROVE  \E f : Leaving(f, t, kinds) /\ Without(t, kinds) = f[Len(t)]
<1> DEFINE n == Len(t)
           V == Seq(Line)
           op == [x \in V \X (1 .. n) |-> IF t[x[2]] \in kinds THEN x[1] ELSE Append(x[1], t[x[2]])]
           upto[i \in 0 .. n] ==
               IF i = 0 THEN <<>>
               ELSE IF t[i] \in kinds THEN upto[i - 1] ELSE Append(upto[i - 1], t[i])
<1>1. n \in Nat /\ \A i \in 1 .. n : t[i] \in Line
    BY LenProperties, ElementOfSeq
<1>2. Without(t, kinds) = upto[n]
    BY DEF Without
<1>3. ASSUME NEW i \in 0 + 1 .. n, NEW v \in V
      PROVE  /\ op[<<v, i>>] = IF t[i] \in kinds THEN v ELSE Append(v, t[i])
             /\ op[<<v, i>>] \in V
  <2>1. i \in 1 .. n /\ t[i] \in Line
    BY <1>1
  <2>2. op[<<v, i>>] = IF t[i] \in kinds THEN v ELSE Append(v, t[i])
    BY <2>1
  <2>3. Append(v, t[i]) \in V
    BY <2>1, AppendProperties
  <2> HIDE DEF V, op
  <2> QED
    BY <2>2, <2>3
<1>4. <<>> \in V
    BY EmptySeq
<1> HIDE DEF n, op, V
<1>5. StaysIn(op, V, 0, n)
    BY <1>3 DEF StaysIn
<1>6. PICK f : Recurs(f, op, <<>>, V, 0, n)
  <2>1. 0 \in Nat /\ 0 <= n
    BY <1>1
  <2> QED
    BY <1>1, <1>4, <1>5, <2>1, Recursion
<1>7. \A i \in 1 .. n : f[i] = IF t[i] \in kinds THEN f[i - 1] ELSE Append(f[i - 1], t[i])
  <2> SUFFICES ASSUME NEW i \in 1 .. n
               PROVE  f[i] = IF t[i] \in kinds THEN f[i - 1] ELSE Append(f[i - 1], t[i])
    OBVIOUS
  <2>1. i \in 0 + 1 .. n /\ i - 1 \in 0 .. n
    BY <1>1
  <2>2. f[i - 1] \in V /\ f[i] = op[<<f[i - 1], i>>]
    BY <1>6, <2>1 DEF Recurs
  <2> QED
    BY <1>3, <2>1, <2>2
<1>8. f = [i \in 0 .. n |-> IF i = 0 THEN <<>>
                             ELSE IF t[i] \in kinds THEN f[i - 1] ELSE Append(f[i - 1], t[i])]
  <2>1. f \in [0 .. n -> V] /\ f[0] = <<>>
    BY <1>6 DEF Recurs
  <2>2. \A i \in 0 .. n : i # 0 => i \in 1 .. n
    BY <1>1
  <2> QED
    BY <1>7, <2>1, <2>2
<1>9. upto = [i \in 0 .. n |-> IF i = 0 THEN <<>>
                                ELSE IF t[i] \in kinds THEN upto[i - 1] ELSE Append(upto[i - 1], t[i])]
    BY <1>8, Zenon
<1> HIDE DEF upto
<1>10. \A i \in 0 .. n : upto[i] = f[i]
  <2>1. upto[0] = f[0]
    BY <1>1, <1>6, <1>9 DEF Recurs
  <2>2. ASSUME NEW i \in 0 + 1 .. n, upto[i - 1] = f[i - 1]
        PROVE  upto[i] = f[i]
    <3>1. i \in 1 .. n /\ i \in 0 .. n /\ i # 0
      BY <1>1
    <3>2. upto[i] = IF t[i] \in kinds THEN upto[i - 1] ELSE Append(upto[i - 1], t[i])
      BY <1>9, <3>1
    <3> QED
      BY <1>7, <2>2, <3>1, <3>2
  <2>3. Agree(upto, f, 0, n)
    BY <2>1, <2>2 DEF Agree
  <2> QED
    BY <1>1, <2>3, SameSteps
<1>11. Without(t, kinds) = f[n]
    BY <1>1, <1>2, <1>10
<1>12. Leaving(f, t, kinds)
    BY <1>6, <1>7 DEF Leaving, Recurs, n, V
<1> QED
    BY <1>11, <1>12 DEF n

\* Of no lines nothing is left.
LEMMA WithoutNothing ==
    ASSUME NEW kinds
    PROVE  Without(<<>>, kinds) = <<>>
<1>1. <<>> \in Seq(Line) /\ Len(<<>>) = 0
    BY EmptySeq
<1>2. PICK f : Leaving(f, <<>>, kinds) /\ Without(<<>>, kinds) = f[Len(<<>>)]
    BY <1>1, WithoutBy
<1> QED
    BY <1>1, <1>2 DEF Leaving

\* Line by line.
LEMMA WithoutAppend ==
    ASSUME NEW t \in Seq(Line), NEW x \in Line, NEW kinds
    PROVE  Without(Append(t, x), kinds) =
               IF x \in kinds THEN Without(t, kinds) ELSE Append(Without(t, kinds), x)
<1> DEFINE u == Append(t, x)
           n == Len(t)
<1>1. n \in Nat /\ u \in Seq(Line) /\ Len(u) = n + 1 /\ u[n + 1] = x /\ \A i \in 1 .. n : u[i] = t[i]
    BY AppendProperties, LenProperties
<1> HIDE DEF u
<1>2. PICK f : Leaving(f, t, kinds) /\ Without(t, kinds) = f[n]
    BY WithoutBy
<1>3. PICK g : Leaving(g, u, kinds) /\ Without(u, kinds) = g[n + 1]
    BY <1>1, WithoutBy
<1> HIDE DEF n
<1>4. /\ f[0] = <<>>
      /\ \A i \in 1 .. n : f[i] = IF t[i] \in kinds THEN f[i - 1] ELSE Append(f[i - 1], t[i])
    BY <1>2 DEF Leaving, n
<1>5. /\ g[0] = <<>>
      /\ \A i \in 1 .. n + 1 : g[i] = IF u[i] \in kinds THEN g[i - 1] ELSE Append(g[i - 1], u[i])
    BY <1>1, <1>3 DEF Leaving
<1>6. Agree(f, g, 0, n)
  <2>1. ASSUME NEW i \in 0 + 1 .. n, f[i - 1] = g[i - 1]
        PROVE  f[i] = g[i]
    <3>1. i \in 1 .. n /\ i \in 1 .. n + 1
      BY <1>1
    <3> QED
      BY <1>1, <1>4, <1>5, <2>1, <3>1
  <2> QED
    BY <1>4, <1>5, <2>1 DEF Agree
<1>7. f[n] = g[n]
  <2>1. n \in 0 .. n
    BY <1>1
  <2> QED
    BY <1>1, <1>6, <2>1, SameSteps
<1>8. n + 1 \in 1 .. n + 1 /\ (n + 1) - 1 = n
    BY <1>1
<1>9. g[n + 1] = IF x \in kinds THEN f[n] ELSE Append(f[n], x)
    BY <1>1, <1>5, <1>7, <1>8
<1> QED
    BY <1>2, <1>3, <1>9 DEF u

\* Lines are left out of a text to make a text.
LEMMA WithoutIsText ==
    ASSUME NEW t \in Seq(Line), NEW kinds
    PROVE  Without(t, kinds) \in Seq(Line)
<1>1. PICK f : Leaving(f, t, kinds) /\ Without(t, kinds) = f[Len(t)]
    BY WithoutBy
<1>2. Len(t) \in 0 .. Len(t)
    BY LenProperties
<1> QED
    BY <1>1, <1>2 DEF Leaving

\* Text by text.
LEMMA WithoutJoined ==
    ASSUME NEW s \in Seq(Line), NEW t \in Seq(Line), NEW kinds
    PROVE  Without(s \o t, kinds) = Without(s, kinds) \o Without(t, kinds)
<1> DEFINE P == {u \in Seq(Line) : Without(s \o u, kinds) = Without(s, kinds) \o Without(u, kinds)}
           W(u) == Without(u, kinds)
<1>0. \A u \in Seq(Line) : W(u) \in Seq(Line)
    BY WithoutIsText
<1>00. \A u \in Seq(Line) : \A x \in Line : W(Append(u, x)) = IF x \in kinds THEN W(u) ELSE Append(W(u), x)
    BY WithoutAppend
<1>1. <<>> \in P
  <2>1. <<>> \in Seq(Line) /\ s \o <<>> = s /\ Without(s, kinds) \o <<>> = Without(s, kinds)
    BY <1>0, EmptySeq, ConcatEmptySeq
  <2> QED
    BY <2>1, WithoutNothing
<1> HIDE DEF W
<1>2. ASSUME NEW u \in Seq(Line), NEW x \in Line, W(s \o u) = W(s) \o W(u)
      PROVE  W(s \o Append(u, x)) = W(s) \o W(Append(u, x))
  <2>1. s \o Append(u, x) = Append(s \o u, x) /\ s \o u \in Seq(Line)
    OBVIOUS
  <2>2. W(s) \in Seq(Line) /\ W(u) \in Seq(Line)
    BY <1>0
  <2>3. W(s) \o Append(W(u), x) = Append(W(s) \o W(u), x)
    BY <2>2
  <2>4. W(Append(s \o u, x)) = IF x \in kinds THEN W(s \o u) ELSE Append(W(s \o u), x)
    BY <1>00, <2>1
  <2>5. W(Append(u, x)) = IF x \in kinds THEN W(u) ELSE Append(W(u), x)
    BY <1>00
  <2> QED
    BY <1>2, <2>1, <2>3, <2>4, <2>5
<1>3. \A u \in Seq(Line) : \A x \in Line : u \in P => Append(u, x) \in P
  <2>1. ASSUME NEW u \in Seq(Line), NEW x \in Line
        PROVE  Append(u, x) \in Seq(Line)
    OBVIOUS
  <2> QED
    BY <1>2, <2>1 DEF W
<1> HIDE DEF P
<1>4. t \in P
    BY <1>1, <1>3, Growing
<1> QED
    BY <1>4 DEF P, W

\* Leaving out some kinds first and more of them later.
LEMMA WithoutTwice ==
    ASSUME NEW t \in Seq(Line), NEW some, NEW kinds, some \subseteq kinds
    PROVE  Without(Without(t, some), kinds) = Without(t, kinds)
<1> DEFINE S(u) == Without(u, some)
           W(u) == Without(u, kinds)
           P == {u \in Seq(Line) : W(S(u)) = W(u)}
<1>1. \A u \in Seq(Line) : S(u) \in Seq(Line)
    BY WithoutIsText
<1>2. \A u \in Seq(Line) : \A x \in Line : W(Append(u, x)) = IF x \in kinds THEN W(u) ELSE Append(W(u), x)
    BY WithoutAppend
<1>3. \A u \in Seq(Line) : \A x \in Line : S(Append(u, x)) = IF x \in some THEN S(u) ELSE Append(S(u), x)
    BY WithoutAppend
<1>4. S(<<>>) = <<>> /\ <<>> \in Seq(Line)
    BY WithoutNothing, EmptySeq
<1> HIDE DEF S, W
<1>5. <<>> \in P
    BY <1>4
<1>6. ASSUME NEW u \in Seq(Line), NEW x \in Line, u \in P
      PROVE  Append(u, x) \in P
  <2>1. W(S(u)) = W(u) /\ Append(u, x) \in Seq(Line)
    BY <1>6
  <2>2. CASE x \in some
    BY <1>2, <1>3, <2>1, <2>2
  <2>3. CASE x \notin some
    <3>1. S(Append(u, x)) = Append(S(u), x)
      BY <1>3, <2>3
    <3>2. W(Append(S(u), x)) = IF x \in kinds THEN W(S(u)) ELSE Append(W(S(u)), x)
      BY <1>1, <1>2
    <3>3. W(Append(u, x)) = IF x \in kinds THEN W(u) ELSE Append(W(u), x)
      BY <1>2
    <3> QED
      BY <2>1, <3>1, <3>2, <3>3
  <2> QED
    BY <2>2, <2>3
<1> HIDE DEF P
<1>7. t \in P
    BY <1>5, <1>6, Growing
<1> QED
    BY <1>7 DEF P, S, W

\* Where the lines of w stand in t.
Within(g, w, t, kinds) ==
    /\ g \in [1 .. Len(w) -> 1 .. Len(t)]
    /\ \A k \in 1 .. Len(w) : w[k] = t[g[k]] /\ w[k] \notin kinds
    /\ \A k, l \in 1 .. Len(w) : k < l => g[k] < g[l]
    /\ \A i \in 1 .. Len(t) : t[i] \notin kinds => \E k \in 1 .. Len(w) : g[k] = i

\* The other lines stay, in their order.
LEMMA WithoutKeeps ==
    ASSUME NEW t \in Seq(Line), NEW kinds
    PROVE  \E g : Within(g, Without(t, kinds), t, kinds)
<1> DEFINE W(u) == Without(u, kinds)
           P == {u \in Seq(Line) : \E g : Within(g, W(u), u, kinds)}
<1>1. \A u \in Seq(Line) : W(u) \in Seq(Line)
    BY WithoutIsText
<1>2. \A u \in Seq(Line) : \A x \in Line : W(Append(u, x)) = IF x \in kinds THEN W(u) ELSE Append(W(u), x)
    BY WithoutAppend
<1>3. W(<<>>) = <<>> /\ <<>> \in Seq(Line) /\ Len(<<>>) = 0
    BY WithoutNothing, EmptySeq
<1> HIDE DEF W
<1>4. <<>> \in P
  <2>1. Within([k \in 1 .. 0 |-> 0], <<>>, <<>>, kinds)
    BY <1>3 DEF Within
  <2> QED
    BY <1>3, <2>1
<1> HIDE DEF P
<1>5. ASSUME NEW u \in Seq(Line), NEW x \in Line, u \in P
      PROVE  Append(u, x) \in P
  <2> DEFINE m == Len(W(u))
             n == Len(u)
             v == Append(u, x)
  <2>1. PICK g : Within(g, W(u), u, kinds)
    BY <1>5 DEF P
  <2>2. /\ n \in Nat /\ v \in Seq(Line) /\ Len(v) = n + 1
        /\ v[n + 1] = x /\ \A i \in 1 .. n : v[i] = u[i]
    BY AppendProperties, LenProperties
  <2>3. /\ m \in Nat
        /\ g \in [1 .. m -> 1 .. n]
        /\ \A k \in 1 .. m : W(u)[k] = u[g[k]] /\ W(u)[k] \notin kinds
        /\ \A k, l \in 1 .. m : k < l => g[k] < g[l]
        /\ \A i \in 1 .. n : u[i] \notin kinds => \E k \in 1 .. m : g[k] = i
    BY <1>1, <2>1, LenProperties DEF Within
  <2>4. CASE x \in kinds
    <3>1. W(v) = W(u)
      BY <1>2, <2>4
    <3> HIDE DEF m, n, v
    <3>2. g \in [1 .. m -> 1 .. n + 1]
      BY <2>2, <2>3
    <3>3. \A k \in 1 .. m : W(u)[k] = v[g[k]]
      BY <2>2, <2>3
    <3>4. ASSUME NEW i \in 1 .. n + 1, v[i] \notin kinds
          PROVE  \E k \in 1 .. m : g[k] = i
      <4>1. i \in 1 .. n
        BY <2>2, <2>4, <3>4
      <4> QED
        BY <2>2, <2>3, <3>4, <4>1
    <3>5. Within(g, W(u), v, kinds)
      BY <2>2, <2>3, <3>2, <3>3, <3>4 DEF Within, m
    <3> QED
      BY <2>2, <3>1, <3>5 DEF v, P
  <2>5. CASE x \notin kinds
    <3>1. W(v) = Append(W(u), x)
      BY <1>2, <2>5
    <3> DEFINE w == Append(W(u), x)
               h == [k \in 1 .. m + 1 |-> IF k = m + 1 THEN n + 1 ELSE g[k]]
    <3>2. Len(w) = m + 1 /\ w[m + 1] = x /\ \A k \in 1 .. m : w[k] = W(u)[k]
      BY <1>1, AppendProperties
    <3> HIDE DEF m, n, v, w
    <3>3. h[m + 1] = n + 1 /\ \A k \in 1 .. m : h[k] = g[k] /\ g[k] \in 1 .. n
      BY <2>3
    <3>4. h \in [1 .. m + 1 -> 1 .. n + 1]
      BY <2>2, <2>3
    <3> HIDE DEF h
    <3>5. ASSUME NEW k \in 1 .. m + 1
          PROVE  w[k] = v[h[k]] /\ w[k] \notin kinds
      <4>1. CASE k = m + 1
        BY <2>2, <2>5, <3>2, <3>3, <4>1
      <4>2. CASE k # m + 1
        <5>1. k \in 1 .. m
          BY <2>3, <4>2
        <5>2. w[k] = W(u)[k] /\ h[k] = g[k] /\ g[k] \in 1 .. n
          BY <3>2, <3>3, <5>1
        <5>3. W(u)[k] = u[g[k]] /\ W(u)[k] \notin kinds
          BY <2>3, <5>1
        <5>4. v[g[k]] = u[g[k]]
          BY <2>2, <5>2
        <5> QED
          BY <5>2, <5>3, <5>4
      <4> QED
        BY <4>1, <4>2
    <3>6. ASSUME NEW k \in 1 .. m + 1, NEW l \in 1 .. m + 1, k < l
          PROVE  h[k] < h[l]
      <4>1. k \in 1 .. m
        BY <2>3, <3>6
      <4>2. CASE l = m + 1
        BY <2>2, <3>3, <4>1, <4>2
      <4>3. CASE l # m + 1
        <5>1. l \in 1 .. m
          BY <2>3, <4>3
        <5> QED
          BY <2>3, <3>3, <3>6, <4>1, <5>1
      <4> QED
        BY <4>2, <4>3
    <3>7. ASSUME NEW i \in 1 .. n + 1, v[i] \notin kinds
          PROVE  \E k \in 1 .. m + 1 : h[k] = i
      <4>1. CASE i = n + 1
        <5>1. m + 1 \in 1 .. m + 1
          BY <2>3
        <5> QED
          BY <3>3, <4>1, <5>1
      <4>2. CASE i # n + 1
        <5>1. i \in 1 .. n
          BY <2>2, <4>2
        <5>2. PICK k \in 1 .. m : g[k] = i
          BY <2>2, <2>3, <3>7, <5>1
        <5>3. k \in 1 .. m + 1
          BY <2>3
        <5> QED
          BY <3>3, <5>2, <5>3
      <4> QED
        BY <4>1, <4>2
    <3>8. Within(h, w, v, kinds)
      BY <2>2, <3>2, <3>4, <3>5, <3>6, <3>7 DEF Within
    <3> QED
      BY <2>2, <3>1, <3>8 DEF v, w, P
  <2> QED
    BY <2>4, <2>5
<1>6. t \in P
    BY <1>4, <1>5, Growing
<1> QED
    BY <1>6 DEF P, W

-----------------------------------------------------------------------------
(* One line more, one line less                                             *)

\* What joining two texts makes, in the terms of this module.
LEMMA JoinedTexts ==
    ASSUME NEW s, NEW t, s \in Seq(Line), t \in Seq(Line)
    PROVE  /\ s \o t \in Seq(Line) /\ Len(s \o t) = Len(s) + Len(t)
           /\ \A j \in 1 .. Len(s) + Len(t) : (s \o t)[j] = IF j <= Len(s) THEN s[j] ELSE t[j - Len(s)]
BY ConcatProperties

\* The two sides of a place in a text.
LEMMA Sides ==
    ASSUME NEW t \in Seq(Line), NEW i \in 1 .. Len(t) + 1
    PROVE  /\ SubSeq(t, 1, i - 1) \in Seq(Line) /\ Len(SubSeq(t, 1, i - 1)) = i - 1
           /\ \A j \in 1 .. i - 1 : SubSeq(t, 1, i - 1)[j] = t[j]
           /\ SubSeq(t, i, Len(t)) \in Seq(Line) /\ Len(SubSeq(t, i, Len(t))) = Len(t) - i + 1
           /\ \A j \in 1 .. Len(t) - i + 1 : SubSeq(t, i, Len(t))[j] = t[j + i - 1]
           /\ t = SubSeq(t, 1, i - 1) \o SubSeq(t, i, Len(t))
<1> DEFINE n == Len(t)
           a == SubSeq(t, 1, i - 1)
           b == SubSeq(t, i, n)
<1>1. n \in Nat
    BY LenProperties
<1>2. a \in Seq(Line) /\ Len(a) = i - 1 /\ \A j \in 1 .. i - 1 : a[j] = t[j]
  <2>1. 1 \in 1 .. n + 1 /\ i - 1 \in 1 - 1 .. n
    BY <1>1
  <2>2. /\ a \in Seq(Line)
        /\ Len(a) = IF 1 <= i - 1 THEN (i - 1) - 1 + 1 ELSE 0
        /\ \A j \in 1 .. (i - 1) - 1 + 1 : a[j] = t[1 + j - 1]
    BY <2>1, SubSeqProperties
  <2> HIDE DEF a
  <2>3. (i - 1) - 1 + 1 = i - 1 /\ \A j \in 1 .. i - 1 : 1 + j - 1 = j
    BY <1>1
  <2> QED
    BY <1>1, <2>2, <2>3
<1>3. /\ b \in Seq(Line) /\ Len(b) = n - i + 1
      /\ \A j \in 1 .. n - i + 1 : b[j] = t[j + i - 1]
  <2>1. i \in 1 .. n + 1 /\ n \in i - 1 .. n
    BY <1>1
  <2>2. /\ b \in Seq(Line)
        /\ Len(b) = IF i <= n THEN n - i + 1 ELSE 0
        /\ \A j \in 1 .. n - i + 1 : b[j] = t[i + j - 1]
    BY <2>1, SubSeqProperties
  <2> HIDE DEF b
  <2>3. \A j \in 1 .. n - i + 1 : i + j - 1 = j + i - 1
    BY <1>1
  <2> QED
    BY <1>1, <2>2, <2>3
<1> HIDE DEF a, b, n
<1>4. t = a \o b
  <2>1. /\ a \o b \in Seq(Line) /\ Len(a \o b) = Len(a) + Len(b)
        /\ \A j \in 1 .. Len(a) + Len(b) : (a \o b)[j] = IF j <= Len(a) THEN a[j] ELSE b[j - Len(a)]
    BY <1>2, <1>3, ConcatProperties
  <2>2. Len(a) + Len(b) = n
    BY <1>1, <1>2, <1>3
  <2>3. ASSUME NEW j \in 1 .. n
        PROVE  t[j] = (a \o b)[j]
    <3>1. CASE j <= i - 1
      BY <1>1, <1>2, <2>1, <2>2, <3>1
    <3>2. CASE ~(j <= i - 1)
      <4>1. j - (i - 1) \in 1 .. n - i + 1 /\ (j - (i - 1)) + i - 1 = j
        BY <1>1, <3>2
      <4>2. (a \o b)[j] = b[j - (i - 1)]
        BY <1>2, <2>1, <2>2, <3>2
      <4> QED
        BY <1>3, <4>1, <4>2
    <3> QED
      BY <3>1, <3>2
  <2> QED
    BY <2>1, <2>2, <2>3, SeqEqual DEF n
<1> QED
    BY <1>2, <1>3, <1>4 DEF a, b, n

\* A line is put in at place i.
LEMMA PutIn ==
    ASSUME NEW t \in Seq(Line), NEW i \in 1 .. Len(t) + 1, NEW x \in Line
    PROVE  /\ InsertAt(t, i, x) \in Seq(Line) /\ Len(InsertAt(t, i, x)) = Len(t) + 1
           /\ InsertAt(t, i, x)[i] = x
           /\ \A j \in 1 .. i - 1 : InsertAt(t, i, x)[j] = t[j]
           /\ \A j \in i .. Len(t) : InsertAt(t, i, x)[j + 1] = t[j]
           /\ \A kinds : x \in kinds => Without(InsertAt(t, i, x), kinds) = Without(t, kinds)
<1> DEFINE n == Len(t)
           a == SubSeq(t, 1, i - 1)
           b == SubSeq(t, i, n)
           c == <<x>>
           u == (a \o c) \o b
<1>1. n \in Nat /\ c \in Seq(Line) /\ Len(c) = 1 /\ c[1] = x
    BY LenProperties
<1>2. /\ a \in Seq(Line) /\ Len(a) = i - 1 /\ \A j \in 1 .. i - 1 : a[j] = t[j]
      /\ b \in Seq(Line) /\ Len(b) = n - i + 1 /\ \A j \in 1 .. n - i + 1 : b[j] = t[j + i - 1]
      /\ t = a \o b
    BY Sides
<1>3. InsertAt(t, i, x) = u
    BY Zenon DEF InsertAt
<1>4. ASSUME NEW kinds, x \in kinds
      PROVE  Without(u, kinds) = Without(t, kinds)
  <2>1. c = Append(<<>>, x) /\ <<>> \in Seq(Line)
    OBVIOUS
  <2> HIDE DEF a, b, c, n
  <2>2. Without(c, kinds) = <<>>
    BY <1>4, <2>1, WithoutAppend, WithoutNothing
  <2>3. a \in Seq(Line) /\ b \in Seq(Line) /\ c \in Seq(Line)
    BY <1>1, <1>2
  <2>4. a \o c \in Seq(Line)
    BY <2>3, JoinedTexts
  <2> DEFINE W(s) == Without(s, kinds)
             Join(s, v) == s \o v
             d == Join(a, c)
  <2>5. \A s, v \in Seq(Line) : W(Join(s, v)) = Join(W(s), W(v))
    BY WithoutJoined
  <2>6. d \in Seq(Line) /\ u = Join(d, b) /\ t = Join(a, b) /\ W(c) = <<>>
    BY <1>2, <2>2, <2>4
  <2>7. Join(W(a), <<>>) = W(a)
    BY <2>3, WithoutIsText, ConcatEmptySeq
  <2> HIDE DEF W, Join, u
  <2>8. W(d) = Join(W(a), W(c)) /\ W(Join(d, b)) = Join(W(d), W(b)) /\ W(t) = Join(W(a), W(b))
    <3>1. d \in Seq(Line) /\ d = Join(a, c)
      BY <2>6
    <3> HIDE DEF d
    <3> QED
      BY <2>3, <2>5, <2>6, <3>1
  <2>9. W(u) = W(t)
    BY <2>6, <2>7, <2>8
  <2> QED
    BY <2>9 DEF W
<1> HIDE DEF a, b, c, n
<1>5. /\ a \o c \in Seq(Line) /\ Len(a \o c) = i
      /\ \A j \in 1 .. i : (a \o c)[j] = IF j <= i - 1 THEN a[j] ELSE c[j - (i - 1)]
  <2>1. i - 1 + 1 = i
    BY <1>1
  <2>2. /\ a \o c \in Seq(Line) /\ Len(a \o c) = Len(a) + Len(c)
        /\ \A j \in 1 .. Len(a) + Len(c) : (a \o c)[j] = IF j <= Len(a) THEN a[j] ELSE c[j - Len(a)]
    <3>1. a \in Seq(Line) /\ c \in Seq(Line)
      BY <1>1, <1>2
    <3> QED
      BY <3>1, JoinedTexts
  <2>3. Len(a) = i - 1 /\ Len(c) = 1
    BY <1>1, <1>2
  <2> QED
    BY <2>1, <2>2, <2>3
<1>6. /\ u \in Seq(Line) /\ Len(u) = i + (n - i + 1)
      /\ \A j \in 1 .. i + (n - i + 1) : u[j] = IF j <= i THEN (a \o c)[j] ELSE b[j - i]
    BY <1>2, <1>5, JoinedTexts
<1>7. i + (n - i + 1) = n + 1 /\ i \in 1 .. n + 1
    BY <1>1 DEF n
<1> HIDE DEF u
<1>8. u[i] = x
  <2>1. i <= i /\ ~(i <= i - 1) /\ i - (i - 1) = 1 /\ i \in 1 .. i
    BY <1>7
  <2> QED
    BY <1>1, <1>5, <1>6, <1>7, <2>1
<1>9. ASSUME NEW j \in 1 .. i - 1
      PROVE  u[j] = t[j]
  <2>1. j \in 1 .. n + 1 /\ j \in 1 .. i /\ j <= i
    BY <1>1, <1>7
  <2> QED
    BY <1>2, <1>5, <1>6, <1>7, <2>1
<1>10. ASSUME NEW j \in i .. n
       PROVE  u[j + 1] = t[j]
  <2>1. j + 1 \in 1 .. n + 1 /\ ~(j + 1 <= i) /\ (j + 1) - i \in 1 .. n - i + 1 /\ ((j + 1) - i) + i - 1 = j
    BY <1>1, <1>7
  <2> QED
    BY <1>2, <1>6, <1>7, <2>1
<1> QED
    BY <1>3, <1>4, <1>6, <1>7, <1>8, <1>9, <1>10 DEF n

\* Line i is taken out.
LEMMA TakeOut ==
    ASSUME NEW t \in Seq(Line), NEW i \in 1 .. Len(t)
    PROVE  /\ RemoveAt(t, i) \in Seq(Line) /\ Len(RemoveAt(t, i)) = Len(t) - 1
           /\ \A j \in 1 .. i - 1 : RemoveAt(t, i)[j] = t[j]
           /\ \A j \in i .. Len(t) - 1 : RemoveAt(t, i)[j] = t[j + 1]
           /\ \A kinds : t[i] \in kinds => Without(RemoveAt(t, i), kinds) = Without(t, kinds)
<1> DEFINE n == Len(t)
           a == SubSeq(t, 1, i - 1)
           b == SubSeq(t, i + 1, n)
           u == a \o b
<1>1. n \in Nat /\ i \in 1 .. n + 1 /\ i + 1 \in 1 .. n + 1 /\ (i + 1) - 1 = i
    BY LenProperties
<1>2. /\ a \in Seq(Line) /\ Len(a) = i - 1 /\ \A j \in 1 .. i - 1 : a[j] = t[j]
    BY <1>1, Sides
<1>3. /\ b \in Seq(Line) /\ Len(b) = n - (i + 1) + 1
      /\ \A j \in 1 .. n - (i + 1) + 1 : b[j] = t[j + (i + 1) - 1]
    BY <1>1, Sides
<1>4. RemoveAt(t, i) = u
    BY Zenon DEF RemoveAt
<1> HIDE DEF a, b, n
<1>5. /\ u \in Seq(Line) /\ Len(u) = n - 1
      /\ \A j \in 1 .. n - 1 : u[j] = IF j <= i - 1 THEN a[j] ELSE b[j - (i - 1)]
  <2>1. (i - 1) + (n - (i + 1) + 1) = n - 1
    BY <1>1
  <2>2. /\ u \in Seq(Line) /\ Len(u) = Len(a) + Len(b)
        /\ \A j \in 1 .. Len(a) + Len(b) : u[j] = IF j <= Len(a) THEN a[j] ELSE b[j - Len(a)]
    <3>1. a \in Seq(Line) /\ b \in Seq(Line)
      BY <1>2, <1>3
    <3> QED
      BY <3>1, JoinedTexts
  <2>3. Len(a) = i - 1 /\ Len(b) = n - (i + 1) + 1
    BY <1>2, <1>3
  <2> HIDE DEF u
  <2> QED
    BY <2>1, <2>2, <2>3
<1>6. i \in 1 .. n
    BY DEF n
<1>7. ASSUME NEW j \in 1 .. i - 1
      PROVE  u[j] = t[j]
  <2>1. j \in 1 .. n - 1 /\ j <= i - 1
    BY <1>1, <1>6
  <2> QED
    BY <1>2, <1>5, <2>1
<1>8. ASSUME NEW j \in i .. n - 1
      PROVE  u[j] = t[j + 1]
  <2>1. /\ j \in 1 .. n - 1 /\ ~(j <= i - 1)
        /\ j - (i - 1) \in 1 .. n - (i + 1) + 1 /\ (j - (i - 1)) + (i + 1) - 1 = j + 1
    BY <1>1, <1>6
  <2> QED
    BY <1>3, <1>5, <2>1
<1>9. ASSUME NEW kinds, t[i] \in kinds
      PROVE  Without(u, kinds) = Without(t, kinds)
  <2> DEFINE x == t[i]
  <2>1. t = InsertAt(u, i, x)
    <3>1. x \in Line /\ i \in 1 .. Len(u) + 1
      BY <1>1, <1>5, <1>6, ElementOfSeq
    <3> HIDE DEF x, u
    <3> DEFINE v == InsertAt(u, i, x)
    <3>2. /\ v \in Seq(Line) /\ Len(v) = Len(u) + 1 /\ v[i] = x
          /\ \A j \in 1 .. i - 1 : v[j] = u[j]
          /\ \A j \in i .. Len(u) : v[j + 1] = u[j]
      BY <1>5, <3>1, PutIn, ZenonT(60)
    <3>3. Len(v) = n
      BY <1>1, <1>5, <3>2
    <3> HIDE DEF v
    <3>4. ASSUME NEW j \in 1 .. n
          PROVE  t[j] = v[j]
      <4>1. CASE j = i
        BY <3>2, <4>1 DEF x
      <4>2. CASE j \in 1 .. i - 1
        BY <1>7, <3>2, <4>2
      <4>3. CASE j > i
        <5>1. j - 1 \in i .. n - 1 /\ (j - 1) + 1 = j
          BY <1>1, <1>6, <4>3
        <5>2. u[j - 1] = t[j]
          BY <1>8, <5>1
        <5>3. v[j] = u[j - 1]
          BY <1>5, <3>2, <5>1
        <5> QED
          BY <5>2, <5>3
      <4> QED
        BY <1>6, <4>1, <4>2, <4>3
    <3> QED
      BY <3>2, <3>3, <3>4, SeqEqual DEF n, v
  <2>2. x \in Line /\ i \in 1 .. Len(u) + 1
    BY <1>1, <1>5, <1>6, ElementOfSeq
  <2> HIDE DEF x, u
  <2>3. x \in kinds
    BY <1>9 DEF x
  <2>4. Without(InsertAt(u, i, x), kinds) = Without(u, kinds)
    BY <1>5, <2>2, <2>3, PutIn
  <2> QED
    BY <2>1, <2>4
<1> HIDE DEF u
<1> QED
    BY <1>4, <1>5, <1>7, <1>8, <1>9 DEF n

\* A line is written over.
LEMMA WriteOver ==
    ASSUME NEW t \in Seq(Line), NEW i \in 1 .. Len(t), NEW x \in Line, NEW kinds, t[i] \in kinds, x \in kinds
    PROVE  Without([t EXCEPT ![i] = x], kinds) = Without(t, kinds)
<1> DEFINE n == Len(t)
           u == [t EXCEPT ![i] = x]
           v == RemoveAt(t, i)
           w == InsertAt(v, i, x)
<1>1. n \in Nat /\ i \in 1 .. n
    BY LenProperties
<1>2. u \in Seq(Line) /\ Len(u) = n /\ \A j \in 1 .. n : u[j] = IF j = i THEN x ELSE t[j]
    BY ExceptSeq
<1>3. /\ v \in Seq(Line) /\ Len(v) = n - 1
      /\ \A j \in 1 .. i - 1 : v[j] = t[j]
      /\ \A j \in i .. n - 1 : v[j] = t[j + 1]
      /\ Without(v, kinds) = Without(t, kinds)
    BY TakeOut
<1>4. i \in 1 .. Len(v) + 1
    BY <1>1, <1>3
<1> HIDE DEF v, u, n
<1>5. /\ w \in Seq(Line) /\ Len(w) = Len(v) + 1 /\ w[i] = x
      /\ \A j \in 1 .. i - 1 : w[j] = v[j]
      /\ \A j \in i .. Len(v) : w[j + 1] = v[j]
      /\ Without(w, kinds) = Without(v, kinds)
    BY <1>3, <1>4, PutIn, SMTT(40)
<1> HIDE DEF w
<1>6. ASSUME NEW j \in 1 .. n
      PROVE  u[j] = w[j]
  <2>1. CASE j = i
    BY <1>2, <1>5, <2>1
  <2>2. CASE j \in 1 .. i - 1
    <3>1. j # i
      BY <1>1, <2>2
    <3> QED
      BY <1>2, <1>3, <1>5, <2>2, <3>1
  <2>3. CASE j > i
    <3>1. j - 1 \in i .. n - 1 /\ (j - 1) + 1 = j /\ j # i
      BY <1>1, <2>3
    <3>2. w[j] = v[j - 1] /\ v[j - 1] = t[j]
      BY <1>3, <1>5, <3>1
    <3> QED
      BY <1>2, <3>1, <3>2
  <2> QED
    BY <1>1, <2>1, <2>2, <2>3
<1>7. Len(w) = n
    BY <1>1, <1>3, <1>5
<1>8. u = w
    BY <1>2, <1>5, <1>6, <1>7, SeqEqual
<1> QED
    BY <1>3, <1>5, <1>8 DEF u

-----------------------------------------------------------------------------
(* The scan of modify_bootini                                               *)

ScanState == [lines : Seq(Line), section : BOOLEAN, head : Nat, timed : BOOLEAN, over : BOOLEAN]

\* What the loop does with line i, apart from each other.
Passes(s, i) == s.over \/ i > Len(s.lines)
Sees(s, i, line) == ~s.over /\ i <= Len(s.lines) /\ s.lines[i] = line
Times(s, i) == ~s.over /\ i <= Len(s.lines) /\ s.lines[i] \in Timeout
Skips(s, i, entry) ==
    /\ ~s.over /\ i <= Len(s.lines) /\ s.lines[i] \notin Section \cup Timeout
    /\ s.section => s.lines[i] \notin {entry, "blank"}
ScanStep(s, i, entry, r) ==
    \/ Passes(s, i) /\ r = s
    \/ Sees(s, i, "operating_systems") /\ r = [s EXCEPT !.section = TRUE]
    \/ Sees(s, i, "boot_loader") /\ r = [s EXCEPT !.head = i]
    \/ Sees(s, i, "other_section") /\ r = [s EXCEPT !.section = FALSE]
    \/ Times(s, i) /\ s.head = 0 /\ r = [s EXCEPT !.lines = RemoveAt(@, i)]
    \/ Times(s, i) /\ s.head # 0 /\ r = [s EXCEPT !.lines[i] = "timeout_10", !.timed = TRUE]
    \/ Sees(s, i, entry) /\ s.section /\ r = [s EXCEPT !.over = TRUE]
    \/ Sees(s, i, "blank") /\ s.section /\ r = [s EXCEPT !.lines = InsertAt(@, i, entry), !.over = TRUE]
    \/ Skips(s, i, entry) /\ r = s

\* A step of the scan is one of the cases of ScanStep.
LEMMA ScanCases ==
    ASSUME NEW s \in ScanState, NEW i \in Nat \ {0}, NEW entry \in Own
    PROVE  ScanStep(s, i, entry, Scan(s, i, entry))
<1>0. Len(s.lines) \in Nat
    BY LenProperties DEF ScanState
<1>1. CASE s.over \/ i > Len(s.lines)
    BY <1>1 DEF Scan, ScanStep, Passes
<1>2. CASE ~(s.over \/ i > Len(s.lines))
  <2> DEFINE line == s.lines[i]
  <2>1. Scan(s, i, entry) =
          CASE line = "operating_systems" -> [s EXCEPT !.section = TRUE]
            [] line = "boot_loader" -> [s EXCEPT !.head = i]
            [] line = "other_section" -> [s EXCEPT !.section = FALSE]
            [] line \in Timeout /\ s.head = 0 -> [s EXCEPT !.lines = RemoveAt(@, i)]
            [] line \in Timeout /\ s.head # 0 ->
                   [s EXCEPT !.lines[i] = "timeout_10", !.timed = TRUE]
            [] s.section /\ line = entry -> [s EXCEPT !.over = TRUE]
            [] s.section /\ line = "blank" ->
                   [s EXCEPT !.lines = InsertAt(@, i, entry), !.over = TRUE]
            [] OTHER -> s
    BY <1>2, Zenon DEF Scan
  <2> DEFINE rem == [s EXCEPT !.lines = RemoveAt(@, i)]
             set == [s EXCEPT !.lines[i] = "timeout_10", !.timed = TRUE]
             ins == [s EXCEPT !.lines = InsertAt(@, i, entry), !.over = TRUE]
             sys == [s EXCEPT !.section = TRUE]
             oth == [s EXCEPT !.section = FALSE]
             hea == [s EXCEPT !.head = i]
             ove == [s EXCEPT !.over = TRUE]
  <2>2. i <= Len(s.lines) /\ ~s.over
    BY <1>0, <1>2
  <2>3. /\ Timeout = {"timeout", "timeout_10"} /\ entry \in {"loop", "livecd"}
        /\ Section = {"boot_loader", "operating_systems", "other_section"}
    BY DEF Timeout, Own, Section
  <2> HIDE DEF rem, set, ins, sys, oth, hea, ove
  <2>4. Scan(s, i, entry) =
          CASE line = "operating_systems" -> sys
            [] line = "boot_loader" -> hea
            [] line = "other_section" -> oth
            [] line \in Timeout /\ s.head = 0 -> rem
            [] line \in Timeout /\ s.head # 0 -> set
            [] s.section /\ line = entry -> ove
            [] s.section /\ line = "blank" -> ins
            [] OTHER -> s
    BY <2>1, Zenon DEF rem, set, ins, sys, oth, hea, ove
  <2> DEFINE r == Scan(s, i, entry)
  <2>5. \/ line = "operating_systems" /\ r = sys
        \/ line = "boot_loader" /\ r = hea
        \/ line = "other_section" /\ r = oth
        \/ line \in Timeout /\ s.head = 0 /\ r = rem
        \/ line \in Timeout /\ s.head # 0 /\ r = set
        \/ s.section /\ line = entry /\ r = ove
        \/ s.section /\ line = "blank" /\ r = ins
        \/ line \notin Section \cup Timeout /\ ~(s.section /\ line \in {entry, "blank"}) /\ r = s
    BY <2>3, <2>4
  <2> HIDE DEF r, line
  <2>6. ScanStep(s, i, entry, r)
    BY <2>2, <2>5 DEF ScanStep, Sees, Times, Skips, line, rem, set, ins, sys, oth, hea, ove
  <2> QED
    BY <2>6 DEF r
<1> QED
    BY <1>1, <1>2

\* Lines that the editing puts into a text.
LEMMA OwnLines == Own \subseteq Line /\ Timeout \subseteq Line /\ "blank" \in Line /\ "boot_loader" \in Line
BY DEF Line, Own, Timeout, Section

\* The records that a step of the scan makes.
LEMMA ScanKinds ==
    ASSUME NEW s \in ScanState, NEW b \in BOOLEAN, NEW h \in Nat, NEW u \in Seq(Line)
    PROVE  /\ [s EXCEPT !.section = b] \in ScanState
           /\ [s EXCEPT !.head = h] \in ScanState
           /\ [s EXCEPT !.over = b] \in ScanState
           /\ [s EXCEPT !.lines = u] \in ScanState
           /\ [s EXCEPT !.lines = u, !.over = b] \in ScanState
           /\ [s EXCEPT !.lines = u, !.timed = b] \in ScanState
BY DEF ScanState

\* A step of the scan makes a state of the scan.
LEMMA ScanTypes ==
    ASSUME NEW s \in ScanState, NEW i \in Nat \ {0}, NEW entry \in Own
    PROVE  Scan(s, i, entry) \in ScanState
<1> DEFINE r == Scan(s, i, entry)
<1>1. ScanStep(s, i, entry, r)
    BY ScanCases
<1>2. s.lines \in Seq(Line) /\ Len(s.lines) \in Nat /\ i \in Nat
    BY LenProperties DEF ScanState
<1>3. /\ [s EXCEPT !.section = TRUE] \in ScanState /\ [s EXCEPT !.section = FALSE] \in ScanState
      /\ [s EXCEPT !.head = i] \in ScanState /\ [s EXCEPT !.over = TRUE] \in ScanState
    BY <1>2, ScanKinds
<1>4. ASSUME Times(s, i)
      PROVE  [s EXCEPT !.lines = RemoveAt(@, i)] \in ScanState
  <2>1. i \in 1 .. Len(s.lines)
    BY <1>2, <1>4 DEF Times
  <2>2. RemoveAt(s.lines, i) \in Seq(Line)
    BY <1>2, <2>1, TakeOut
  <2> QED
    BY <2>2, ScanKinds
<1>5. [s EXCEPT !.lines[i] = "timeout_10", !.timed = TRUE] \in ScanState
  <2>1. "timeout_10" \in Line
    BY OwnLines DEF Timeout
  <2>2. [s.lines EXCEPT ![i] = "timeout_10"] \in Seq(Line)
    <3>1. CASE i \in 1 .. Len(s.lines)
      BY <1>2, <2>1, <3>1, ExceptSeq
    <3>2. CASE i \notin 1 .. Len(s.lines)
      <4>1. DOMAIN s.lines = 1 .. Len(s.lines)
        BY <1>2, LenProperties
      <4>2. [s.lines EXCEPT ![i] = "timeout_10"] = s.lines
        BY <1>2, <3>2, <4>1, LenProperties
      <4> QED
        BY <1>2, <4>2
    <3> QED
      BY <3>1, <3>2
  <2> QED
    BY <2>2, ScanKinds
<1>6. ASSUME Sees(s, i, "blank")
      PROVE  [s EXCEPT !.lines = InsertAt(@, i, entry), !.over = TRUE] \in ScanState
  <2>1. i \in 1 .. Len(s.lines) + 1 /\ entry \in Line
    BY <1>2, <1>6, OwnLines DEF Sees
  <2>2. InsertAt(s.lines, i, entry) \in Seq(Line)
    BY <1>2, <2>1, PutIn
  <2> QED
    BY <2>2, ScanKinds
<1> HIDE DEF r
<1>7. r \in ScanState
    BY <1>1, <1>3, <1>4, <1>5, <1>6, Zenon DEF ScanStep
<1> QED
    BY <1>7 DEF r

Scanning(f, t, entry) ==
    /\ f \in [0 .. Len(t) -> ScanState] /\ f[0] = ScanStart(t)
    /\ \A i \in 1 .. Len(t) : f[i] = Scan(f[i - 1], i, entry)

\* The scan is what such a function has at the end.
LEMMA ScannedBy ==
    ASSUME NEW t \in Seq(Line), NEW entry \in Own
    PROVE  \E f : Scanning(f, t, entry) /\ Scanned(t, entry) = f[Len(t)]
<1> DEFINE n == Len(t)
           V == ScanState
           op == [x \in V \X (1 .. n) |-> Scan(x[1], x[2], entry)]
           upto[i \in 0 .. n] == IF i = 0 THEN ScanStart(t) ELSE Scan(upto[i - 1], i, entry)
<1>1. n \in Nat
    BY LenProperties
<1>2. Scanned(t, entry) = upto[n]
    BY DEF Scanned
<1>3. ASSUME NEW i \in 0 + 1 .. n, NEW v \in V
      PROVE  op[<<v, i>>] = Scan(v, i, entry) /\ op[<<v, i>>] \in V
  <2>1. i \in 1 .. n /\ i \in Nat \ {0}
    BY <1>1
  <2>2. op[<<v, i>>] = Scan(v, i, entry)
    BY <2>1
  <2>3. Scan(v, i, entry) \in V
    BY <2>1, ScanTypes
  <2> HIDE DEF V, op
  <2> QED
    BY <2>2, <2>3
<1>4. ScanStart(t) \in V
    BY DEF ScanStart, ScanState
<1> HIDE DEF n, op, V
<1>5. StaysIn(op, V, 0, n)
    BY <1>3 DEF StaysIn
<1>6. PICK f : Recurs(f, op, ScanStart(t), V, 0, n)
  <2>1. 0 \in Nat /\ 0 <= n
    BY <1>1
  <2> QED
    BY <1>1, <1>4, <1>5, <2>1, Recursion
<1>7. \A i \in 1 .. n : f[i] = Scan(f[i - 1], i, entry)
  <2> SUFFICES ASSUME NEW i \in 1 .. n
               PROVE  f[i] = Scan(f[i - 1], i, entry)
    OBVIOUS
  <2>1. i \in 0 + 1 .. n /\ i - 1 \in 0 .. n
    BY <1>1
  <2>2. f[i - 1] \in V /\ f[i] = op[<<f[i - 1], i>>]
    BY <1>6, <2>1 DEF Recurs
  <2> QED
    BY <1>3, <2>1, <2>2
<1>8. f = [i \in 0 .. n |-> IF i = 0 THEN ScanStart(t) ELSE Scan(f[i - 1], i, entry)]
  <2>1. f \in [0 .. n -> V] /\ f[0] = ScanStart(t)
    BY <1>6 DEF Recurs
  <2>2. \A i \in 0 .. n : i # 0 => i \in 1 .. n
    BY <1>1
  <2> QED
    BY <1>7, <2>1, <2>2
<1>9. upto = [i \in 0 .. n |-> IF i = 0 THEN ScanStart(t) ELSE Scan(upto[i - 1], i, entry)]
    BY <1>8, Zenon
<1> HIDE DEF upto
<1>10. \A i \in 0 .. n : upto[i] = f[i]
  <2>1. upto[0] = f[0]
    BY <1>1, <1>6, <1>9 DEF Recurs
  <2>2. ASSUME NEW i \in 0 + 1 .. n, upto[i - 1] = f[i - 1]
        PROVE  upto[i] = f[i]
    <3>1. i \in 1 .. n /\ i \in 0 .. n /\ i # 0
      BY <1>1
    <3>2. upto[i] = Scan(upto[i - 1], i, entry)
      BY <1>9, <3>1
    <3> QED
      BY <1>7, <2>2, <3>1, <3>2
  <2>3. Agree(upto, f, 0, n)
    BY <2>1, <2>2 DEF Agree
  <2> QED
    BY <1>1, <2>3, SameSteps
<1>11. Scanned(t, entry) = f[n]
    BY <1>1, <1>2, <1>10
<1>12. Scanning(f, t, entry)
    BY <1>6, <1>7 DEF Scanning, Recurs, n, V
<1> QED
    BY <1>11, <1>12 DEF n

Replaced(entry) == Timeout \cup {"blank", "boot_loader", entry}

\* The two lines that modify_bootini puts before a text without a head.
LEMMA PutOnTop ==
    ASSUME NEW t \in Seq(Line)
    PROVE  LET u == <<"boot_loader", "timeout_10">> \o t
           IN /\ u \in Seq(Line) /\ Len(u) = Len(t) + 2
              /\ u[1] = "boot_loader" /\ u[2] = "timeout_10"
              /\ \A j \in 1 .. Len(t) : u[j + 2] = t[j]
              /\ \A kinds : {"boot_loader", "timeout_10"} \subseteq kinds => Without(u, kinds) = Without(t, kinds)
<1> DEFINE a == "boot_loader"
           b == "timeout_10"
           h == <<a, b>>
           u == h \o t
<1>1. a \in Line /\ b \in Line
    BY DEF Line, Section, Timeout
<1>2. h = Append(Append(<<>>, a), b) /\ <<>> \in Seq(Line) /\ Append(<<>>, a) \in Seq(Line)
  <2> HIDE DEF a, b
  <2> QED
    BY <1>1
<1>3. h \in Seq(Line) /\ Len(h) = 2 /\ h[1] = a /\ h[2] = b
  <2> HIDE DEF a, b
  <2> QED
    BY <1>1
<1>4. Len(t) \in Nat
    BY LenProperties
<1> HIDE DEF a, b, h
<1>5. /\ u \in Seq(Line) /\ Len(u) = Len(h) + Len(t)
      /\ \A j \in 1 .. Len(h) + Len(t) : u[j] = IF j <= Len(h) THEN h[j] ELSE t[j - Len(h)]
    BY <1>3, JoinedTexts
<1>6. ASSUME NEW kinds, {a, b} \subseteq kinds
      PROVE  Without(u, kinds) = Without(t, kinds)
  <2>1. Without(Append(<<>>, a), kinds) = <<>>
    BY <1>1, <1>2, <1>6, WithoutAppend, WithoutNothing
  <2>2. Without(h, kinds) = <<>>
    BY <1>1, <1>2, <1>6, <2>1, WithoutAppend
  <2>3. Without(u, kinds) = Without(h, kinds) \o Without(t, kinds)
    BY <1>3, WithoutJoined
  <2>4. Without(t, kinds) \in Seq(Line)
    BY WithoutIsText
  <2> QED
    BY <2>2, <2>3, <2>4, ConcatEmptySeq
<1> HIDE DEF u
<1>7. Len(u) = Len(t) + 2 /\ u[1] = a /\ u[2] = b
  <2>1. 1 \in 1 .. 2 + Len(t) /\ 2 \in 1 .. 2 + Len(t) /\ 1 <= 2 /\ 2 <= 2 /\ 2 + Len(t) = Len(t) + 2
    BY <1>4
  <2> QED
    BY <1>3, <1>5, <2>1
<1>8. ASSUME NEW j \in 1 .. Len(t)
      PROVE  u[j + 2] = t[j]
  <2>1. j + 2 \in 1 .. 2 + Len(t) /\ ~(j + 2 <= 2) /\ (j + 2) - 2 = j
    BY <1>4
  <2> QED
    BY <1>3, <1>5, <2>1
<1> QED
    BY <1>5, <1>6, <1>7, <1>8, Zenon DEF u, h, a, b

\* What the loop keeps: the lines it is not about, and the empty line at the end.
Blank(t) == t \in Seq(Line) /\ Len(t) \in Nat \ {0} /\ t[Len(t)] = "blank"
Keeping(s, t, entry) ==
    /\ s \in ScanState /\ Blank(s.lines) /\ s.head < Len(s.lines)
    /\ Without(s.lines, Replaced(entry)) = Without(t, Replaced(entry))

\* The three ways in which the scan changes the text leave the line at the end.
LEMMA BlankStays ==
    ASSUME NEW t, Blank(t)
    PROVE  /\ \A i \in 1 .. Len(t) : t[i] # "blank" => Blank(RemoveAt(t, i))
           /\ \A i \in 1 .. Len(t) : t[i] # "blank" => Blank([t EXCEPT ![i] = "timeout_10"])
           /\ \A i \in 1 .. Len(t) : \A x \in Line : Blank(InsertAt(t, i, x))
<1> DEFINE n == Len(t)
<1>1. t \in Seq(Line) /\ n \in Nat /\ 1 <= n /\ t[n] = "blank"
    BY DEF Blank
<1> HIDE DEF n
<1>2. ASSUME NEW i \in 1 .. n, t[i] # "blank"
      PROVE  Blank(RemoveAt(t, i)) /\ Blank([t EXCEPT ![i] = "timeout_10"])
  <2>1. i < n
    BY <1>1, <1>2
  <2>2. Blank(RemoveAt(t, i))
    <3> DEFINE u == RemoveAt(t, i)
    <3>1. u \in Seq(Line) /\ Len(u) = n - 1 /\ \A j \in i .. n - 1 : u[j] = t[j + 1]
      BY <1>1, TakeOut DEF n
    <3> HIDE DEF u
    <3>2. n - 1 \in i .. n - 1 /\ (n - 1) + 1 = n /\ n - 1 \in Nat \ {0}
      BY <1>1, <2>1
    <3>3. Blank(u)
      BY <1>1, <3>1, <3>2 DEF Blank
    <3> QED
      BY <3>3 DEF u
  <2>3. Blank([t EXCEPT ![i] = "timeout_10"])
    <3> DEFINE u == [t EXCEPT ![i] = "timeout_10"]
    <3>1. "timeout_10" \in Line
      BY DEF Line, Timeout
    <3>2. u \in Seq(Line) /\ Len(u) = n /\ \A j \in 1 .. n : u[j] = IF j = i THEN "timeout_10" ELSE t[j]
      BY <1>1, <3>1, ExceptSeq DEF n
    <3> HIDE DEF u
    <3>3. n \in 1 .. n /\ n # i
      BY <1>1, <2>1
    <3>4. Blank(u)
      BY <1>1, <3>2, <3>3 DEF Blank
    <3> QED
      BY <3>4 DEF u
  <2> QED
    BY <2>2, <2>3
<1>3. ASSUME NEW i \in 1 .. n, NEW x \in Line
      PROVE  Blank(InsertAt(t, i, x))
  <2> DEFINE u == InsertAt(t, i, x)
  <2>1. i \in 1 .. n + 1 /\ n \in i .. n
    BY <1>1
  <2>2. u \in Seq(Line) /\ Len(u) = n + 1 /\ \A j \in i .. n : u[j + 1] = t[j]
    BY <1>1, <2>1, PutIn DEF n
  <2> HIDE DEF u
  <2>3. Blank(u)
    BY <1>1, <2>1, <2>2 DEF Blank
  <2> QED
    BY <2>3 DEF u
<1> QED
    BY <1>2, <1>3 DEF n

\* A step of the scan keeps what the scan is not about.
LEMMA ScanKeeps ==
    ASSUME NEW s, NEW t, NEW entry \in Own, NEW i \in Nat \ {0}, Keeping(s, t, entry)
    PROVE  Keeping(Scan(s, i, entry), t, entry)
<1> DEFINE r == Scan(s, i, entry)
           u == s.lines
           K == Replaced(entry)
<1>1. s \in ScanState /\ Blank(u) /\ s.head < Len(u) /\ Without(u, K) = Without(t, K)
    BY Zenon DEF Keeping
<1>2. ScanStep(s, i, entry, r) /\ r \in ScanState
    BY <1>1, ScanCases, ScanTypes
<1>3. u \in Seq(Line) /\ Len(u) \in Nat \ {0} /\ u[Len(u)] = "blank" /\ s.head \in Nat
    BY <1>1 DEF Blank, ScanState
<1>4. /\ DOMAIN s = {"lines", "section", "head", "timed", "over"}
    BY <1>1 DEF ScanState
<1>5. entry \in Line /\ "timeout_10" \in Line /\ Timeout \subseteq K /\ entry \in K /\ "timeout_10" \in K
    BY OwnLines DEF Replaced, Timeout
<1>6. \A x \in Timeout : x # "blank"
    BY DEF Timeout
<1> HIDE DEF r, K, u
<1> SUFFICES Blank(r.lines) /\ r.head < Len(r.lines) /\ Without(r.lines, K) = Without(t, K)
    BY <1>2, Zenon DEF Keeping, r, K
<1>7. CASE r.lines = u /\ r.head = s.head
    BY <1>1, <1>7
<1>8. CASE r.lines = u /\ r.head = i /\ i <= Len(u) /\ u[i] = "boot_loader"
  <2>1. i # Len(u)
    BY <1>3, <1>8
  <2> QED
    BY <1>1, <1>3, <1>8, <2>1
<1>9. CASE i <= Len(u) /\ u[i] \in Timeout /\ s.head = 0 /\ r.lines = RemoveAt(u, i) /\ r.head = s.head
  <2>1. i \in 1 .. Len(u) /\ u[i] # "blank" /\ u[i] \in K
    BY <1>3, <1>5, <1>6, <1>9
  <2>2. Len(r.lines) = Len(u) - 1 /\ Without(r.lines, K) = Without(u, K)
    BY <1>3, <1>9, <2>1, TakeOut
  <2>3. Blank(r.lines)
    BY <1>1, <1>9, <2>1, BlankStays
  <2>4. Len(r.lines) \in Nat \ {0} /\ r.head = 0
    BY <1>9, <2>3, Zenon DEF Blank
  <2>5. r.head < Len(r.lines)
    BY <2>4
  <2> QED
    BY <1>1, <2>2, <2>3, <2>5
<1>10. CASE i <= Len(u) /\ u[i] \in Timeout /\ r.lines = [u EXCEPT ![i] = "timeout_10"] /\ r.head = s.head
  <2>1. i \in 1 .. Len(u) /\ u[i] # "blank" /\ u[i] \in K
    BY <1>3, <1>5, <1>6, <1>10
  <2>2. Len(r.lines) = Len(u)
    BY <1>3, <1>5, <1>10, <2>1, ExceptSeq
  <2>3. Without(r.lines, K) = Without(u, K)
    BY <1>3, <1>5, <1>10, <2>1, WriteOver
  <2>4. Blank(r.lines)
    BY <1>1, <1>10, <2>1, BlankStays
  <2> QED
    BY <1>1, <1>10, <2>2, <2>3, <2>4
<1>11. CASE i <= Len(u) /\ r.lines = InsertAt(u, i, entry) /\ r.head = s.head
  <2>1. i \in 1 .. Len(u) /\ i \in 1 .. Len(u) + 1
    BY <1>3, <1>11
  <2>2. Len(r.lines) = Len(u) + 1 /\ Without(r.lines, K) = Without(u, K)
    BY <1>3, <1>5, <1>11, <2>1, PutIn
  <2>3. Blank(r.lines)
    BY <1>1, <1>5, <1>11, <2>1, BlankStays
  <2> QED
    BY <1>1, <1>3, <1>11, <2>2, <2>3
<1>12. \/ r.lines = u /\ r.head = s.head
       \/ r.lines = u /\ r.head = i /\ i <= Len(u) /\ u[i] = "boot_loader"
       \/ i <= Len(u) /\ u[i] \in Timeout /\ s.head = 0 /\ r.lines = RemoveAt(u, i) /\ r.head = s.head
       \/ i <= Len(u) /\ u[i] \in Timeout /\ r.lines = [u EXCEPT ![i] = "timeout_10"] /\ r.head = s.head
       \/ i <= Len(u) /\ r.lines = InsertAt(u, i, entry) /\ r.head = s.head
  <2>1. CASE r = s
    BY <2>1 DEF u
  <2>2. CASE r = [s EXCEPT !.section = TRUE] \/ r = [s EXCEPT !.section = FALSE] \/ r = [s EXCEPT !.over = TRUE]
    BY <1>4, <2>2 DEF u
  <2>3. CASE Sees(s, i, "boot_loader") /\ r = [s EXCEPT !.head = i]
    BY <1>4, <2>3 DEF u, Sees
  <2>4. CASE Times(s, i) /\ s.head = 0 /\ r = [s EXCEPT !.lines = RemoveAt(@, i)]
    BY <1>4, <2>4 DEF u, Times
  <2>5. CASE Times(s, i) /\ r = [s EXCEPT !.lines[i] = "timeout_10", !.timed = TRUE]
    BY <1>4, <2>5 DEF u, Times
  <2>6. CASE Sees(s, i, "blank") /\ r = [s EXCEPT !.lines = InsertAt(@, i, entry), !.over = TRUE]
    BY <1>4, <2>6 DEF u, Sees
  <2> QED
    BY <1>2, <2>1, <2>2, <2>3, <2>4, <2>5, <2>6, Zenon DEF ScanStep
<1> QED
    BY <1>7, <1>8, <1>9, <1>10, <1>11, <1>12, Zenon

\* The scan of a whole text does.
LEMMA ScannedKeeps ==
    ASSUME NEW t, NEW entry \in Own, Blank(t)
    PROVE  Keeping(Scanned(t, entry), t, entry)
<1>1. t \in Seq(Line) /\ Len(t) \in Nat
    BY DEF Blank
<1>2. PICK f : Scanning(f, t, entry) /\ Scanned(t, entry) = f[Len(t)]
    BY <1>1, ScannedBy
<1> DEFINE P == {i \in Nat : i <= Len(t) => Keeping(f[i], t, entry)}
<1>3. 0 \in P
  <2>1. /\ ScanStart(t) \in ScanState /\ ScanStart(t).lines = t /\ ScanStart(t).head = 0
    BY <1>1 DEF ScanStart, ScanState
  <2>2. 0 < Len(t)
    BY DEF Blank
  <2>3. Keeping(ScanStart(t), t, entry)
    BY <2>1, <2>2 DEF Keeping
  <2> QED
    BY <1>2, <2>3 DEF Scanning
<1>4. ASSUME NEW i \in Nat, 0 <= i, i \in P
      PROVE  i + 1 \in P
  <2> SUFFICES ASSUME i + 1 <= Len(t)
               PROVE  Keeping(f[i + 1], t, entry)
    OBVIOUS
  <2>1. Keeping(f[i], t, entry) /\ i + 1 \in 1 .. Len(t) /\ i + 1 \in Nat \ {0} /\ (i + 1) - 1 = i
    BY <1>1, <1>4
  <2>2. f[i + 1] = Scan(f[i], i + 1, entry)
    BY <1>2, <2>1 DEF Scanning
  <2> QED
    BY <2>1, <2>2, ScanKeeps
<1> HIDE DEF P
<1>5. Len(t) \in P
    BY <1>1, <1>3, <1>4, Counting
<1> QED
    BY <1>1, <1>2, <1>5 DEF P

\* The text before the last, empty line is taken.
Rewritten(s) ==
    IF s.head = 0 THEN <<"boot_loader", "timeout_10">> \o s.lines
    ELSE IF ~s.timed THEN InsertAt(s.lines, s.head + 1, "timeout_10")
    ELSE s.lines

\* What is put in behind the loop concerns the other lines no more than the loop does.
LEMMA RewrittenKeeps ==
    ASSUME NEW s, NEW t, NEW entry, Keeping(s, t, entry)
    PROVE  /\ Blank(Rewritten(s))
           /\ Without(Rewritten(s), Replaced(entry)) = Without(t, Replaced(entry))
<1> DEFINE u == s.lines
           K == Replaced(entry)
           top == <<"boot_loader", "timeout_10">> \o u
           ins == InsertAt(u, s.head + 1, "timeout_10")
<1>1. s \in ScanState /\ Blank(u) /\ s.head < Len(u) /\ Without(u, K) = Without(t, K)
    BY Zenon DEF Keeping
<1>2. u \in Seq(Line) /\ Len(u) \in Nat \ {0} /\ u[Len(u)] = "blank" /\ s.head \in Nat
    BY <1>1 DEF Blank, ScanState
<1>3. {"boot_loader", "timeout_10"} \subseteq K /\ "timeout_10" \in Line
    BY OwnLines DEF Replaced, Timeout
<1>4. Rewritten(s) = IF s.head = 0 THEN top ELSE IF ~s.timed THEN ins ELSE u
    BY Zenon DEF Rewritten
<1> HIDE DEF u, K
<1>5. Blank(top) /\ Without(top, K) = Without(u, K)
  <2>1. /\ top \in Seq(Line) /\ Len(top) = Len(u) + 2
        /\ \A j \in 1 .. Len(u) : top[j + 2] = u[j]
        /\ \A kinds : {"boot_loader", "timeout_10"} \subseteq kinds => Without(top, kinds) = Without(u, kinds)
    BY <1>2, PutOnTop
  <2> HIDE DEF top
  <2>2. Len(u) \in 1 .. Len(u)
    BY <1>2
  <2> QED
    BY <1>2, <1>3, <2>1, <2>2 DEF Blank
<1>6. Blank(ins) /\ Without(ins, K) = Without(u, K)
  <2>1. s.head + 1 \in 1 .. Len(u) /\ s.head + 1 \in 1 .. Len(u) + 1
    BY <1>1, <1>2
  <2>2. Blank(ins)
    BY <1>1, <1>3, <2>1, BlankStays
  <2>3. "timeout_10" \in K
    BY <1>3
  <2>4. Without(ins, K) = Without(u, K)
    BY <1>2, <1>3, <2>1, <2>3, PutIn
  <2> QED
    BY <2>2, <2>4
<1> HIDE DEF top, ins
<1>7. Blank(Rewritten(s)) /\ Without(Rewritten(s), K) = Without(t, K)
    BY <1>1, <1>4, <1>5, <1>6, Zenon
<1> QED
    BY <1>7 DEF K

\* The empty line at the end is taken off and put back.
LEMMA LastOff ==
    ASSUME NEW t, Blank(t)
    PROVE  /\ Front(t) \in Seq(Line) /\ t = Append(Front(t), "blank")
           /\ \A kinds : "blank" \in kinds => Without(Front(t), kinds) = Without(t, kinds)
<1> DEFINE n == Len(t)
           a == Front(t)
<1>1. t \in Seq(Line) /\ n \in Nat \ {0} /\ t[n] = "blank"
    BY DEF Blank
<1>2. a = SubSeq(t, 1, n - 1)
    BY Zenon DEF Front
<1>3. a \in Seq(Line) /\ Len(a) = n - 1 /\ \A j \in 1 .. n - 1 : a[j] = t[j]
  <2>1. n \in 1 .. n + 1
    BY <1>1
  <2>2. /\ SubSeq(t, 1, n - 1) \in Seq(Line) /\ Len(SubSeq(t, 1, n - 1)) = n - 1
        /\ \A j \in 1 .. n - 1 : SubSeq(t, 1, n - 1)[j] = t[j]
    BY <1>1, <2>1, Sides
  <2> HIDE DEF n, a
  <2> QED
    BY <1>2, <2>2
<1> HIDE DEF a, n
<1>4. "blank" \in Line
    BY OwnLines
<1>5. t = Append(a, "blank")
  <2>1. /\ Append(a, "blank") \in Seq(Line) /\ Len(Append(a, "blank")) = n /\ Append(a, "blank")[n] = "blank"
        /\ \A j \in 1 .. n - 1 : Append(a, "blank")[j] = a[j]
    BY <1>1, <1>3, <1>4
  <2>2. ASSUME NEW j \in 1 .. n
        PROVE  t[j] = Append(a, "blank")[j]
    <3>1. j = n \/ j \in 1 .. n - 1
      BY <1>1
    <3> QED
      BY <1>1, <1>3, <2>1, <3>1
  <2> QED
    BY <1>1, <2>1, <2>2, SeqEqual DEF n
<1>6. ASSUME NEW kinds, "blank" \in kinds
      PROVE  Without(a, kinds) = Without(t, kinds)
    BY <1>3, <1>4, <1>5, <1>6, WithoutAppend
<1> QED
    BY <1>3, <1>5, <1>6 DEF a

\* The text that split gives has an empty line at its end.
LEMMA Ended ==
    ASSUME NEW t \in Seq(Line)
    PROVE  /\ Blank(Append(t, "blank"))
           /\ \A kinds : "blank" \in kinds => Without(Append(t, "blank"), kinds) = Without(t, kinds)
<1>1. "blank" \in Line
    BY OwnLines
<1>2. Len(t) \in Nat /\ Append(t, "blank") \in Seq(Line) /\ Len(Append(t, "blank")) = Len(t) + 1
      /\ Append(t, "blank")[Len(t) + 1] = "blank"
    BY <1>1, AppendProperties, LenProperties
<1>3. Blank(Append(t, "blank"))
    BY <1>2 DEF Blank
<1> QED
    BY <1>1, <1>3, WithoutAppend

\* modify_bootini keeps the lines it is not about, in their order.
LEMMA ModifiedKeeps ==
    ASSUME NEW t \in Seq(Line), NEW entry \in Own
    PROVE  /\ Modified(t, entry) \in Seq(Line)
           /\ Append(Modified(t, entry), "blank") = Rewritten(Scanned(Append(t, "blank"), entry))
           /\ Without(Modified(t, entry), Replaced(entry)) = Without(t, Replaced(entry))
<1> DEFINE x == Append(t, "blank")
           s == Scanned(x, entry)
           K == Replaced(entry)
<1>1. Blank(x) /\ Without(x, K) = Without(t, K)
    BY Ended DEF Replaced
<1>2. Modified(t, entry) = Front(Rewritten(s))
    BY Zenon DEF Modified, Rewritten
<1> HIDE DEF x, K
<1>3. Keeping(s, x, entry)
    BY <1>1, ScannedKeeps
<1> HIDE DEF s
<1>4. Blank(Rewritten(s)) /\ Without(Rewritten(s), K) = Without(x, K)
    BY <1>3, RewrittenKeeps DEF K
<1>5. "blank" \in K
    BY DEF K, Replaced
<1>6. /\ Front(Rewritten(s)) \in Seq(Line)
      /\ Rewritten(s) = Append(Front(Rewritten(s)), "blank")
      /\ Without(Front(Rewritten(s)), K) = Without(Rewritten(s), K)
    BY <1>4, <1>5, LastOff
<1> QED
    BY <1>1, <1>2, <1>4, <1>6 DEF x, s, K

-----------------------------------------------------------------------------
(* The lines of a text                                                      *)

Occurs(l, text) == \E i \in DOMAIN text : text[i] = l

\* A line occurs among those that are left if it did and is not of the kinds left out.
LEMMA OccursWithout ==
    ASSUME NEW t \in Seq(Line), NEW kinds, NEW l
    PROVE  Occurs(l, Without(t, kinds)) <=> Occurs(l, t) /\ l \notin kinds
<1> DEFINE w == Without(t, kinds)
<1>1. PICK g : Within(g, w, t, kinds)
    BY WithoutKeeps
<1>2. w \in Seq(Line) /\ DOMAIN w = 1 .. Len(w) /\ DOMAIN t = 1 .. Len(t)
    BY WithoutIsText, LenProperties
<1> HIDE DEF w
<1>3. /\ \A k \in 1 .. Len(w) : g[k] \in 1 .. Len(t) /\ w[k] = t[g[k]] /\ w[k] \notin kinds
      /\ \A i \in 1 .. Len(t) : t[i] \notin kinds => \E k \in 1 .. Len(w) : g[k] = i
    BY <1>1 DEF Within
<1>4. ASSUME NEW k \in 1 .. Len(w), w[k] = l
      PROVE  (\E i \in 1 .. Len(t) : t[i] = l) /\ l \notin kinds
    BY <1>3, <1>4
<1>5. ASSUME NEW i \in 1 .. Len(t), t[i] = l, l \notin kinds
      PROVE  \E k \in 1 .. Len(w) : w[k] = l
    BY <1>3, <1>5
<1>6. Occurs(l, w) <=> Occurs(l, t) /\ l \notin kinds
    BY <1>2, <1>4, <1>5, Zenon DEF Occurs
<1> QED
    BY <1>6 DEF w

\* remove_line_in_file takes out one entry.
LEMMA RemovedOccurs ==
    ASSUME NEW t \in Seq(Line), NEW entry
    PROVE  /\ Removed(t, entry) \in Seq(Line)
           /\ \A l : Occurs(l, Removed(t, entry)) <=> Occurs(l, t) /\ l # entry
<1>1. Removed(t, entry) = Without(t, {entry})
    BY DEF Removed
<1>2. \A l : Occurs(l, Without(t, {entry})) <=> Occurs(l, t) /\ l \notin {entry}
    BY OccursWithout
<1>3. Without(t, {entry}) \in Seq(Line)
    BY WithoutIsText
<1> QED
    BY <1>1, <1>2, <1>3

\* modify_bootini changes nothing about our other entry.
LEMMA ModifiedOccurs ==
    ASSUME NEW t \in Seq(Line), NEW entry \in Own, NEW l \in Own, l # entry
    PROVE  Occurs(l, Modified(t, entry)) <=> Occurs(l, t)
<1>1. l \notin Replaced(entry)
    BY DEF Own, Timeout, Replaced
<1>2. /\ Modified(t, entry) \in Seq(Line)
      /\ Without(Modified(t, entry), Replaced(entry)) = Without(t, Replaced(entry))
    BY ModifiedKeeps
<1>3. Occurs(l, Without(Modified(t, entry), Replaced(entry))) <=> Occurs(l, Modified(t, entry))
    BY <1>1, <1>2, OccursWithout
<1>4. Occurs(l, Without(t, Replaced(entry))) <=> Occurs(l, t)
    BY <1>1, OccursWithout
<1> QED
    BY <1>2, <1>3, <1>4

\* The beginning of a file that was cut short has no line that the file would not have had.
LEMMA OccursBefore ==
    ASSUME NEW t \in Seq(Line), NEW n \in 0 .. Len(t), NEW l
    PROVE  SubSeq(t, 1, n) \in Seq(Line) /\ (Occurs(l, SubSeq(t, 1, n)) => Occurs(l, t))
<1> DEFINE u == SubSeq(t, 1, n)
<1>1. Len(t) \in Nat /\ n + 1 \in 1 .. Len(t) + 1 /\ (n + 1) - 1 = n /\ DOMAIN t = 1 .. Len(t)
    BY LenProperties
<1>2. u \in Seq(Line) /\ Len(u) = n /\ \A j \in 1 .. n : u[j] = t[j]
    BY <1>1, Sides
<1>3. DOMAIN u = 1 .. n
    BY <1>2, LenProperties
<1> HIDE DEF u
<1>4. \A j \in 1 .. n : j \in 1 .. Len(t)
    BY <1>1
<1>5. Occurs(l, u) => Occurs(l, t)
    BY <1>1, <1>2, <1>3, <1>4, Zenon DEF Occurs
<1> QED
    BY <1>2, <1>5 DEF u

-----------------------------------------------------------------------------
(* Where a list of tasks is                                                 *)

\* The steps of an installation; the other lists are the end and the start of it.
Plan(entry) ==
    << Step("free", "boot.ini"), Step("remove", "loop"), Step("remove", "livecd"), Step("guard", "boot.ini"),
       Step("free", "yldr"), Step("unlink", "yldr"), Step("free", "yldr.mbr"), Step("unlink", "yldr.mbr"),
       Step("free", "yldrd"), Step("unlink", "yldrd"), Step("free", "yldrd.mbr"), Step("unlink", "yldrd.mbr"),
       Step("copy", Loader(entry)), Step("guard", Loader(entry)), Step("copy", Mbr(entry)),
       Step("guard", Mbr(entry)), Step("free", "boot.ini"), Step("add", entry), Step("guard", "boot.ini") >>
Begin(t) == IF t.run = "cd_boot" THEN 12 ELSE 0
End(t) == IF t.run = "uninstall" THEN 12 ELSE 19

\* What is left of a list when p steps of the plan are behind it.
Rest(t, p) == [i \in 1 .. (End(t) - p) |-> Plan(t.entry)[p + i]]

\* a has the first elements of c and b the others.
Halves(S, a, b, c, n, m) ==
    /\ a \in [1 .. n -> S] /\ b \in [1 .. m -> S] /\ c \in [1 .. n + m -> S]
    /\ \A i \in 1 .. n : a[i] = c[i]
    /\ \A i \in 1 .. m : b[i] = c[n + i]

\* A sequence is its first elements and then the others.
LEMMA TwoParts ==
    ASSUME NEW S, NEW n \in Nat, NEW m \in Nat, NEW a, NEW b, NEW c, Halves(S, a, b, c, n, m)
    PROVE  a \o b = c
<1>1. a \in Seq(S) /\ Len(a) = n
    BY DEF Halves
<1>2. b \in Seq(S) /\ Len(b) = m
    BY DEF Halves
<1>3. c \in Seq(S) /\ Len(c) = n + m
    BY DEF Halves
<1>4. (\A i \in 1 .. n : a[i] = c[i]) /\ (\A i \in 1 .. m : b[i] = c[n + i])
    BY DEF Halves
<1>5. /\ a \o b \in Seq(S) /\ Len(a \o b) = n + m
      /\ \A i \in 1 .. n + m : (a \o b)[i] = IF i <= n THEN a[i] ELSE b[i - n]
    BY <1>1, <1>2, ConcatProperties
<1>6. ASSUME NEW i \in 1 .. n + m
      PROVE  (a \o b)[i] = c[i]
  <2>1. CASE i <= n
    <3>1. i \in 1 .. n
      BY <2>1
    <3> QED
      BY <1>4, <1>5, <2>1, <3>1
  <2>2. CASE ~(i <= n)
    <3>1. i - n \in 1 .. m /\ n + (i - n) = i
      BY <2>2
    <3> QED
      BY <1>4, <1>5, <2>2, <3>1
  <2> QED
    BY <2>1, <2>2
<1> QED
    BY <1>3, <1>5, <1>6, SeqEqual

\* Every list of tasks is a part of the plan.
LEMMA ListIsRest == \A t \in Tasks : StepsOf(t) = Rest(t, Begin(t))
<1> SUFFICES ASSUME NEW t \in Tasks PROVE StepsOf(t) = Rest(t, Begin(t))
    OBVIOUS
<1>1. CASE t.run = "install"
  <2>1. StepsOf(t) = (UndoMenu \o Unlinks) \o ModifySteps(t.entry) /\ End(t) = 19 /\ Begin(t) = 0
    BY <1>1 DEF StepsOf, UndoSteps, End, Begin
  <2>2. (UndoMenu \o Unlinks) \o ModifySteps(t.entry) = Plan(t.entry)
    <3> DEFINE undo == UndoMenu \o Unlinks
               steps == ModifySteps(t.entry)
               plan == Plan(t.entry)
    <3>1. /\ undo = [i \in 1 .. 12 |-> plan[i]] /\ steps = [i \in 1 .. 7 |-> plan[12 + i]]
          /\ plan = [i \in 1 .. 19 |-> plan[i]]
      BY DEF UndoMenu, Unlinks, ModifySteps, Plan
    <3> HIDE DEF undo, steps, plan
    <3>2. PICK n \in Nat, m \in Nat : n = 12 /\ m = 7
      OBVIOUS
    <3> DEFINE S == {plan[i] : i \in 1 .. n + m}
    <3>3. /\ undo = [i \in 1 .. n |-> plan[i]] /\ steps = [i \in 1 .. m |-> plan[n + i]]
          /\ plan = [i \in 1 .. n + m |-> plan[i]]
      BY <3>1, <3>2
    <3>4. /\ \A i \in 1 .. n + m : plan[i] \in S
          /\ \A i \in 1 .. n : i \in 1 .. n + m
          /\ \A i \in 1 .. m : n + i \in 1 .. n + m
      OBVIOUS
    <3> HIDE DEF S
    <3>5. undo \in [1 .. n -> S] /\ steps \in [1 .. m -> S] /\ plan \in [1 .. n + m -> S]
      BY <3>3, <3>4
    <3>6. (\A i \in 1 .. n : undo[i] = plan[i]) /\ (\A i \in 1 .. m : steps[i] = plan[n + i])
      BY <3>3
    <3>7. Halves(S, undo, steps, plan, n, m)
      BY <3>5, <3>6, Zenon DEF Halves
    <3>8. undo \o steps = plan
      BY <3>7, TwoParts
    <3> QED
      BY <3>8 DEF undo, steps, plan
  <2>3. Rest(t, 0) = Plan(t.entry)
    BY <2>1 DEF Rest, Plan
  <2> QED
    BY <2>1, <2>2, <2>3
<1>2. CASE t.run = "cd_boot"
  <2>1. t.entry = "livecd"
    BY <1>2 DEF Tasks
  <2>2. StepsOf(t) = ModifySteps("livecd") /\ End(t) = 19 /\ Begin(t) = 12
    BY <1>2 DEF StepsOf, End, Begin
  <2>3. Rest(t, 12) = ModifySteps("livecd")
    BY <2>1, <2>2 DEF Rest, Plan, ModifySteps
  <2> QED
    BY <2>2, <2>3
<1>3. CASE t.run = "uninstall"
  <2>1. StepsOf(t) = UndoMenu \o Unlinks /\ End(t) = 12 /\ Begin(t) = 0
    BY <1>3 DEF StepsOf, UndoSteps, End, Begin
  <2>2. Rest(t, 0) = UndoMenu \o Unlinks
    BY <2>1 DEF Rest, Plan, UndoMenu, Unlinks
  <2> QED
    BY <2>1, <2>2
<1> QED
    BY <1>1, <1>2, <1>3 DEF Tasks

Place == End(task) - Len(todo)

\* Both boot loader files of entry l are there to stay.
Kept(l) ==
    /\ file[Loader(l)] = "whole" /\ Loader(l) \in guarded
    /\ file[Mbr(l)] = "whole" /\ Mbr(l) \in guarded

Texts ==
    /\ lines \in Seq(Line) /\ pending \in Seq(Line) \cup {None}
    /\ torn \in BOOLEAN /\ complete \in BOOLEAN
    /\ file \in [Files -> {"none", "partial", "whole"}]
    /\ pending # None => lines = <<>>
\* The running list is at its place.
Listing ==
    /\ task \in Tasks \/ (todo = <<>> /\ ~complete)
    /\ todo = <<>> => pending = None
    /\ complete => todo = <<>>
    /\ todo # <<>> => todo = Rest(task, Place) /\ Place \in Begin(task) .. (End(task) - 1)
\* The files of the list's own entry, before it is added.
Ready(p) ==
    /\ p \in 13 .. 18 => file[Loader(task.entry)] = "whole"
    /\ p \in 14 .. 18 => Loader(task.entry) \in guarded
    /\ p \in 15 .. 18 => file[Mbr(task.entry)] = "whole"
    /\ p \in 16 .. 18 => Mbr(task.entry) \in guarded
\* The entries that boot.ini does not have.
Clear(p) ==
    /\ task.run # "cd_boot" /\ p \in 2 .. 17 => ~Occurs("loop", lines)
    /\ task.run # "cd_boot" /\ p \in 3 .. 17 => ~Occurs("livecd", lines)
    /\ p \in 13 .. 17 => ~Occurs(task.entry, lines)
\* What a rewrite is about to leave.
Rewriting(p) ==
    \/ p = 1 /\ ~Occurs("loop", pending)
    \/ p = 2 /\ ~Occurs("loop", pending) /\ ~Occurs("livecd", pending)
    \/ p = 17
Loading ==
    /\ \A l \in Own : Occurs(l, Shown) => Kept(l)
    /\ todo # <<>> => Ready(Place)
    /\ todo # <<>> /\ pending = None => Clear(Place)
    /\ pending # None => Rewriting(Place)
LoaderInv == Texts /\ Listing /\ Loading

-----------------------------------------------------------------------------

\* Where in the plan a step of each kind stands, and what it is about.
LEMMA PlanKinds ==
    ASSUME NEW e, NEW q \in 1 .. 19
    PROVE  /\ Plan(e)[q].do = "free" =>
                  \/ q \in {1, 17} /\ Plan(e)[q].what = "boot.ini"
                  \/ q \in {5, 7, 9, 11} /\ Plan(e)[q].what \in Files
           /\ Plan(e)[q].do = "guard" =>
                  \/ q \in {4, 19} /\ Plan(e)[q].what = "boot.ini"
                  \/ q = 14 /\ Plan(e)[q].what = Loader(e)
                  \/ q = 16 /\ Plan(e)[q].what = Mbr(e)
           /\ Plan(e)[q].do = "unlink" => q \in {6, 8, 10, 12} /\ Plan(e)[q].what \in Files
           /\ Plan(e)[q].do = "copy" =>
                  \/ q = 13 /\ Plan(e)[q].what = Loader(e)
                  \/ q = 15 /\ Plan(e)[q].what = Mbr(e)
           /\ Plan(e)[q].do = "add" => q = 18 /\ Plan(e)[q].what = e
           /\ Plan(e)[q].do = "remove" =>
                  \/ q = 2 /\ Plan(e)[q].what = "loop"
                  \/ q = 3 /\ Plan(e)[q].what = "livecd"
<1>1. /\ Plan(e)[1] = Step("free", "boot.ini") /\ Plan(e)[2] = Step("remove", "loop")
      /\ Plan(e)[3] = Step("remove", "livecd") /\ Plan(e)[4] = Step("guard", "boot.ini")
      /\ Plan(e)[5] = Step("free", "yldr") /\ Plan(e)[6] = Step("unlink", "yldr")
      /\ Plan(e)[7] = Step("free", "yldr.mbr") /\ Plan(e)[8] = Step("unlink", "yldr.mbr")
      /\ Plan(e)[9] = Step("free", "yldrd") /\ Plan(e)[10] = Step("unlink", "yldrd")
      /\ Plan(e)[11] = Step("free", "yldrd.mbr") /\ Plan(e)[12] = Step("unlink", "yldrd.mbr")
      /\ Plan(e)[13] = Step("copy", Loader(e)) /\ Plan(e)[14] = Step("guard", Loader(e))
      /\ Plan(e)[15] = Step("copy", Mbr(e)) /\ Plan(e)[16] = Step("guard", Mbr(e))
      /\ Plan(e)[17] = Step("free", "boot.ini") /\ Plan(e)[18] = Step("add", e)
      /\ Plan(e)[19] = Step("guard", "boot.ini")
    BY DEF Plan
<1>2. \A a, b : Step(a, b).do = a /\ Step(a, b).what = b
    BY DEF Step
<1>3. {"yldr", "yldr.mbr", "yldrd", "yldrd.mbr"} \subseteq Files
    BY DEF Files
<1>4. \/ q = 1 \/ q = 2 \/ q = 3 \/ q = 4 \/ q = 5 \/ q = 6 \/ q = 7 \/ q = 8 \/ q = 9 \/ q = 10
      \/ q = 11 \/ q = 12 \/ q = 13 \/ q = 14 \/ q = 15 \/ q = 16 \/ q = 17 \/ q = 18 \/ q = 19
    OBVIOUS
<1> QED
    BY <1>1, <1>2, <1>3, <1>4

\* The first step of what is left of a list, and what is left behind it.
LEMMA RestGoesOn ==
    ASSUME NEW t \in Tasks, NEW p \in 0 .. (End(t) - 1)
    PROVE  /\ Rest(t, p) # <<>> /\ Rest(t, p)[1] = Plan(t.entry)[p + 1]
           /\ Tail(Rest(t, p)) = Rest(t, p + 1) /\ Len(Rest(t, p + 1)) = End(t) - (p + 1)
           /\ Len(Rest(t, p)) = End(t) - p
<1> DEFINE n == End(t)
           a == Rest(t, p)
           b == Rest(t, p + 1)
           S == {Plan(t.entry)[i] : i \in 1 .. n}
<1>1. n \in Nat /\ n - p \in Nat \ {0} /\ n - (p + 1) \in Nat /\ p \in Nat
    BY DEF End
<1>2. a = [i \in 1 .. n - p |-> Plan(t.entry)[p + i]] /\ b = [i \in 1 .. n - (p + 1) |-> Plan(t.entry)[p + 1 + i]]
    BY Zenon DEF Rest
<1>3. \A i \in 1 .. n : Plan(t.entry)[i] \in S
    OBVIOUS
<1> HIDE DEF n, a, b, S
<1>4. (\A i \in 1 .. n - p : p + i \in 1 .. n) /\ (\A i \in 1 .. n - (p + 1) : p + 1 + i \in 1 .. n)
    BY <1>1
<1>5. a \in [1 .. n - p -> S] /\ b \in [1 .. n - (p + 1) -> S]
    BY <1>2, <1>3, <1>4
<1>6. a \in Seq(S) /\ Len(a) = n - p
    BY <1>1, <1>5
<1>7. b \in Seq(S) /\ Len(b) = n - (p + 1)
    BY <1>1, <1>5
<1>8. a # <<>> /\ 1 \in 1 .. n - p
    BY <1>1, <1>6
<1>9. a[1] = Plan(t.entry)[p + 1]
    BY <1>2, <1>8
<1>10. /\ Tail(a) \in Seq(S) /\ Len(Tail(a)) = n - (p + 1)
       /\ \A i \in 1 .. n - (p + 1) : Tail(a)[i] = a[i + 1]
  <2>1. Tail(a) \in Seq(S) /\ Len(Tail(a)) = Len(a) - 1 /\ \A i \in 1 .. Len(a) - 1 : Tail(a)[i] = a[i + 1]
    BY <1>6, <1>8
  <2>2. Len(a) - 1 = n - (p + 1)
    BY <1>1, <1>6
  <2> QED
    BY <2>1, <2>2
<1>11. ASSUME NEW i \in 1 .. n - (p + 1)
       PROVE  Tail(a)[i] = b[i]
  <2>1. i + 1 \in 1 .. n - p /\ p + (i + 1) = p + 1 + i
    BY <1>1
  <2>2. a[i + 1] = Plan(t.entry)[p + (i + 1)]
    BY <1>2, <2>1
  <2>3. b[i] = Plan(t.entry)[p + 1 + i]
    BY <1>2
  <2> QED
    BY <1>10, <2>1, <2>2, <2>3
<1>12. Tail(a) = b
    BY <1>7, <1>10, <1>11, SeqEqual
<1> QED
    BY <1>6, <1>7, <1>8, <1>9, <1>12 DEF n, a, b

\* Where the next step stands.
LEMMA NextStep ==
    ASSUME Listing, todo # <<>>
    PROVE  /\ task \in Tasks /\ Place \in 0 .. 18 /\ Place + 1 \in 1 .. 19
           /\ Place + 1 <= End(task) /\ Begin(task) <= Place
           /\ todo[1] = Plan(task.entry)[Place + 1]
           /\ Len(todo) = End(task) - Place
           /\ Tail(todo) = Rest(task, Place + 1) /\ Len(Tail(todo)) = End(task) - (Place + 1)
<1>1. task \in Tasks /\ todo = Rest(task, Place) /\ Place \in Begin(task) .. (End(task) - 1)
    BY DEF Listing
<1>2. Begin(task) \in {0, 12} /\ End(task) \in {12, 19}
    BY DEF Begin, End
<1> DEFINE p == Place
<1> HIDE DEF p
<1>3. p \in 0 .. (End(task) - 1) /\ p \in 0 .. 18 /\ Begin(task) <= p /\ p + 1 \in 1 .. 19 /\ p + 1 <= End(task)
    BY <1>1, <1>2 DEF p
<1>4. /\ Rest(task, p)[1] = Plan(task.entry)[p + 1]
      /\ Tail(Rest(task, p)) = Rest(task, p + 1) /\ Len(Rest(task, p + 1)) = End(task) - (p + 1)
      /\ Len(Rest(task, p)) = End(task) - p
    BY <1>1, <1>3, RestGoesOn
<1> QED
    BY <1>1, <1>3, <1>4 DEF p

\* A step is done.
LEMMA ListingGoesOn ==
    ASSUME Listing, todo # <<>>, Done, pending' = None
    PROVE  /\ Listing' /\ Place' = Place + 1 /\ task' = task
           /\ todo' # <<>> => Place + 1 < End(task)
<1> DEFINE p == Place
           n == Len(Tail(todo))
<1>1. /\ task \in Tasks /\ p \in 0 .. 18 /\ p + 1 <= End(task) /\ Begin(task) <= p
      /\ Tail(todo) = Rest(task, p + 1) /\ n = End(task) - (p + 1)
    BY NextStep
<1>2. todo' = Tail(todo) /\ task' = task /\ complete' = (Tail(todo) = <<>>)
    BY DEF Done
<1>3. Begin(task) \in {0, 12} /\ End(task) \in {12, 19} /\ Begin(task)' = Begin(task) /\ End(task)' = End(task)
    BY <1>2 DEF Begin, End
<1>4. Place' = End(task) - n
    BY <1>2, <1>3 DEF Place
<1> HIDE DEF p, n
<1>5. Place' = p + 1
    BY <1>1, <1>3, <1>4
<1>6. Rest(task, Place)' = Rest(task, p + 1)
    BY <1>2, <1>3, <1>5 DEF Rest
<1>7. ASSUME todo' # <<>>
      PROVE  p + 1 < End(task)
  <2>1. n # 0
    <3>1. CASE p + 1 = End(task)
      <4>1. Rest(task, p + 1) = <<>>
        BY <1>1, <1>3, <3>1 DEF Rest
      <4> QED
        BY <1>1, <1>2, <1>7, <4>1
    <3>2. CASE p + 1 # End(task)
      BY <1>1, <1>3, <3>2
    <3> QED
      BY <3>1, <3>2
  <2> QED
    BY <1>1, <1>3, <2>1
<1>8. Listing'
  <2>1. todo' # <<>> => todo' = Rest(task, Place)' /\ Place' \in Begin(task)' .. (End(task)' - 1)
    BY <1>1, <1>2, <1>3, <1>5, <1>6, <1>7
  <2> QED
    BY <1>1, <1>2, <2>1 DEF Listing
<1> QED
    BY <1>2, <1>5, <1>7, <1>8 DEF p

\* The boot loader files of an entry.
LEMMA FileNames ==
    ASSUME NEW l
    PROVE  /\ Loader(l) \in Files /\ Mbr(l) \in Files
           /\ Loader(l) # "boot.ini" /\ Mbr(l) # "boot.ini"
           /\ \A k : Loader(k) # Mbr(l)
    BY DEF Loader, Mbr, Files

\* The list that stands at the steps of the removal, or of the installation.
LEMMA WhichList ==
    ASSUME Listing, todo # <<>>
    PROVE  /\ Place < 12 => task.run # "cd_boot"
           /\ Place >= 12 => task.entry \in Own
<1>1. task \in Tasks /\ Place \in 0 .. 18 /\ Place + 1 <= End(task) /\ Begin(task) <= Place
    BY NextStep
<1>2. task.run \in {"install", "cd_boot"} => task.entry \in Own
    BY <1>1 DEF Tasks, Own
<1>3. task.run \in {"install", "cd_boot", "uninstall"}
    BY <1>1 DEF Tasks
<1> HIDE DEF Place
<1>4. task.run = "cd_boot" => Begin(task) = 12
    BY DEF Begin
<1>5. task.run = "uninstall" => End(task) = 12
    BY DEF End
<1> QED
    BY <1>1, <1>2, <1>3, <1>4, <1>5

\* The first boot.ini has no entry of ours, and no list runs.
LEMMA InitLoads == Init => LoaderInv
<1> SUFFICES ASSUME Init PROVE LoaderInv
    OBVIOUS
<1>1. lines \in Seq(Line) /\ \A i \in DOMAIN lines : lines[i] \notin Own
    BY ContentsAssumption DEF Init
<1>2. \A l \in Own : ~Occurs(l, lines)
    BY <1>1 DEF Occurs
<1>3. Shown = lines
    BY DEF Init, Shown
<1>4. Texts
    BY <1>1 DEF Init, Texts
<1>5. Listing
    BY DEF Init, Listing
<1> QED
    BY <1>2, <1>3, <1>4, <1>5 DEF Init, Loading, LoaderInv

\* A list begins at its place in the plan.
LEMMA StartLoads ==
    ASSUME LoaderInv, NEW t \in Tasks, Start(t)
    PROVE  LoaderInv'
<1>1. Texts /\ Listing /\ Loading
    BY DEF LoaderInv
<1>2. /\ todo = <<>> /\ task' = t /\ todo' = StepsOf(t) /\ complete' = FALSE
      /\ lines' = lines /\ pending' = pending /\ torn' = torn /\ file' = file /\ guarded' = guarded
    BY DEF Start
<1>3. pending = None
    BY <1>1, <1>2 DEF Listing
<1> DEFINE b == Begin(t)
           n == End(t)
<1>4. b \in {0, 12} /\ n \in {12, 19} /\ b \in 0 .. (n - 1) /\ b \in b .. (n - 1)
    BY DEF Begin, End, Tasks
<1>5. b = 12 => t.run = "cd_boot"
    BY DEF Begin
<1>6. Begin(task)' = b /\ End(task)' = n
    BY <1>2 DEF Begin, End
<1>7. todo' = Rest(t, b) /\ Len(Rest(t, b)) = n - b
    BY <1>2, <1>4, ListIsRest, RestGoesOn
<1>8. Place' = End(task)' - Len(todo')
    BY DEF Place
<1> HIDE DEF b, n
<1>9. Place' = b
    BY <1>4, <1>6, <1>7, <1>8
<1>10. Rest(task, Place)' = Rest(t, b)
    BY <1>2, <1>9 DEF Rest, End
<1>11. Listing'
    BY <1>2, <1>3, <1>4, <1>6, <1>7, <1>9, <1>10 DEF Listing
<1>12. Texts'
    BY <1>1, <1>2 DEF Texts
<1>13. Shown' = Shown /\ \A l \in Own : Kept(l) => Kept(l)'
    BY <1>2 DEF Shown, Kept
<1>14. Ready(Place)'
    BY <1>4, <1>9 DEF Ready
<1>15. Clear(Place)'
    BY <1>2, <1>4, <1>5, <1>9 DEF Clear
<1>16. Loading'
    BY <1>1, <1>2, <1>3, <1>13, <1>14, <1>15 DEF Loading, Occurs
<1> QED
    BY <1>11, <1>12, <1>16 DEF LoaderInv

\* A step that leaves boot.ini alone, neither removes an entry nor ends a copy.
LEMMA ClearGoesOn ==
    ASSUME NEW p \in 0 .. 18, Clear(p), p + 1 \notin {2, 3, 13}, lines' = lines, task' = task, Place' = p + 1
    PROVE  Clear(Place)'
<1>1. /\ p + 1 \in 2 .. 17 => p \in 2 .. 17
      /\ p + 1 \in 3 .. 17 => p \in 3 .. 17
      /\ p + 1 \in 13 .. 17 => p \in 13 .. 17
    OBVIOUS
<1> QED
    BY <1>1 DEF Clear, Occurs

\* The step that is done.
At(p) ==
    /\ p = Place /\ p \in 0 .. 18 /\ p + 1 \in 1 .. 19 /\ p + 1 <= End(task)
    /\ todo[1] = Plan(task.entry)[p + 1]
    /\ p < 12 => task.run # "cd_boot"
    /\ p >= 12 => task.entry \in Own

\* A list that runs stands before a step of the plan.
LEMMA Stands == Listing /\ todo # <<>> => At(Place)
    BY NextStep, WhichList DEF At

\* A boot loader file is freed when no entry is left that uses it.
LEMMA FreeLoads ==
    ASSUME LoaderInv, Free
    PROVE  LoaderInv'
<1>1. Texts /\ Listing /\ Loading
    BY DEF LoaderInv
<1>2. /\ todo # <<>> /\ pending = None /\ todo[1].do = "free" /\ Done
      /\ guarded' = guarded \ {todo[1].what}
      /\ lines' = lines /\ pending' = pending /\ torn' = torn /\ file' = file
    BY DEF Free, Doing, What
<1>3. Listing' /\ Place' = Place + 1 /\ task' = task
    BY <1>1, <1>2, ListingGoesOn
<1>4. At(Place)
    BY <1>1, <1>2, Stands
<1> DEFINE p == Place
           e == task.entry
<1>5. \/ p + 1 \in {1, 17} /\ todo[1].what = "boot.ini"
      \/ p + 1 \in {5, 7, 9, 11} /\ todo[1].what \in Files
    BY <1>2, <1>4, PlanKinds DEF At
<1>6. p \in 0 .. 18 /\ Ready(p) /\ Clear(p) /\ Place' = p + 1 /\ (p < 12 => task.run # "cd_boot")
    BY <1>1, <1>2, <1>3, <1>4 DEF Loading, At
<1> HIDE DEF p
<1>7. Clear(Place)'
    BY <1>2, <1>3, <1>5, <1>6, ClearGoesOn
<1>8. Texts'
    BY <1>1, <1>2, <1>3 DEF Texts, Done, Listing
<1>9. Shown' = Shown /\ Shown = lines
    BY <1>2 DEF Shown
<1>10. ASSUME NEW l \in Own, Occurs(l, Shown)
       PROVE  Kept(l)'
  <2>1. CASE todo[1].what = "boot.ini"
    BY <1>1, <1>2, <1>10, <2>1, FileNames DEF Kept, Loading
  <2>2. CASE p + 1 \in {5, 7, 9, 11}
    <3>1. p \in 3 .. 17 /\ p \in 2 .. 17 /\ p < 12
      BY <1>6, <2>2
    <3>2. ~Occurs("loop", lines) /\ ~Occurs("livecd", lines)
      BY <1>6, <3>1, Zenon DEF Clear
    <3> QED
      BY <1>9, <1>10, <3>2 DEF Own
  <2> QED
    BY <1>5, <2>1, <2>2
<1>11. Ready(Place)'
  <2>1. CASE p + 1 = 17 /\ todo[1].what = "boot.ini"
    <3>1. Ready(16)
      BY <1>6, <2>1
    <3> QED
      BY <1>2, <1>3, <1>6, <2>1, <3>1, FileNames DEF Ready
  <2>2. CASE p + 1 < 13
    BY <1>6, <2>2 DEF Ready
  <2> QED
    BY <1>5, <2>1, <2>2
<1>12. Loading'
    BY <1>2, <1>7, <1>9, <1>10, <1>11 DEF Loading, Occurs
<1> QED
    BY <1>3, <1>8, <1>12 DEF LoaderInv

\* A file is guarded behind its copy.
LEMMA GuardLoads ==
    ASSUME LoaderInv, Guard
    PROVE  LoaderInv'
<1>1. Texts /\ Listing /\ Loading
    BY DEF LoaderInv
<1>2. /\ todo # <<>> /\ pending = None /\ todo[1].do = "guard" /\ Done
      /\ guarded' = guarded \cup {todo[1].what}
      /\ lines' = lines /\ pending' = pending /\ torn' = torn /\ file' = file
    BY DEF Guard, Doing, What
<1>3. Listing' /\ Place' = Place + 1 /\ task' = task
    BY <1>1, <1>2, ListingGoesOn
<1>4. At(Place)
    BY <1>1, <1>2, Stands
<1> DEFINE p == Place
<1>5. \/ p + 1 \in {4, 19} /\ todo[1].what = "boot.ini"
      \/ p + 1 = 14 /\ todo[1].what = Loader(task.entry)
      \/ p + 1 = 16 /\ todo[1].what = Mbr(task.entry)
    BY <1>2, <1>4, PlanKinds DEF At
<1>6. p \in 0 .. 18 /\ Ready(p) /\ Clear(p) /\ Place' = p + 1
    BY <1>1, <1>2, <1>3, <1>4 DEF Loading, At
<1> HIDE DEF p
<1>7. Clear(Place)'
    BY <1>2, <1>3, <1>5, <1>6, ClearGoesOn
<1>8. Texts'
    BY <1>1, <1>2, <1>3 DEF Texts, Done, Listing
<1>9. Shown' = Shown /\ Shown = lines
    BY <1>2 DEF Shown
<1>10. ASSUME NEW l \in Own, Occurs(l, Shown)
       PROVE  Kept(l)'
    BY <1>1, <1>2, <1>10 DEF Kept, Loading
<1>11. Ready(Place)'
  <2>1. CASE p + 1 = 14 /\ todo[1].what = Loader(task.entry)
    <3>1. Ready(13)
      BY <1>6, <2>1
    <3> QED
      BY <1>2, <1>3, <1>6, <2>1, <3>1 DEF Ready
  <2>2. CASE p + 1 = 16 /\ todo[1].what = Mbr(task.entry)
    <3>1. Ready(15)
      BY <1>6, <2>2
    <3> QED
      BY <1>2, <1>3, <1>6, <2>2, <3>1 DEF Ready
  <2>3. CASE p + 1 \in {4, 19}
    BY <1>6, <2>3 DEF Ready
  <2> QED
    BY <1>5, <2>1, <2>2, <2>3
<1>12. Loading'
    BY <1>2, <1>7, <1>9, <1>10, <1>11 DEF Loading, Occurs
<1> QED
    BY <1>3, <1>8, <1>12 DEF LoaderInv

\* A boot loader file is removed when no entry is left that uses it.
LEMMA UnlinkLoads ==
    ASSUME LoaderInv, Unlink
    PROVE  LoaderInv'
<1>1. Texts /\ Listing /\ Loading
    BY DEF LoaderInv
<1>2. /\ todo # <<>> /\ pending = None /\ todo[1].do = "unlink" /\ Done
      /\ file' = [file EXCEPT ![todo[1].what] = "none"]
      /\ lines' = lines /\ pending' = pending /\ torn' = torn /\ guarded' = guarded
    BY DEF Unlink, Doing, What
<1>3. Listing' /\ Place' = Place + 1 /\ task' = task
    BY <1>1, <1>2, ListingGoesOn
<1>4. At(Place)
    BY <1>1, <1>2, Stands
<1> DEFINE p == Place
<1>5. p + 1 \in {6, 8, 10, 12} /\ todo[1].what \in Files
    BY <1>2, <1>4, PlanKinds DEF At
<1>6. p \in 0 .. 18 /\ Ready(p) /\ Clear(p) /\ Place' = p + 1 /\ (p < 12 => task.run # "cd_boot")
    BY <1>1, <1>2, <1>3, <1>4 DEF Loading, At
<1> HIDE DEF p
<1>7. Clear(Place)'
    BY <1>2, <1>3, <1>5, <1>6, ClearGoesOn
<1>8. Texts'
    BY <1>1, <1>2, <1>3 DEF Texts, Done, Listing
<1>9. Shown' = Shown /\ Shown = lines
    BY <1>2 DEF Shown
<1>10. ~Occurs("loop", lines) /\ ~Occurs("livecd", lines)
  <2>1. p \in 3 .. 17 /\ p \in 2 .. 17 /\ p < 12
    BY <1>5, <1>6
  <2> QED
    BY <1>6, <2>1, Zenon DEF Clear
<1>11. Ready(Place)'
    BY <1>5, <1>6 DEF Ready
<1>12. Loading'
    BY <1>2, <1>7, <1>9, <1>10, <1>11 DEF Loading, Occurs, Own
<1> QED
    BY <1>3, <1>8, <1>12 DEF LoaderInv

\* No copy begins over a file that an entry uses, for that one is guarded.
LEMMA CopyBeginsLoads ==
    ASSUME LoaderInv, CopyBegins
    PROVE  LoaderInv'
<1>1. Texts /\ Listing /\ Loading
    BY DEF LoaderInv
<1>2. /\ todo # <<>> /\ pending = None /\ todo[1].do = "copy" /\ todo[1].what \notin guarded
      /\ file' = [file EXCEPT ![todo[1].what] = "partial"]
      /\ lines' = lines /\ pending' = pending /\ torn' = torn /\ guarded' = guarded
      /\ todo' = todo /\ task' = task /\ complete' = complete
    BY DEF CopyBegins, Doing, What, CanOpen
<1>3. Place' = Place /\ Listing'
    BY <1>1, <1>2 DEF Listing, Place, Rest, Begin, End
<1>4. At(Place)
    BY <1>1, <1>2, Stands
<1> DEFINE p == Place
<1>5. \/ p + 1 = 13 /\ todo[1].what = Loader(task.entry)
      \/ p + 1 = 15 /\ todo[1].what = Mbr(task.entry)
    BY <1>2, <1>4, PlanKinds DEF At
<1>6. p \in 0 .. 18 /\ Ready(p) /\ Clear(p) /\ Place' = p
    BY <1>1, <1>2, <1>3, <1>4 DEF Loading, At
<1> HIDE DEF p
<1>7. Clear(Place)'
    BY <1>2, <1>6 DEF Clear, Occurs
<1>8. Texts'
    BY <1>1, <1>2 DEF Texts
<1>9. Shown' = Shown /\ Shown = lines
    BY <1>2 DEF Shown
<1>10. ASSUME NEW l \in Own, Occurs(l, Shown)
       PROVE  Kept(l)'
  <2>1. /\ file[Loader(l)] = "whole" /\ Loader(l) \in guarded
        /\ file[Mbr(l)] = "whole" /\ Mbr(l) \in guarded
    BY <1>1, <1>10 DEF Kept, Loading
  <2>2. file \in [Files -> {"none", "partial", "whole"}] /\ Loader(l) \in Files /\ Mbr(l) \in Files
    BY <1>1, FileNames DEF Texts
  <2> QED
    BY <1>2, <2>1, <2>2 DEF Kept
<1>11. Ready(Place)'
  <2>1. CASE p + 1 = 13
    BY <1>6, <2>1 DEF Ready
  <2>2. CASE p + 1 = 15 /\ todo[1].what = Mbr(task.entry)
    <3>1. p = 14 /\ Ready(14)
      BY <1>6, <2>2
    <3>2. file[Loader(task.entry)] = "whole" /\ Loader(task.entry) \in guarded
      BY <3>1 DEF Ready
    <3>3. file \in [Files -> {"none", "partial", "whole"}] /\ Loader(task.entry) \in Files
          /\ Loader(task.entry) # Mbr(task.entry)
      BY <1>1, FileNames DEF Texts
    <3>4. file'[Loader(task.entry)] = "whole" /\ Loader(task.entry) \in guarded'
      BY <1>2, <2>2, <3>2, <3>3
    <3> QED
      BY <1>2, <1>6, <3>1, <3>4 DEF Ready
  <2> QED
    BY <1>5, <2>1, <2>2
<1>12. Loading'
    BY <1>2, <1>7, <1>9, <1>10, <1>11 DEF Loading, Occurs
<1> QED
    BY <1>3, <1>8, <1>12 DEF LoaderInv

\* An entry whose file is being copied is not in boot.ini.
LEMMA CopyEndsLoads ==
    ASSUME LoaderInv, CopyEnds
    PROVE  LoaderInv'
<1>1. Texts /\ Listing /\ Loading
    BY DEF LoaderInv
<1>2. /\ todo # <<>> /\ pending = None /\ todo[1].do = "copy" /\ todo[1].what \notin guarded
      /\ file' = [file EXCEPT ![todo[1].what] = "whole"] /\ Done
      /\ lines' = lines /\ pending' = pending /\ torn' = torn /\ guarded' = guarded
    BY DEF CopyEnds, Doing, What, CanOpen
<1>3. Listing' /\ Place' = Place + 1 /\ task' = task
    BY <1>1, <1>2, ListingGoesOn
<1>4. At(Place)
    BY <1>1, <1>2, Stands
<1> DEFINE p == Place
<1>5. \/ p + 1 = 13 /\ todo[1].what = Loader(task.entry)
      \/ p + 1 = 15 /\ todo[1].what = Mbr(task.entry)
    BY <1>2, <1>4, PlanKinds DEF At
<1>6. p \in 0 .. 18 /\ Ready(p) /\ Clear(p) /\ Place' = p + 1 /\ (p >= 12 => task.entry \in Own)
    BY <1>1, <1>2, <1>3, <1>4 DEF Loading, At
<1> HIDE DEF p
<1>7. task.entry \in Own
    BY <1>5, <1>6
<1>8. Texts'
    BY <1>1, <1>2, <1>3 DEF Texts, Done, Listing
<1>9. Shown' = Shown /\ Shown = lines
    BY <1>2 DEF Shown
<1>10. ASSUME NEW l \in Own, Occurs(l, Shown)
       PROVE  Kept(l)' /\ todo[1].what # Loader(l)
  <2>1. /\ file[Loader(l)] = "whole" /\ Loader(l) \in guarded
        /\ file[Mbr(l)] = "whole" /\ Mbr(l) \in guarded
    BY <1>1, <1>10 DEF Kept, Loading
  <2>2. file \in [Files -> {"none", "partial", "whole"}] /\ Loader(l) \in Files /\ Mbr(l) \in Files
    BY <1>1, FileNames DEF Texts
  <2> QED
    BY <1>2, <2>1, <2>2 DEF Kept
<1>11. Clear(Place)'
  <2>1. CASE p + 1 = 13 /\ todo[1].what = Loader(task.entry)
    <3>1. ~Occurs(task.entry, lines)
      BY <1>7, <1>9, <1>10, <2>1
    <3>2. p = 12 /\ Clear(12) /\ Place' = 13 /\ ~Occurs(task.entry, lines')
      BY <1>2, <1>6, <2>1, <3>1
    <3>3. 12 \in 2 .. 17 /\ 12 \in 3 .. 17
      OBVIOUS
    <3>4. task.run # "cd_boot" => ~Occurs("loop", lines) /\ ~Occurs("livecd", lines)
      BY <3>2, <3>3, Zenon DEF Clear
    <3> QED
      BY <1>2, <1>3, <3>2, <3>4 DEF Clear, Occurs
  <2>2. CASE p + 1 = 15
    BY <1>2, <1>3, <1>6, <2>2, ClearGoesOn
  <2> QED
    BY <1>5, <2>1, <2>2
<1>12. Ready(Place)'
  <2> DEFINE e == task.entry
  <2>1. /\ file \in [Files -> {"none", "partial", "whole"}]
        /\ Loader(e) \in Files /\ Mbr(e) \in Files /\ Loader(e) # Mbr(e)
    BY <1>1, FileNames DEF Texts
  <2>2. CASE p + 1 = 13 /\ todo[1].what = Loader(e)
    BY <1>2, <1>3, <1>6, <2>1, <2>2 DEF Ready
  <2>3. CASE p + 1 = 15 /\ todo[1].what = Mbr(e)
    <3>1. p = 14 /\ Ready(14) /\ Place' = 15
      BY <1>6, <2>3
    <3>2. file[Loader(e)] = "whole" /\ Loader(e) \in guarded
      BY <3>1 DEF Ready
    <3>3. file'[Loader(e)] = "whole" /\ Loader(e) \in guarded' /\ file'[Mbr(e)] = "whole"
      BY <1>2, <2>1, <2>3, <3>2
    <3> QED
      BY <1>3, <3>1, <3>3 DEF Ready
  <2> QED
    BY <1>5, <2>2, <2>3
<1>13. Loading'
    BY <1>2, <1>9, <1>10, <1>11, <1>12 DEF Loading, Occurs
<1> QED
    BY <1>3, <1>8, <1>13 DEF LoaderInv

\* What a rewrite begins with, and what it will leave of our entries.
LEMMA TruncateMakes ==
    ASSUME LoaderInv, Truncate
    PROVE  /\ todo # <<>> /\ pending = None /\ pending' \in Seq(Line) /\ pending' # None
           /\ \/ /\ Place = 17 /\ task.entry \in Own /\ pending' = Modified(lines, task.entry)
                 /\ \A l \in Own : l # task.entry => (Occurs(l, pending') <=> Occurs(l, lines))
              \/ \E e \in Own :
                    /\ (e = "loop" /\ Place = 1) \/ (e = "livecd" /\ Place = 2)
                    /\ pending' = Removed(lines, e)
                    /\ \A l : Occurs(l, pending') <=> Occurs(l, lines) /\ l # e
<1>1. Texts /\ Listing /\ Loading
    BY DEF LoaderInv
<1>2. /\ todo # <<>> /\ pending = None
      /\ \/ todo[1].do = "add" /\ pending' = Modified(lines, todo[1].what)
         \/ todo[1].do = "remove" /\ pending' = Removed(lines, todo[1].what)
    BY DEF Truncate, Doing, What
<1>3. At(Place)
    BY <1>1, <1>2, Stands
<1>4. lines \in Seq(Line)
    BY <1>1 DEF Texts
<1> DEFINE p == Place
<1>5. p \in 0 .. 18 /\ (p >= 12 => task.entry \in Own) /\ todo[1] = Plan(task.entry)[p + 1] /\ p + 1 \in 1 .. 19
    BY <1>3 DEF At
<1> HIDE DEF p
<1>6. CASE todo[1].do = "add" /\ pending' = Modified(lines, todo[1].what)
  <2>1. p + 1 = 18 /\ todo[1].what = task.entry
    BY <1>5, <1>6, PlanKinds
  <2>2. p = 17 /\ task.entry \in Own /\ pending' = Modified(lines, task.entry)
    BY <1>5, <1>6, <2>1
  <2>3. pending' \in Seq(Line)
    BY <1>4, <2>2, ModifiedKeeps
  <2>4. \A l \in Own : l # task.entry => (Occurs(l, pending') <=> Occurs(l, lines))
    BY <1>4, <2>2, ModifiedOccurs
  <2> QED
    BY <1>2, <2>2, <2>3, <2>4, NoneAssumption DEF p
<1>7. CASE todo[1].do = "remove" /\ pending' = Removed(lines, todo[1].what)
  <2> DEFINE e == todo[1].what
  <2>1. (p + 1 = 2 /\ e = "loop") \/ (p + 1 = 3 /\ e = "livecd")
    BY <1>5, <1>7, PlanKinds
  <2>2. e \in Own /\ ((p = 1 /\ e = "loop") \/ (p = 2 /\ e = "livecd")) /\ pending' = Removed(lines, e)
    BY <1>5, <1>7, <2>1 DEF Own
  <2> HIDE DEF e
  <2>3. pending' \in Seq(Line) /\ \A l : Occurs(l, pending') <=> Occurs(l, lines) /\ l # e
    BY <1>4, <2>2, RemovedOccurs
  <2> QED
    BY <1>2, <2>2, <2>3, NoneAssumption DEF p
<1> QED
    BY <1>2, <1>6, <1>7

\* What is about to be written names only entries whose files are there.
LEMMA TruncateLoads ==
    ASSUME LoaderInv, Truncate
    PROVE  LoaderInv'
<1>1. Texts /\ Listing /\ Loading
    BY DEF LoaderInv
<1>2. /\ lines' = <<>> /\ torn' = torn /\ file' = file /\ guarded' = guarded
      /\ todo' = todo /\ task' = task /\ complete' = complete
    BY DEF Truncate
<1>3. /\ todo # <<>> /\ pending = None /\ pending' \in Seq(Line) /\ pending' # None
      /\ \/ /\ Place = 17 /\ task.entry \in Own
            /\ \A l \in Own : l # task.entry => (Occurs(l, pending') <=> Occurs(l, lines))
         \/ \E e \in Own :
               /\ (e = "loop" /\ Place = 1) \/ (e = "livecd" /\ Place = 2)
               /\ \A l : Occurs(l, pending') <=> Occurs(l, lines) /\ l # e
    BY TruncateMakes
<1>4. Place' = Place /\ Listing'
    BY <1>1, <1>2, <1>3 DEF Listing, Place, Rest, Begin, End
<1>5. At(Place)
    BY <1>1, <1>3, Stands
<1>6. Texts'
    BY <1>1, <1>2, <1>3, EmptySeq DEF Texts
<1>7. Shown' = pending' /\ Shown = lines
    BY <1>3 DEF Shown
<1>8. Ready(Place) /\ Clear(Place) /\ (\A l \in Own : Occurs(l, lines) => Kept(l))
    BY <1>1, <1>3, <1>7 DEF Loading
<1>9. \A l \in Own : Kept(l) => Kept(l)'
    BY <1>2 DEF Kept
<1>10. Ready(Place)'
    BY <1>2, <1>4, <1>8 DEF Ready
<1>11. CASE Place = 17 /\ task.entry \in Own
            /\ \A l \in Own : l # task.entry => (Occurs(l, pending') <=> Occurs(l, lines))
  <2>1. Kept(task.entry)
    <3>1. Ready(17)
      BY <1>8, <1>11
    <3> QED
      BY <3>1 DEF Ready, Kept
  <2>2. \A l \in Own : Occurs(l, pending') => Kept(l)'
    BY <1>8, <1>9, <1>11, <2>1
  <2>3. Rewriting(Place)'
    BY <1>4, <1>11 DEF Rewriting
  <2>4. \A l \in Own : Occurs(l, Shown)' => Kept(l)'
    BY <1>7, <2>2 DEF Occurs
  <2> QED
    BY <1>3, <1>4, <1>6, <1>10, <2>3, <2>4 DEF Loading, LoaderInv
<1>12. ASSUME NEW e \in Own, (e = "loop" /\ Place = 1) \/ (e = "livecd" /\ Place = 2),
              \A l : Occurs(l, pending') <=> Occurs(l, lines) /\ l # e
       PROVE  LoaderInv'
  <2>1. \A l \in Own : Occurs(l, pending') => Kept(l)'
    BY <1>8, <1>9, <1>12
  <2>2. Rewriting(Place)'
    <3>1. CASE e = "loop" /\ Place = 1
      BY <1>4, <1>12, <3>1 DEF Rewriting, Occurs
    <3>2. CASE e = "livecd" /\ Place = 2
      <4>1. task.run # "cd_boot" /\ Clear(2)
        BY <1>5, <1>8, <3>2 DEF At
      <4>2. 2 \in 2 .. 17
        OBVIOUS
      <4>3. ~Occurs("loop", lines)
        BY <4>1, <4>2, Zenon DEF Clear
      <4>4. ~Occurs("loop", pending') /\ ~Occurs("livecd", pending')
        BY <1>12, <3>2, <4>3
      <4> QED
        BY <1>4, <3>2, <4>4 DEF Rewriting, Occurs
    <3> QED
      BY <1>12, <3>1, <3>2
  <2>3. \A l \in Own : Occurs(l, Shown)' => Kept(l)'
    BY <1>7, <2>1 DEF Occurs
  <2> QED
    BY <1>3, <1>4, <1>6, <1>10, <2>2, <2>3 DEF Loading, LoaderInv
<1> QED
    BY <1>3, <1>11, <1>12

\* What was about to be written is written.
LEMMA WriteLoads ==
    ASSUME LoaderInv, Write
    PROVE  LoaderInv'
<1>1. Texts /\ Listing /\ Loading
    BY DEF LoaderInv
<1>2. /\ pending # None /\ lines' = pending /\ pending' = None /\ Done
      /\ torn' = torn /\ file' = file /\ guarded' = guarded
    BY DEF Write
<1>3. todo # <<>>
    BY <1>1, <1>2 DEF Listing
<1>4. Listing' /\ Place' = Place + 1 /\ task' = task
    BY <1>1, <1>2, <1>3, ListingGoesOn
<1> DEFINE p == Place
<1>5. Ready(p) /\ Rewriting(p) /\ Place' = p + 1
    BY <1>1, <1>2, <1>3, <1>4 DEF Loading
<1> HIDE DEF p
<1>6. Texts'
    BY <1>1, <1>2, <1>4 DEF Texts, Done, Listing
<1>7. Shown' = Shown /\ Shown = pending
    BY <1>2 DEF Shown
<1>8. \A l \in Own : Occurs(l, Shown)' => Kept(l)'
    BY <1>1, <1>2, <1>7 DEF Loading, Kept, Occurs
<1>9. Ready(Place)' /\ Clear(Place)'
  <2>1. CASE p = 1 /\ ~Occurs("loop", pending)
    <3>1. Place' = 2 /\ ~Occurs("loop", lines')
      BY <1>2, <1>5, <2>1
    <3> QED
      BY <3>1 DEF Ready, Clear, Occurs
  <2>2. CASE p = 2 /\ ~Occurs("loop", pending) /\ ~Occurs("livecd", pending)
    <3>1. Place' = 3 /\ ~Occurs("loop", lines') /\ ~Occurs("livecd", lines')
      BY <1>2, <1>5, <2>2
    <3> QED
      BY <3>1 DEF Ready, Clear, Occurs
  <2>3. CASE p = 17
    <3>1. Place' = 18 /\ Ready(17)
      BY <1>5, <2>3
    <3>2. Clear(Place)'
      BY <3>1 DEF Clear
    <3> QED
      BY <1>2, <1>4, <3>1, <3>2 DEF Ready
  <2> QED
    BY <1>5, <2>1, <2>2, <2>3, Zenon DEF Rewriting
<1>10. Loading'
    BY <1>2, <1>8, <1>9 DEF Loading
<1> QED
    BY <1>4, <1>6, <1>10 DEF LoaderInv

\* A rewrite that is cut short leaves no entry that it would not have left.
LEMMA StopLoads ==
    ASSUME LoaderInv, Stop
    PROVE  LoaderInv'
<1>1. Texts /\ Listing /\ Loading
    BY DEF LoaderInv
<1>2. /\ todo # <<>> /\ pending' = None /\ todo' = <<>>
      /\ file' = file /\ guarded' = guarded /\ task' = task /\ complete' = complete
    BY DEF Stop
<1>3. Listing'
    BY <1>1, <1>2 DEF Listing
<1>4. Shown' = lines'
    BY <1>2 DEF Shown
<1>5. CASE pending = None
  <2>1. lines' = lines /\ torn' = torn /\ Shown = lines
    BY <1>5 DEF Stop, Shown
  <2>2. Texts'
    BY <1>1, <1>2, <2>1 DEF Texts
  <2>3. Loading'
    BY <1>1, <1>2, <1>4, <2>1 DEF Loading, Kept, Occurs
  <2> QED
    BY <1>3, <2>2, <2>3 DEF LoaderInv
<1>6. CASE pending # None
  <2>1. torn' = TRUE /\ \E n \in 0 .. Len(pending) : lines' = SubSeq(pending, 1, n)
    BY <1>6 DEF Stop
  <2>2. pending \in Seq(Line) /\ Shown = pending
    BY <1>1, <1>6 DEF Texts, Shown
  <2>3. lines' \in Seq(Line) /\ \A l : Occurs(l, lines') => Occurs(l, pending)
    BY <2>1, <2>2, OccursBefore
  <2>4. Texts'
    BY <1>1, <1>2, <2>1, <2>3 DEF Texts
  <2>5. \A l \in Own : Occurs(l, Shown)' => Kept(l)'
    BY <1>1, <1>2, <1>4, <2>2, <2>3 DEF Loading, Kept, Occurs
  <2>6. Loading'
    BY <1>2, <2>5 DEF Loading
  <2> QED
    BY <1>3, <2>4, <2>6 DEF LoaderInv
<1> QED
    BY <1>5, <1>6

\* Every step keeps the invariant.
LEMMA NextLoads == LoaderInv /\ [Next]_bvars => LoaderInv'
<1> SUFFICES ASSUME LoaderInv, [Next]_bvars PROVE LoaderInv'
    OBVIOUS
<1>1. ASSUME NEW t \in Tasks, Start(t) PROVE LoaderInv'
    BY <1>1, StartLoads
<1>2. CASE UNCHANGED bvars
    BY <1>2 DEF bvars, LoaderInv, Texts, Listing, Loading, Shown, Kept, Ready, Clear, Rewriting, Occurs,
                Place, Rest, Begin, End
<1> QED
    BY <1>1, <1>2, FreeLoads, GuardLoads, UnlinkLoads, CopyBeginsLoads, CopyEndsLoads, TruncateLoads,
       WriteLoads, StopLoads DEF Next

\* The entries that boot.ini shows or is about to have, the files that are there and
\* guarded, and the place of the running list, in every state of every run.
THEOREM LoaderInvariant == Spec => []LoaderInv
    BY InitLoads, NextLoads, PTL DEF Spec

\* What the invariant says of the entries.
LEMMA EntriesKept == LoaderInv => EntryHasItsLoader
<1> SUFFICES ASSUME LoaderInv, NEW i \in DOMAIN lines, lines[i] \in Own
             PROVE  file[Loader(lines[i])] = "whole" /\ file[Mbr(lines[i])] = "whole"
    BY DEF EntryHasItsLoader
<1>1. Texts /\ Loading
    BY DEF LoaderInv
<1>2. pending = None
    BY <1>1, EmptySeq DEF Texts
<1>3. Occurs(lines[i], Shown)
    BY <1>2 DEF Occurs, Shown
<1> QED
    BY <1>1, <1>3 DEF Loading, Kept

\* Whatever step of undo_bootloader, modify_bootini or undo_bootini fails, or at
\* whatever point the process dies, an entry of ours in boot.ini has its two boot
\* loader files on the drive, whole.
THEOREM EntriesHaveTheirLoaders == Spec => []EntryHasItsLoader
    BY LoaderInvariant, EntriesKept, PTL

\* The kinds of line that the menu does not count to the lines of Windows.
Ours == Own \cup Timeout \cup {"blank", "boot_loader"}
OwnShown == {l \in Own : Occurs(l, Shown)}

\* A line is counted if it occurs.
LEMMA CountOccurs ==
    ASSUME NEW t \in Seq(Line), NEW l
    PROVE  Count(t, l) > 0 <=> Occurs(l, t)
<1> DEFINE S == {i \in DOMAIN t : t[i] = l}
<1>1. DOMAIN t = 1 .. Len(t) /\ Len(t) \in Nat
    BY LenProperties
<1>2. IsFiniteSet(S)
  <2>1. IsFiniteSet(1 .. Len(t))
    BY <1>1, FS_Interval
  <2>2. S \subseteq 1 .. Len(t)
    BY <1>1
  <2> QED
    BY <2>1, <2>2, FS_Subset
<1>3. Cardinality(S) \in Nat /\ (Cardinality(S) = 0 <=> S = {})
    BY <1>2, FS_CardinalityType, FS_EmptySet
<1>4. Occurs(l, t) <=> S # {}
    BY DEF Occurs
<1>5. Count(t, l) = Cardinality(S)
    BY Zenon DEF Count
<1> HIDE DEF S
<1> QED
    BY <1>3, <1>4, <1>5

\* The entries of the menu are those that occur in boot.ini.
LEMMA MenuIs ==
    Texts => Shown \in Seq(Line) /\ {l \in Own : Count(Shown, l) > 0} = OwnShown
<1> SUFFICES ASSUME Texts PROVE Shown \in Seq(Line) /\ {l \in Own : Count(Shown, l) > 0} = OwnShown
    OBVIOUS
<1>1. Shown \in Seq(Line)
    BY DEF Texts, Shown
<1>2. \A l \in Own : Count(Shown, l) > 0 <=> Occurs(l, Shown)
    BY <1>1, CountOccurs
<1> QED
    BY <1>1, <1>2 DEF OwnShown

\* A rewrite touches one of our entries and none of the lines of Windows.
LEMMA TruncateShows ==
    ASSUME LoaderInv, Truncate
    PROVE  /\ \E e \in Own : OwnShown' = OwnShown \cup {e} \/ OwnShown' = OwnShown \ {e}
           /\ Without(Shown, Ours)' = Without(Shown, Ours) /\ torn' = torn
<1>1. lines \in Seq(Line)
    BY DEF LoaderInv, Texts
<1>2. /\ pending = None /\ pending' \in Seq(Line) /\ pending' # None
      /\ \/ /\ task.entry \in Own /\ pending' = Modified(lines, task.entry)
            /\ \A l \in Own : l # task.entry => (Occurs(l, pending') <=> Occurs(l, lines))
         \/ \E e \in Own :
               /\ pending' = Removed(lines, e)
               /\ \A l : Occurs(l, pending') <=> Occurs(l, lines) /\ l # e
    BY TruncateMakes
<1>3. Shown = lines /\ Shown' = pending'
    BY <1>2 DEF Shown
<1>4. OwnShown = {l \in Own : Occurs(l, lines)} /\ OwnShown' = {l \in Own : Occurs(l, pending')}
    BY <1>3 DEF OwnShown, Occurs
<1>5. Without(Shown, Ours)' = Without(pending', Ours) /\ Without(Shown, Ours) = Without(lines, Ours)
    BY <1>3 DEF Without, Ours, Own, Timeout
<1>6. torn' = torn
    BY DEF Truncate
<1>7. ASSUME task.entry \in Own, pending' = Modified(lines, task.entry),
             \A l \in Own : l # task.entry => (Occurs(l, pending') <=> Occurs(l, lines))
      PROVE  /\ OwnShown' = OwnShown \cup {task.entry} \/ OwnShown' = OwnShown \ {task.entry}
             /\ Without(pending', Ours) = Without(lines, Ours)
  <2> DEFINE e == task.entry
             u == pending'
  <2>1. Without(u, Replaced(e)) = Without(lines, Replaced(e)) /\ u \in Seq(Line)
    BY <1>1, <1>2, <1>7, ModifiedKeeps
  <2>2. Replaced(e) \subseteq Ours
    BY <1>7 DEF Replaced, Ours
  <2> HIDE DEF e, u
  <2>3. Without(Without(u, Replaced(e)), Ours) = Without(u, Ours)
    BY <2>1, <2>2, WithoutTwice
  <2>4. Without(Without(lines, Replaced(e)), Ours) = Without(lines, Ours)
    BY <1>1, <2>2, WithoutTwice
  <2>5. Without(u, Ours) = Without(lines, Ours)
    BY <2>1, <2>3, <2>4
  <2>6. CASE Occurs(e, u)
    <3>1. OwnShown' = OwnShown \cup {e}
      BY <1>4, <1>7, <2>6 DEF e, u
    <3> QED
      BY <2>5, <3>1 DEF e, u
  <2>7. CASE ~Occurs(e, u)
    <3>1. OwnShown' = OwnShown \ {e}
      BY <1>4, <1>7, <2>7 DEF e, u
    <3> QED
      BY <2>5, <3>1 DEF e, u
  <2> QED
    BY <2>6, <2>7
<1>8. ASSUME NEW e \in Own, pending' = Removed(lines, e),
             \A l : Occurs(l, pending') <=> Occurs(l, lines) /\ l # e
      PROVE  OwnShown' = OwnShown \ {e} /\ Without(pending', Ours) = Without(lines, Ours)
  <2>1. pending' = Without(lines, {e})
    BY <1>8 DEF Removed
  <2>2. {e} \subseteq Ours
    BY DEF Ours
  <2>3. Without(Without(lines, {e}), Ours) = Without(lines, Ours)
    BY <1>1, <2>2, WithoutTwice
  <2> QED
    BY <1>4, <1>8, <2>1, <2>3
<1>9. CASE task.entry \in Own /\ pending' = Modified(lines, task.entry)
            /\ \A l \in Own : l # task.entry => (Occurs(l, pending') <=> Occurs(l, lines))
    BY <1>5, <1>6, <1>7, <1>9
<1>10. CASE \E e \in Own : pending' = Removed(lines, e) /\ \A l : Occurs(l, pending') <=> Occurs(l, lines) /\ l # e
    BY <1>5, <1>6, <1>8, <1>10
<1> QED
    BY <1>2, <1>9, <1>10

\* The first boot.ini is a menu without entries of ours.
LEMMA InitShows == Init => Menu!Init
<1> SUFFICES ASSUME Init PROVE Menu!Init
    OBVIOUS
<1>1. Texts /\ Loading /\ Shown = lines
    BY InitLoads DEF LoaderInv, Init, Shown
<1>2. \A i \in DOMAIN lines : lines[i] \notin Own
    BY ContentsAssumption DEF Init
<1>3. OwnShown = {}
    BY <1>1, <1>2 DEF OwnShown, Occurs
<1> QED
    BY <1>1, <1>3, MenuIs DEF Init, Menu!Init

\* A step of the editing is a change of the menu by one entry, a rewrite that is cut
\* short, or nothing to the menu.
LEMMA NextShows == LoaderInv /\ [Next]_bvars => [Menu!Change \/ Menu!Tear]_(Menu!mvars)
<1> SUFFICES ASSUME LoaderInv, [Next]_bvars
             PROVE  [Menu!Change \/ Menu!Tear]_(Menu!mvars)
    OBVIOUS
<1>1. Texts /\ Texts' /\ Listing
    BY NextLoads DEF LoaderInv
<1>2. {l \in Own : Count(Shown, l) > 0} = OwnShown /\ {l \in Own : Count(Shown, l) > 0}' = OwnShown'
  <2>1. {l \in Own : Count(Shown, l) > 0} = OwnShown
    BY <1>1, MenuIs
  <2>2. Texts' => ({l \in Own : Count(Shown, l) > 0} = OwnShown)'
    BY MenuIs, PTL
  <2> QED
    BY <1>1, <2>1, <2>2
<1>3. ASSUME Shown' = Shown, torn' = torn
      PROVE  UNCHANGED Menu!mvars
    BY <1>3 DEF Menu!mvars, Without, Count, Own, Timeout
<1>4. CASE \E t \in Tasks : Start(t)
    BY <1>3, <1>4 DEF Start, Shown
<1>5. CASE Free \/ Guard \/ Unlink \/ CopyBegins \/ CopyEnds
    BY <1>3, <1>5 DEF Free, Guard, Unlink, CopyBegins, CopyEnds, Shown
<1>6. CASE Write
    BY <1>3, <1>6 DEF Write, Shown
<1>7. CASE Stop
  <2>1. CASE pending = None
    BY <1>3, <1>7, <2>1 DEF Stop, Shown
  <2>2. CASE pending # None
    BY <1>7, <2>2 DEF Stop, Menu!Tear
  <2> QED
    BY <2>1, <2>2
<1>8. CASE UNCHANGED bvars
    BY <1>3, <1>8 DEF bvars, Shown
<1>9. CASE Truncate
    BY <1>2, <1>9, TruncateShows DEF Menu!Change, Ours
<1> QED
    BY <1>4, <1>5, <1>6, <1>7, <1>8, <1>9 DEF Next

\* boot.ini implements the menu: modify_bootini and undo_bootini change one entry of
\* ours at a time and none of the lines of Windows, unless writing is cut short.
THEOREM TheMenuIsKept == Spec => MenuIsKept
<1>1. Spec => []LoaderInv
    BY LoaderInvariant
<1>2. Spec => Menu!Init /\ [][Menu!Change \/ Menu!Tear]_(Menu!mvars)
    BY <1>1, InitShows, NextShows, PTL DEF Spec
<1> QED
    BY <1>2 DEF MenuIsKept, Menu!Spec

-----------------------------------------------------------------------------
(* A text that modify_bootini can read                                      *)

Sections == Section \ {"boot_loader"}
NoTimeout(x) == \A k \in 1 .. Len(x) : x[k] \notin Timeout
NoHead(x) == \A k \in 1 .. Len(x) : x[k] # "boot_loader"

\* There is an empty line among the operating systems.
HasRoom(x) == \E k \in 1 .. Len(x) : x[k] = "blank" /\ InSystems(x, k)
\* The section of the boot loader and the timeout come first.
Ordered(x) ==
    \A j, k \in 1 .. Len(x) : j < k /\ x[j] \in Sections => x[k] \notin Timeout /\ x[k] # "boot_loader"
OneHead(x) == \A j, k \in 1 .. Len(x) : x[j] = "boot_loader" /\ x[k] = "boot_loader" => j = k
OneTimeout(x) == \A j, k \in 1 .. Len(x) : x[j] \in Timeout /\ x[k] \in Timeout => j = k
\* Without a head no section begins behind the timeout, whichever of our lines
\* stand between them.
Led(x) ==
    \A k, l \in 1 .. Len(x) :
        /\ k < l /\ x[k] \in Timeout /\ x[l] \in Section
        /\ \A m \in (k + 1) .. (l - 1) : x[m] \in Own
        => \E j \in 1 .. k : x[j] = "boot_loader"
Sane(x) == Blank(x) /\ HasRoom(x) /\ Ordered(x) /\ OneHead(x) /\ OneTimeout(x) /\ Led(x)

\* v is u with d lines more, in front of line i.
Grown(u, v, i, d) ==
    /\ u \in Seq(Line) /\ v \in Seq(Line) /\ Len(u) \in Nat /\ d \in Nat
    /\ i \in 1 .. Len(u) + 1 /\ Len(v) = Len(u) + d
    /\ \A k \in 1 .. (i - 1) : v[k] = u[k]
    /\ \A k \in i .. Len(u) : v[k + d] = u[k]
Up(k, i, d) == IF k < i THEN k ELSE k + d

\* Where the lines of the shorter text stand in the longer one.
LEMMA GrownUp ==
    ASSUME NEW u, NEW v, NEW i, NEW d, Grown(u, v, i, d)
    PROVE  /\ \A k \in 1 .. Len(u) : Up(k, i, d) \in 1 .. Len(v) /\ v[Up(k, i, d)] = u[k]
           /\ \A l \in 1 .. Len(v) : l \in i .. (i + d - 1) \/ \E k \in 1 .. Len(u) : l = Up(k, i, d)
           /\ \A j, k \in 1 .. Len(u) : j < k <=> Up(j, i, d) < Up(k, i, d)
<1>1. Len(u) \in Nat /\ d \in Nat /\ i \in 1 .. Len(u) + 1 /\ Len(v) = Len(u) + d
    BY DEF Grown
<1>2. ASSUME NEW k \in 1 .. Len(u)
      PROVE  Up(k, i, d) \in 1 .. Len(v) /\ v[Up(k, i, d)] = u[k]
  <2>1. CASE k < i
    BY <1>1, <2>1 DEF Grown, Up
  <2>2. CASE ~(k < i)
    BY <1>1, <2>2 DEF Grown, Up
  <2> QED
    BY <2>1, <2>2
<1>3. ASSUME NEW l \in 1 .. Len(v), l \notin i .. (i + d - 1)
      PROVE  \E k \in 1 .. Len(u) : l = Up(k, i, d)
  <2>1. CASE l < i
    <3>1. l \in 1 .. Len(u) /\ l = Up(l, i, d)
      BY <1>1, <2>1 DEF Up
    <3> QED
      BY <3>1
  <2>2. CASE ~(l < i)
    <3>1. l - d \in 1 .. Len(u) /\ l = Up(l - d, i, d)
      BY <1>1, <1>3, <2>2 DEF Up
    <3> QED
      BY <3>1
  <2> QED
    BY <2>1, <2>2
<1>4. \A j, k \in 1 .. Len(u) : j < k <=> Up(j, i, d) < Up(k, i, d)
    BY <1>1 DEF Up
<1> QED
    BY <1>2, <1>3, <1>4

\* A line of the operating systems stays one when lines are put in, if they are not
\* headers or are put on top.
LEMMA SystemsUp ==
    ASSUME NEW u, NEW v, NEW i, NEW d, Grown(u, v, i, d),
           i = 1 \/ \A l \in i .. (i + d - 1) : v[l] \notin Section,
           NEW k \in 1 .. Len(u), InSystems(u, k)
    PROVE  InSystems(v, Up(k, i, d))
<1>1. Len(u) \in Nat /\ d \in Nat /\ i \in 1 .. Len(u) + 1 /\ Len(v) = Len(u) + d
    BY DEF Grown
<1>2. PICK j \in 1 .. (k - 1) : u[j] = "operating_systems" /\ \A l \in (j + 1) .. k : u[l] \notin Section
    BY DEF InSystems
<1>3. j \in 1 .. Len(u) /\ j < k
    BY <1>1
<1>4. v[Up(j, i, d)] = "operating_systems" /\ Up(j, i, d) < Up(k, i, d) /\ Up(j, i, d) \in 1 .. Len(v)
      /\ Up(k, i, d) \in 1 .. Len(v)
    BY <1>2, <1>3, GrownUp
<1>5. ASSUME NEW l \in (Up(j, i, d) + 1) .. Up(k, i, d)
      PROVE  v[l] \notin Section
  <2>1. l \in 1 .. Len(v) /\ Up(j, i, d) < l
    BY <1>1, <1>4
  <2>2. CASE l \in i .. (i + d - 1)
    <3>1. i # 1
      BY <1>1, <1>3, <2>1, <2>2 DEF Up
    <3> QED
      BY <2>2, <3>1
  <2>3. CASE l \notin i .. (i + d - 1)
    <3>1. PICK m \in 1 .. Len(u) : l = Up(m, i, d)
      BY <2>1, <2>3, GrownUp
    <3>2. m \in (j + 1) .. k /\ v[l] = u[m]
      <4>1. j < m
        BY <1>3, <2>1, <3>1, GrownUp
      <4>2. ~(k < m)
        <5>1. k < m => Up(k, i, d) < Up(m, i, d)
          BY GrownUp
        <5> QED
          BY <1>1, <1>4, <3>1, <5>1
      <4>3. v[l] = u[m]
        BY <3>1, GrownUp
      <4> QED
        BY <1>1, <1>3, <4>1, <4>2, <4>3
    <3> QED
      BY <1>2, <3>2
  <2> QED
    BY <2>2, <2>3
<1>6. Up(j, i, d) \in 1 .. (Up(k, i, d) - 1)
    BY <1>1, <1>4
<1> QED
    BY <1>4, <1>5, <1>6 DEF InSystems

\* And when lines that are not headers are taken out.
LEMMA SystemsDown ==
    ASSUME NEW u, NEW v, NEW i, NEW d, Grown(u, v, i, d),
           \A l \in i .. (i + d - 1) : v[l] \notin Section,
           NEW k \in 1 .. Len(u), InSystems(v, Up(k, i, d))
    PROVE  InSystems(u, k)
<1>1. Len(u) \in Nat /\ d \in Nat /\ i \in 1 .. Len(u) + 1 /\ Len(v) = Len(u) + d
    BY DEF Grown
<1>2. Up(k, i, d) \in 1 .. Len(v)
    BY GrownUp
<1>3. PICK q \in 1 .. (Up(k, i, d) - 1) :
          v[q] = "operating_systems" /\ \A l \in (q + 1) .. Up(k, i, d) : v[l] \notin Section
    BY DEF InSystems
<1>4. q \in 1 .. Len(v) /\ q < Up(k, i, d) /\ q \notin i .. (i + d - 1)
    BY <1>1, <1>2, <1>3 DEF Section
<1>5. PICK j \in 1 .. Len(u) : q = Up(j, i, d)
    BY <1>4, GrownUp
<1>6. j < k /\ u[j] = "operating_systems"
    BY <1>3, <1>4, <1>5, GrownUp
<1>7. ASSUME NEW m \in (j + 1) .. k
      PROVE  u[m] \notin Section
  <2>1. m \in 1 .. Len(u) /\ j < m /\ (m < k \/ m = k)
    BY <1>1
  <2>2. Up(m, i, d) \in 1 .. Len(v) /\ v[Up(m, i, d)] = u[m] /\ Up(j, i, d) < Up(m, i, d)
        /\ (m < k => Up(m, i, d) < Up(k, i, d))
    BY <2>1, GrownUp
  <2>3. Up(m, i, d) \in (q + 1) .. Up(k, i, d)
    BY <1>1, <1>2, <1>4, <1>5, <2>1, <2>2
  <2> QED
    BY <1>3, <2>2, <2>3
<1>8. j \in 1 .. (k - 1)
    BY <1>1, <1>6
<1> QED
    BY <1>6, <1>7, <1>8 DEF InSystems

\* Lines that may be put into a text.
Fits(u, v, i, d) ==
    /\ i <= Len(u)
    /\ i = 1 \/ \A l \in i .. (i + d - 1) : v[l] \notin Section
    /\ \A l \in i .. (i + d - 1) :
           /\ v[l] \notin Sections
           /\ v[l] \in Timeout \cup {"boot_loader"} => \A k \in 1 .. (i - 1) : u[k] \notin Sections
           /\ v[l] = "boot_loader" =>
                  NoHead(u) /\ \A m \in i .. (i + d - 1) : v[m] = "boot_loader" => l = m
           /\ v[l] \in Timeout =>
                  /\ NoTimeout(u) /\ \A m \in i .. (i + d - 1) : v[m] \in Timeout => l = m
                  /\ \E j \in 1 .. l : v[j] = "boot_loader"

\* Lines that fit leave a text readable.
LEMMA StaysSane ==
    ASSUME NEW u, NEW v, NEW i, NEW d, Grown(u, v, i, d), Sane(u), Fits(u, v, i, d)
    PROVE  Sane(v)
<1> DEFINE new == i .. (i + d - 1)
<1>1. Len(u) \in Nat /\ d \in Nat /\ i \in 1 .. Len(u) + 1 /\ Len(v) = Len(u) + d /\ v \in Seq(Line)
    BY DEF Grown
<1>2. /\ \A k \in 1 .. Len(u) : Up(k, i, d) \in 1 .. Len(v) /\ v[Up(k, i, d)] = u[k]
      /\ \A l \in 1 .. Len(v) : l \in new \/ \E k \in 1 .. Len(u) : l = Up(k, i, d)
      /\ \A j, k \in 1 .. Len(u) : j < k <=> Up(j, i, d) < Up(k, i, d)
    BY GrownUp
<1>3. i <= Len(u) /\ (i = 1 \/ \A l \in new : v[l] \notin Section)
    BY DEF Fits
<1>4. \A l \in new :
          /\ v[l] \notin Sections
          /\ v[l] \in Timeout \cup {"boot_loader"} => \A k \in 1 .. (i - 1) : u[k] \notin Sections
          /\ v[l] = "boot_loader" => NoHead(u) /\ \A m \in new : v[m] = "boot_loader" => l = m
          /\ v[l] \in Timeout =>
                 /\ NoTimeout(u) /\ \A m \in new : v[m] \in Timeout => l = m
                 /\ \E j \in 1 .. l : v[j] = "boot_loader"
    BY DEF Fits
<1>5. Blank(u) /\ HasRoom(u) /\ Ordered(u) /\ OneHead(u) /\ OneTimeout(u) /\ Led(u)
    BY DEF Sane
<1>6. Blank(v)
  <2>1. v[Len(u) + d] = u[Len(u)] /\ u[Len(u)] = "blank"
    BY <1>1, <1>3, <1>5 DEF Grown, Blank
  <2> QED
    BY <1>1, <1>3, <2>1 DEF Blank
<1>7. HasRoom(v)
  <2>1. PICK k \in 1 .. Len(u) : u[k] = "blank" /\ InSystems(u, k)
    BY <1>5 DEF HasRoom
  <2>2. InSystems(v, Up(k, i, d))
    BY <1>3, <2>1, SystemsUp
  <2> QED
    BY <1>2, <2>1, <2>2 DEF HasRoom
<1>8. Ordered(v)
  <2> SUFFICES ASSUME NEW l \in 1 .. Len(v), NEW m \in 1 .. Len(v), l < m, v[l] \in Sections
               PROVE  v[m] \notin Timeout /\ v[m] # "boot_loader"
    BY DEF Ordered
  <2>1. l \notin new
    BY <1>4
  <2>2. PICK j \in 1 .. Len(u) : l = Up(j, i, d)
    BY <1>2, <2>1
  <2>3. u[j] \in Sections
    BY <1>2, <2>2
  <2>4. CASE m \in new
    <3>1. j \in 1 .. (i - 1)
      BY <1>1, <2>2, <2>4 DEF Up
    <3> QED
      BY <1>4, <2>3, <2>4, <3>1
  <2>5. CASE m \notin new
    <3>1. PICK k \in 1 .. Len(u) : m = Up(k, i, d)
      BY <1>2, <2>5
    <3>2. j < k /\ v[m] = u[k]
      BY <1>2, <2>2, <3>1
    <3> QED
      BY <1>5, <2>3, <3>2 DEF Ordered
  <2> QED
    BY <2>4, <2>5
<1>9. OneHead(v)
  <2> SUFFICES ASSUME NEW l \in 1 .. Len(v), NEW m \in 1 .. Len(v), v[l] = "boot_loader", v[m] = "boot_loader"
               PROVE  l = m
    BY DEF OneHead
  <2>1. ASSUME NEW q \in 1 .. Len(v), v[q] = "boot_loader", q \notin new
        PROVE  \E k \in 1 .. Len(u) : q = Up(k, i, d) /\ u[k] = "boot_loader"
    BY <1>2, <2>1
  <2> QED
    BY <1>4, <1>5, <2>1 DEF OneHead, NoHead
<1>10. OneTimeout(v)
  <2> SUFFICES ASSUME NEW l \in 1 .. Len(v), NEW m \in 1 .. Len(v), v[l] \in Timeout, v[m] \in Timeout
               PROVE  l = m
    BY DEF OneTimeout
  <2>1. ASSUME NEW q \in 1 .. Len(v), v[q] \in Timeout, q \notin new
        PROVE  \E k \in 1 .. Len(u) : q = Up(k, i, d) /\ u[k] \in Timeout
    BY <1>2, <2>1
  <2> QED
    BY <1>4, <1>5, <2>1 DEF OneTimeout, NoTimeout
<1>11. Led(v)
  <2> SUFFICES ASSUME NEW l \in 1 .. Len(v), NEW m \in 1 .. Len(v), l < m, v[l] \in Timeout, v[m] \in Section,
                      \A q \in (l + 1) .. (m - 1) : v[q] \in Own
               PROVE  \E j \in 1 .. l : v[j] = "boot_loader"
    BY DEF Led
  <2>1. CASE l \in new
    BY <1>4, <2>1
  <2>2. CASE l \notin new
    <3>1. PICK k \in 1 .. Len(u) : l = Up(k, i, d)
      BY <1>2, <2>2
    <3>2. u[k] \in Timeout
      BY <1>2, <3>1
    <3>3. m \notin new
      <4>1. CASE m \in new
        <5>1. i # 1
          BY <1>1, <2>2, <4>1
        <5> QED
          BY <1>3, <4>1, <5>1
      <4> QED
        BY <4>1
    <3>4. PICK q \in 1 .. Len(u) : m = Up(q, i, d)
      BY <1>2, <3>3
    <3>5. k < q /\ u[q] \in Section
      BY <1>2, <3>1, <3>4
    <3>6. ASSUME NEW p \in (k + 1) .. (q - 1)
          PROVE  u[p] \in Own
      <4>1. p \in 1 .. Len(u) /\ k < p /\ p < q
        BY <1>1
      <4>2. l < Up(p, i, d) /\ Up(p, i, d) < m /\ Up(p, i, d) \in 1 .. Len(v) /\ v[Up(p, i, d)] = u[p]
        BY <1>2, <3>1, <3>4, <4>1
      <4>3. Up(p, i, d) \in (l + 1) .. (m - 1)
        BY <1>1, <4>2
      <4> QED
        BY <4>2, <4>3
    <3>7. PICK j \in 1 .. k : u[j] = "boot_loader"
      BY <1>5, <3>2, <3>5, <3>6 DEF Led
    <3>8. j \in 1 .. Len(u) /\ (j < k \/ j = k)
      BY <1>1
    <3>9. Up(j, i, d) \in 1 .. Len(v) /\ v[Up(j, i, d)] = "boot_loader" /\ (j < k => Up(j, i, d) < l)
      BY <1>2, <3>1, <3>7, <3>8
    <3>10. Up(j, i, d) \in 1 .. l
      BY <1>1, <3>1, <3>8, <3>9
    <3> QED
      BY <3>9, <3>10
  <2> QED
    BY <2>1, <2>2
<1> QED
    BY <1>6, <1>7, <1>8, <1>9, <1>10, <1>11 DEF Sane

\* A line is put in.
LEMMA PutInGrows ==
    ASSUME NEW u \in Seq(Line), NEW i \in 1 .. Len(u) + 1, NEW x \in Line
    PROVE  Grown(u, InsertAt(u, i, x), i, 1) /\ InsertAt(u, i, x)[i] = x
<1> DEFINE v == InsertAt(u, i, x)
<1>1. Len(u) \in Nat /\ 1 \in Nat
    BY LenProperties
<1>2. /\ v \in Seq(Line) /\ Len(v) = Len(u) + 1 /\ v[i] = x
      /\ \A k \in 1 .. (i - 1) : v[k] = u[k]
      /\ \A k \in i .. Len(u) : v[k + 1] = u[k]
    BY PutIn
<1> HIDE DEF v
<1>3. Grown(u, v, i, 1)
    BY <1>1, <1>2 DEF Grown
<1> QED
    BY <1>2, <1>3 DEF v

\* An entry is put in before the last line.
LEMMA EntryPutIn ==
    ASSUME NEW u, Sane(u), NEW i \in 1 .. Len(u), NEW x \in Line, x \notin Section \cup Timeout
    PROVE  Sane(InsertAt(u, i, x))
<1> DEFINE v == InsertAt(u, i, x)
<1>1. u \in Seq(Line) /\ Len(u) \in Nat /\ i \in 1 .. Len(u) + 1 /\ i <= Len(u)
    BY DEF Sane, Blank
<1>2. Grown(u, v, i, 1) /\ v[i] = x
    BY <1>1, PutInGrows
<1> HIDE DEF v
<1>3. \A l \in i .. (i + 1 - 1) : v[l] = x
    BY <1>1, <1>2
<1>4. x \notin Section /\ x \notin Sections /\ x \notin Timeout /\ x # "boot_loader"
    BY DEF Section, Sections
<1>5. Fits(u, v, i, 1)
    BY <1>1, <1>3, <1>4 DEF Fits
<1>6. Sane(v)
    BY <1>2, <1>5, StaysSane
<1> QED
    BY <1>6 DEF v

\* The timeout is put in behind the head.
LEMMA TimeoutPutIn ==
    ASSUME NEW u, Sane(u), NEW h \in 1 .. Len(u), u[h] = "boot_loader", NoTimeout(u)
    PROVE  LET v == InsertAt(u, h + 1, "timeout_10")
           IN Sane(v) /\ Grown(u, v, h + 1, 1) /\ v[h] = "boot_loader" /\ v[h + 1] = "timeout_10"
<1> DEFINE i == h + 1
           v == InsertAt(u, i, "timeout_10")
<1>1. u \in Seq(Line) /\ Len(u) \in Nat /\ u[Len(u)] = "blank"
    BY DEF Sane, Blank
<1>2. h < Len(u)
    BY <1>1
<1>3. i \in 1 .. Len(u) + 1 /\ i <= Len(u) /\ "timeout_10" \in Line
    BY <1>1, <1>2, OwnLines DEF Timeout
<1>4. Grown(u, v, i, 1) /\ v[i] = "timeout_10"
    BY <1>1, <1>3, PutInGrows
<1> HIDE DEF v
<1>5. \A l \in i .. (i + 1 - 1) : l = i
    BY <1>1
<1>6. \A l \in i .. (i + 1 - 1) : v[l] = "timeout_10"
    BY <1>4, <1>5
<1>7. v[h] = "boot_loader" /\ h \in 1 .. (i - 1)
    BY <1>1, <1>4 DEF Grown
<1>8. \A k \in 1 .. (i - 1) : u[k] \notin Sections
  <2> SUFFICES ASSUME NEW k \in 1 .. (i - 1), u[k] \in Sections PROVE FALSE
    OBVIOUS
  <2>1. k \in 1 .. Len(u) /\ (k < h \/ k = h)
    BY <1>1
  <2>2. Ordered(u)
    BY DEF Sane
  <2> QED
    BY <2>1, <2>2 DEF Ordered, Sections
<1>9. "timeout_10" \in Timeout /\ "timeout_10" # "boot_loader" /\ "timeout_10" \notin Section
    BY DEF Timeout, Section
<1>10. \A l \in i .. (i + 1 - 1) : \E j \in 1 .. l : v[j] = "boot_loader"
  <2>1. h \in 1 .. i
    BY <1>1
  <2> QED
    BY <1>5, <1>7, <2>1
<1>11. i = 1 \/ \A l \in i .. (i + 1 - 1) : v[l] \notin Section
    BY <1>6, <1>9
<1>12. \A l \in i .. (i + 1 - 1) :
           /\ v[l] \notin Sections
           /\ v[l] \in Timeout \cup {"boot_loader"} => \A k \in 1 .. (i - 1) : u[k] \notin Sections
           /\ v[l] = "boot_loader" =>
                  NoHead(u) /\ \A m \in i .. (i + 1 - 1) : v[m] = "boot_loader" => l = m
           /\ v[l] \in Timeout =>
                  /\ NoTimeout(u) /\ \A m \in i .. (i + 1 - 1) : v[m] \in Timeout => l = m
                  /\ \E j \in 1 .. l : v[j] = "boot_loader"
    BY <1>5, <1>6, <1>8, <1>9, <1>10 DEF Sections
<1>13. Fits(u, v, i, 1)
    BY <1>3, <1>11, <1>12, Zenon DEF Fits
<1>14. Sane(v)
    BY <1>4, <1>13, StaysSane
<1> QED
    BY <1>4, <1>7, <1>14 DEF v

\* A section of the boot loader is put on top.
LEMMA TopPutOn ==
    ASSUME NEW u, Sane(u), NoHead(u), NoTimeout(u)
    PROVE  LET v == <<"boot_loader", "timeout_10">> \o u
           IN Sane(v) /\ Grown(u, v, 1, 2) /\ v[1] = "boot_loader" /\ v[2] = "timeout_10"
<1> DEFINE v == <<"boot_loader", "timeout_10">> \o u
<1>1. u \in Seq(Line) /\ Len(u) \in Nat \ {0}
    BY DEF Sane, Blank
<1>2. /\ v \in Seq(Line) /\ Len(v) = Len(u) + 2
      /\ v[1] = "boot_loader" /\ v[2] = "timeout_10"
      /\ \A j \in 1 .. Len(u) : v[j + 2] = u[j]
    BY <1>1, PutOnTop
<1> HIDE DEF v
<1>3. PICK i \in Nat, d \in Nat : i = 1 /\ d = 2
    OBVIOUS
<1>4. Grown(u, v, i, d)
    BY <1>1, <1>2, <1>3 DEF Grown
<1>5. \A l \in i .. (i + d - 1) : (l = 1 /\ v[l] = "boot_loader") \/ (l = 2 /\ v[l] = "timeout_10")
    BY <1>2, <1>3
<1>6. "timeout_10" \in Timeout /\ "timeout_10" # "boot_loader" /\ "timeout_10" \notin Section
      /\ "boot_loader" \notin Timeout /\ "boot_loader" \notin Sections
    BY DEF Timeout, Section, Sections
<1>7. \A l \in i .. (i + d - 1) :
          /\ v[l] \notin Sections
          /\ v[l] \in Timeout \cup {"boot_loader"} => \A k \in 1 .. (i - 1) : u[k] \notin Sections
          /\ v[l] = "boot_loader" =>
                 NoHead(u) /\ \A m \in i .. (i + d - 1) : v[m] = "boot_loader" => l = m
          /\ v[l] \in Timeout =>
                 /\ NoTimeout(u) /\ \A m \in i .. (i + d - 1) : v[m] \in Timeout => l = m
                 /\ \E j \in 1 .. l : v[j] = "boot_loader"
  <2>1. \A k \in 1 .. (i - 1) : u[k] \notin Sections
    BY <1>3
  <2>2. \A l \in i .. (i + d - 1) : \E j \in 1 .. l : v[j] = "boot_loader"
    <3>1. \A l \in i .. (i + d - 1) : 1 \in 1 .. l
      BY <1>3
    <3> QED
      BY <1>2, <3>1
  <2> QED
    BY <1>5, <1>6, <2>1, <2>2 DEF Sections
<1>8. Fits(u, v, i, d)
    BY <1>1, <1>3, <1>7 DEF Fits
<1>9. Sane(v)
    BY <1>4, <1>8, StaysSane
<1> QED
    BY <1>2, <1>3, <1>4, <1>9 DEF v

\* A timeout is overwritten.
LEMMA TimeoutWrittenOver ==
    ASSUME NEW u, Sane(u), NEW i \in 1 .. Len(u), u[i] \in Timeout
    PROVE  LET v == [u EXCEPT ![i] = "timeout_10"]
           IN Sane(v) /\ Len(v) = Len(u) /\ v[i] = "timeout_10" /\ \A k \in 1 .. Len(u) : k # i => v[k] = u[k]
<1> DEFINE v == [u EXCEPT ![i] = "timeout_10"]
<1>1. u \in Seq(Line) /\ Len(u) \in Nat \ {0} /\ u[Len(u)] = "blank"
    BY DEF Sane, Blank
<1>2. "timeout_10" \in Line /\ "timeout_10" \in Timeout
    BY OwnLines DEF Timeout
<1>3. v \in Seq(Line) /\ Len(v) = Len(u) /\ v[i] = "timeout_10" /\ \A k \in 1 .. Len(u) : k # i => v[k] = u[k]
    BY <1>1, <1>2, ExceptSeq
<1> HIDE DEF v
<1>4. \A l \in Timeout : l \notin Section /\ l \notin Sections /\ l # "blank" /\ l # "boot_loader" /\ l # "operating_systems"
    BY DEF Timeout, Section, Sections
<1>5. ASSUME NEW k \in 1 .. Len(u)
      PROVE  /\ v[k] \in Timeout <=> u[k] \in Timeout
             /\ v[k] \in Section <=> u[k] \in Section
             /\ v[k] \in Sections <=> u[k] \in Sections
             /\ v[k] = "blank" <=> u[k] = "blank"
             /\ v[k] = "boot_loader" <=> u[k] = "boot_loader"
             /\ v[k] = "operating_systems" <=> u[k] = "operating_systems"
    BY <1>2, <1>3, <1>4
<1>6. Blank(v)
    BY <1>1, <1>3, <1>5 DEF Blank
<1>7. HasRoom(v)
  <2>1. PICK k \in 1 .. Len(u) : u[k] = "blank" /\ InSystems(u, k)
    BY DEF Sane, HasRoom
  <2>2. InSystems(v, k)
    <3>1. \A l \in 1 .. k : l \in 1 .. Len(u)
      BY <1>1
    <3>2. PICK j \in 1 .. (k - 1) : u[j] = "operating_systems" /\ \A l \in (j + 1) .. k : u[l] \notin Section
      BY <2>1 DEF InSystems
    <3>3. j \in 1 .. k /\ \A l \in (j + 1) .. k : l \in 1 .. k
      BY <1>1
    <3> QED
      BY <1>5, <3>1, <3>2, <3>3 DEF InSystems
  <2> QED
    BY <1>3, <1>5, <2>1, <2>2 DEF HasRoom
<1>8. Ordered(v)
  <2>1. Ordered(u)
    BY DEF Sane
  <2> QED
    BY <1>3, <1>5, <2>1 DEF Ordered
<1>9. OneHead(v)
  <2>1. OneHead(u)
    BY DEF Sane
  <2> QED
    BY <1>3, <1>5, <2>1 DEF OneHead
<1>10. OneTimeout(v)
  <2>1. OneTimeout(u)
    BY DEF Sane
  <2> QED
    BY <1>3, <1>5, <2>1 DEF OneTimeout
<1>11. Led(v)
  <2>1. Led(u)
    BY DEF Sane
  <2> SUFFICES ASSUME NEW k \in 1 .. Len(u), NEW l \in 1 .. Len(u), k < l, v[k] \in Timeout, v[l] \in Section,
                      \A m \in (k + 1) .. (l - 1) : v[m] \in Own
               PROVE  \E j \in 1 .. k : v[j] = "boot_loader"
    BY <1>3 DEF Led
  <2>2. (\A m \in (k + 1) .. (l - 1) : m \in 1 .. Len(u)) /\ \A j \in 1 .. k : j \in 1 .. Len(u)
    BY <1>1
  <2>3. \A m \in (k + 1) .. (l - 1) : u[m] \in Own
    <3>1. "timeout_10" \notin Own
      BY DEF Own
    <3> QED
      BY <1>3, <2>2, <3>1
  <2>4. PICK j \in 1 .. k : u[j] = "boot_loader"
    BY <1>5, <2>1, <2>3 DEF Led
  <2> QED
    BY <1>5, <2>2, <2>4
<1>12. Sane(v)
    BY <1>6, <1>7, <1>8, <1>9, <1>10, <1>11 DEF Sane
<1> QED
    BY <1>3, <1>12 DEF v

\* A timeout is taken out.
LEMMA TimeoutTakenOut ==
    ASSUME NEW u, Sane(u), NEW i \in 1 .. Len(u), u[i] \in Timeout
    PROVE  LET v == RemoveAt(u, i)
           IN Sane(v) /\ Grown(v, u, i, 1) /\ NoTimeout(v)
<1> DEFINE v == RemoveAt(u, i)
<1>1. u \in Seq(Line) /\ Len(u) \in Nat \ {0} /\ u[Len(u)] = "blank"
    BY DEF Sane, Blank
<1>2. v \in Seq(Line) /\ Len(v) = Len(u) - 1 /\ (\A k \in 1 .. (i - 1) : v[k] = u[k])
      /\ \A k \in i .. (Len(u) - 1) : v[k] = u[k + 1]
    BY <1>1, TakeOut
<1> HIDE DEF v
<1>3. \A l \in Timeout : l \notin Section /\ l \notin Sections /\ l # "blank" /\ l # "boot_loader"
    BY DEF Timeout, Section, Sections
<1>4. i < Len(u)
    BY <1>1, <1>3
<1>5. Grown(v, u, i, 1)
  <2>1. Len(v) \in Nat /\ 1 \in Nat /\ i \in 1 .. Len(v) + 1 /\ Len(u) = Len(v) + 1
    BY <1>1, <1>2, <1>4
  <2>2. \A k \in 1 .. (i - 1) : u[k] = v[k]
    BY <1>2
  <2>3. \A k \in i .. Len(v) : u[k + 1] = v[k]
    BY <1>2
  <2> QED
    BY <1>1, <1>2, <2>1, <2>2, <2>3 DEF Grown
<1>6. /\ \A k \in 1 .. Len(v) : Up(k, i, 1) \in 1 .. Len(u) /\ u[Up(k, i, 1)] = v[k]
      /\ \A l \in 1 .. Len(u) : l \in i .. (i + 1 - 1) \/ \E k \in 1 .. Len(v) : l = Up(k, i, 1)
      /\ \A j, k \in 1 .. Len(v) : j < k <=> Up(j, i, 1) < Up(k, i, 1)
    BY <1>5, GrownUp
<1>7. \A l \in i .. (i + 1 - 1) : l = i
    BY <1>1
<1>8. Blank(u) /\ HasRoom(u) /\ Ordered(u) /\ OneHead(u) /\ OneTimeout(u) /\ Led(u)
    BY DEF Sane
<1>9. Blank(v)
  <2>1. Len(v) \in i .. (Len(u) - 1) /\ Len(v) + 1 = Len(u) /\ Len(v) \in Nat \ {0}
    BY <1>1, <1>2, <1>4
  <2> QED
    BY <1>1, <1>2, <2>1 DEF Blank
<1>10. HasRoom(v)
  <2>1. PICK l \in 1 .. Len(u) : u[l] = "blank" /\ InSystems(u, l)
    BY <1>8 DEF HasRoom
  <2>2. PICK k \in 1 .. Len(v) : l = Up(k, i, 1)
    BY <1>3, <1>6, <1>7, <2>1
  <2>3. \A q \in i .. (i + 1 - 1) : u[q] \notin Section
    BY <1>3, <1>7
  <2>4. InSystems(u, Up(k, i, 1))
    BY <2>1, <2>2
  <2>5. InSystems(v, k)
    BY <1>5, <2>3, <2>4, SystemsDown
  <2> QED
    BY <1>6, <2>1, <2>2, <2>5 DEF HasRoom
<1>11. Ordered(v)
  <2> SUFFICES ASSUME NEW j \in 1 .. Len(v), NEW k \in 1 .. Len(v), j < k, v[j] \in Sections
               PROVE  v[k] \notin Timeout /\ v[k] # "boot_loader"
    BY DEF Ordered
  <2> QED
    BY <1>6, <1>8, ZenonT(60) DEF Ordered
<1>12. NoTimeout(v)
  <2> SUFFICES ASSUME NEW k \in 1 .. Len(v), v[k] \in Timeout PROVE FALSE
    BY DEF NoTimeout
  <2>1. Up(k, i, 1) = i
    BY <1>6, <1>8 DEF OneTimeout
  <2> QED
    BY <1>1, <2>1 DEF Up
<1>13. OneHead(v)
  <2> SUFFICES ASSUME NEW j \in 1 .. Len(v), NEW k \in 1 .. Len(v), v[j] = "boot_loader", v[k] = "boot_loader"
               PROVE  j = k
    BY DEF OneHead
  <2>1. Up(j, i, 1) = Up(k, i, 1)
    BY <1>6, <1>8 DEF OneHead
  <2>2. ~(j < k) /\ ~(k < j)
    BY <1>1, <1>6, <2>1
  <2> QED
    BY <1>1, <1>2, <2>2
<1>14. OneTimeout(v) /\ Led(v)
    BY <1>12 DEF OneTimeout, Led, NoTimeout
<1>15. Sane(v)
    BY <1>9, <1>10, <1>11, <1>13, <1>14 DEF Sane
<1> QED
    BY <1>5, <1>12, <1>15 DEF v

-----------------------------------------------------------------------------
(* What the scan has found                                                  *)

\* Line i comes behind the header of the operating systems and no other.
Behind(u, i) ==
    \E j \in 1 .. i : u[j] = "operating_systems" /\ \A k \in (j + 1) .. i : u[k] \notin Section

\* What a line changes of where the next one stands.
LEMMA BehindGoesOn ==
    ASSUME NEW u, NEW i \in Nat \ {0}
    PROVE  /\ u[i] = "operating_systems" => Behind(u, i)
           /\ u[i] \in Sections \ {"operating_systems"} => ~Behind(u, i)
           /\ u[i] \notin Section => (Behind(u, i) <=> Behind(u, i - 1)) /\ (InSystems(u, i) <=> Behind(u, i))
           /\ Behind(u, i) => \E j \in 1 .. i : u[j] = "operating_systems"
<1>1. ASSUME u[i] = "operating_systems"
      PROVE  Behind(u, i)
  <2>1. i \in 1 .. i /\ \A k \in (i + 1) .. i : FALSE
    OBVIOUS
  <2> QED
    BY <1>1, <2>1 DEF Behind
<1>2. ASSUME u[i] \in Sections \ {"operating_systems"}, Behind(u, i)
      PROVE  FALSE
  <2>1. PICK j \in 1 .. i : u[j] = "operating_systems" /\ \A k \in (j + 1) .. i : u[k] \notin Section
    BY <1>2 DEF Behind
  <2>2. j # i
    BY <1>2, <2>1
  <2>3. i \in (j + 1) .. i
    BY <2>2
  <2> QED
    BY <1>2, <2>1, <2>3 DEF Sections
<1>3. ASSUME u[i] \notin Section
      PROVE  (Behind(u, i) <=> Behind(u, i - 1)) /\ (InSystems(u, i) <=> Behind(u, i))
  <2>1. ASSUME Behind(u, i)
        PROVE  Behind(u, i - 1) /\ InSystems(u, i)
    <3>1. PICK j \in 1 .. i : u[j] = "operating_systems" /\ \A k \in (j + 1) .. i : u[k] \notin Section
      BY <2>1 DEF Behind
    <3>2. j # i
      BY <1>3, <3>1 DEF Section
    <3>3. j \in 1 .. (i - 1) /\ \A k \in (j + 1) .. (i - 1) : k \in (j + 1) .. i
      BY <3>2
    <3> QED
      BY <3>1, <3>3 DEF Behind, InSystems
  <2>2. ASSUME Behind(u, i - 1)
        PROVE  Behind(u, i)
    <3>1. PICK j \in 1 .. (i - 1) : u[j] = "operating_systems" /\ \A k \in (j + 1) .. (i - 1) : u[k] \notin Section
      BY <2>2 DEF Behind
    <3>2. j \in 1 .. i /\ \A k \in (j + 1) .. i : k = i \/ k \in (j + 1) .. (i - 1)
      OBVIOUS
    <3> QED
      BY <1>3, <3>1, <3>2 DEF Behind
  <2>3. ASSUME InSystems(u, i)
        PROVE  Behind(u, i)
    <3>1. PICK j \in 1 .. (i - 1) : u[j] = "operating_systems" /\ \A k \in (j + 1) .. i : u[k] \notin Section
      BY <2>3 DEF InSystems
    <3>2. j \in 1 .. i
      OBVIOUS
    <3> QED
      BY <3>1, <3>2 DEF Behind
  <2> QED
    BY <2>1, <2>2, <2>3
<1>4. Behind(u, i) => \E j \in 1 .. i : u[j] = "operating_systems"
    BY DEF Behind
<1> QED
    BY <1>1, <1>2, <1>3, <1>4

\* The head and the timeout that were seen, among the first n lines of u.
Found(s, n) ==
    /\ s.head = 0 => ~s.timed /\ \A k \in 1 .. n : s.lines[k] # "boot_loader"
    /\ s.head # 0 => s.head \in 1 .. n /\ s.lines[s.head] = "boot_loader"
    /\ ~s.timed => \A k \in 1 .. n : s.lines[k] \notin Timeout
    /\ s.timed => \E k \in 1 .. n : s.head < k /\ s.lines[k] = "timeout_10"

Lacks(u, entry) == \A k \in 1 .. Len(u) : u[k] # entry
\* The entry is there once, among the operating systems.
Entered(u, entry) ==
    \E k \in 1 .. Len(u) : u[k] = entry /\ InSystems(u, k) /\ \A j \in 1 .. Len(u) : u[j] = entry => j = k

\* The place of the entry is sought behind line i, of n lines at first.
Seeking(s, i, n, entry) ==
    /\ s \in ScanState /\ Sane(s.lines) /\ Lacks(s.lines, entry)
    /\ ~s.over /\ i \in Nat /\ Len(s.lines) \in Nat /\ Len(s.lines) <= n
    /\ s.section <=> Behind(s.lines, i)
    /\ \A k \in 1 .. i : InSystems(s.lines, k) => s.lines[k] # "blank"
    /\ Found(s, i)
Settled(s, entry) ==
    /\ s \in ScanState /\ Sane(s.lines) /\ Entered(s.lines, entry)
    /\ s.over /\ Len(s.lines) \in Nat /\ Found(s, Len(s.lines))

\* The loop does not come to the end of the text.
LEMMA SeekingEnds ==
    ASSUME NEW s, NEW i, NEW n, NEW entry, Seeking(s, i, n, entry)
    PROVE  i < Len(s.lines)
<1>1. i \in Nat /\ Len(s.lines) \in Nat /\ \A k \in 1 .. i : InSystems(s.lines, k) => s.lines[k] # "blank"
    BY DEF Seeking
<1>2. PICK k \in 1 .. Len(s.lines) : s.lines[k] = "blank" /\ InSystems(s.lines, k)
    BY DEF Seeking, Sane, HasRoom
<1> QED
    BY <1>1, <1>2

\* Behind the head of the operating systems is neither another nor a timeout.
LEMMA NothingBehind ==
    ASSUME NEW u, Sane(u), NEW j \in 1 .. Len(u), u[j] \in Sections, NEW k \in 1 .. Len(u), j <= k
    PROVE  u[k] \notin Timeout /\ u[k] # "boot_loader"
<1>1. Len(u) \in Nat /\ Ordered(u)
    BY DEF Sane, Blank
<1>2. u[j] \notin Timeout /\ u[j] # "boot_loader"
    BY DEF Sections, Section, Timeout
<1> QED
    BY <1>1, <1>2 DEF Ordered

\* A step of the scan goes on seeking, or settles the text.
LEMMA ScanSeeks ==
    ASSUME NEW s, NEW i \in Nat \ {0}, NEW n \in Nat, NEW entry \in Own, Seeking(s, i - 1, n, entry)
    PROVE  Seeking(Scan(s, i, entry), i, n, entry) \/ Settled(Scan(s, i, entry), entry)
<1> DEFINE r == Scan(s, i, entry)
           u == s.lines
<1>1. /\ s \in ScanState /\ Sane(u) /\ Lacks(u, entry)
      /\ ~s.over /\ Len(u) \in Nat /\ Len(u) <= n
      /\ s.section <=> Behind(u, i - 1)
      /\ \A k \in 1 .. (i - 1) : InSystems(u, k) => u[k] # "blank"
      /\ Found(s, i - 1)
    BY DEF Seeking
<1>2. i \in 1 .. Len(u) /\ i <= Len(u)
  <2>1. i - 1 < Len(u)
    BY SeekingEnds
  <2> QED
    BY <1>1, <2>1
<1>3. ScanStep(s, i, entry, r) /\ r \in ScanState
    BY <1>1, ScanCases, ScanTypes
<1> HIDE DEF r
<1> SUFFICES Seeking(r, i, n, entry) \/ Settled(r, entry)
    BY DEF r
<1>4. \A k \in 1 .. i : k = i \/ k \in 1 .. (i - 1)
    OBVIOUS
<1>5. u \in Seq(Line) /\ Ordered(u) /\ OneHead(u) /\ OneTimeout(u) /\ Led(u)
    BY <1>1 DEF Sane, Blank
<1>6. /\ s.head = 0 => ~s.timed /\ \A k \in 1 .. (i - 1) : u[k] # "boot_loader"
      /\ s.head # 0 => s.head \in 1 .. (i - 1) /\ u[s.head] = "boot_loader"
      /\ ~s.timed => \A k \in 1 .. (i - 1) : u[k] \notin Timeout
      /\ s.timed => \E k \in 1 .. (i - 1) : s.head < k /\ u[k] = "timeout_10"
    BY <1>1 DEF Found
<1>7. /\ u[i] = "operating_systems" => Behind(u, i)
      /\ u[i] \in Sections \ {"operating_systems"} => ~Behind(u, i)
      /\ u[i] \notin Section => (Behind(u, i) <=> Behind(u, i - 1)) /\ (InSystems(u, i) <=> Behind(u, i))
      /\ Behind(u, i) => \E j \in 1 .. i : u[j] = "operating_systems"
    BY BehindGoesOn
<1>8. \A k \in 1 .. (i - 1) : k \in 1 .. i
    OBVIOUS
<1>9. ASSUME r.lines = u, r.over = FALSE, r.section <=> Behind(u, i), InSystems(u, i) => u[i] # "blank", Found(r, i)
      PROVE  Seeking(r, i, n, entry)
  <2>1. \A k \in 1 .. i : InSystems(u, k) => u[k] # "blank"
    BY <1>1, <1>4, <1>9
  <2> QED
    BY <1>1, <1>3, <1>9, <2>1, Zenon DEF Seeking
<1>10. CASE Passes(s, i) /\ r = s
    BY <1>1, <1>2, <1>10 DEF Passes
<1>11. ASSUME u[i] \notin Timeout, u[i] # "boot_loader", r.lines = u, r.head = s.head, r.timed = s.timed
       PROVE  Found(r, i)
    BY <1>4, <1>6, <1>8, <1>11 DEF Found
<1>12. CASE Sees(s, i, "operating_systems") /\ r = [s EXCEPT !.section = TRUE]
  <2>1. r.lines = u /\ r.over = FALSE /\ r.section = TRUE /\ r.head = s.head /\ r.timed = s.timed
        /\ u[i] = "operating_systems"
    BY <1>1, <1>12 DEF Sees, ScanState
  <2>2. u[i] \notin Timeout /\ u[i] # "boot_loader" /\ u[i] # "blank"
    BY <2>1 DEF Timeout
  <2> QED
    BY <1>7, <1>9, <1>11, <2>1, <2>2
<1>13. CASE Sees(s, i, "other_section") /\ r = [s EXCEPT !.section = FALSE]
  <2>1. r.lines = u /\ r.over = FALSE /\ r.section = FALSE /\ r.head = s.head /\ r.timed = s.timed
        /\ u[i] = "other_section"
    BY <1>1, <1>13 DEF Sees, ScanState
  <2>2. u[i] \notin Timeout /\ u[i] # "boot_loader" /\ u[i] # "blank" /\ u[i] \in Sections \ {"operating_systems"}
    BY <2>1 DEF Timeout, Sections, Section
  <2> QED
    BY <1>7, <1>9, <1>11, <2>1, <2>2
<1>14. CASE Sees(s, i, "boot_loader") /\ r = [s EXCEPT !.head = i]
  <2>1. r.lines = u /\ r.over = FALSE /\ r.section = s.section /\ r.head = i /\ r.timed = s.timed
        /\ u[i] = "boot_loader"
    BY <1>1, <1>14 DEF Sees, ScanState
  <2>2. \A j \in 1 .. i : u[j] # "operating_systems"
    <3> SUFFICES ASSUME NEW j \in 1 .. i, u[j] = "operating_systems" PROVE FALSE
      OBVIOUS
    <3>1. j \in 1 .. Len(u) /\ j <= i /\ u[j] \in Sections
      BY <1>2 DEF Sections, Section
    <3> QED
      BY <1>1, <1>2, <2>1, <3>1, NothingBehind
  <2>3. ~Behind(u, i) /\ ~Behind(u, i - 1)
    BY <1>8, <2>2 DEF Behind
  <2>4. s.head = 0
    <3> SUFFICES ASSUME s.head # 0 PROVE FALSE
      OBVIOUS
    <3>1. s.head \in 1 .. Len(u) /\ s.head # i
      BY <1>2, <1>6
    <3> QED
      BY <1>2, <1>5, <1>6, <2>1, <3>1 DEF OneHead
  <2>5. Found(r, i)
    <3>1. u[i] \notin Timeout /\ i # 0 /\ i \in 1 .. i
      BY <2>1 DEF Timeout
    <3> QED
      BY <1>4, <1>6, <2>1, <2>4, <3>1 DEF Found
  <2> QED
    BY <1>1, <1>9, <2>1, <2>3, <2>5
<1>15. CASE Times(s, i) /\ s.head = 0 /\ r = [s EXCEPT !.lines = RemoveAt(@, i)]
  <2> DEFINE v == RemoveAt(u, i)
  <2>1. u[i] \in Timeout /\ s.head = 0
    BY <1>15 DEF Times
  <2>2. Sane(v) /\ Grown(v, u, i, 1) /\ NoTimeout(v)
    BY <1>1, <1>2, <2>1, TimeoutTakenOut
  <2> HIDE DEF v
  <2>3. r.lines = v /\ r.over = FALSE /\ r.section = s.section /\ r.head = 0 /\ r.timed = FALSE
    BY <1>1, <1>6, <1>15, <2>1 DEF ScanState, v
  <2>4. /\ v \in Seq(Line) /\ Len(v) \in Nat /\ Len(u) = Len(v) + 1 /\ i <= Len(v) + 1
        /\ \A k \in 1 .. (i - 1) : u[k] = v[k]
        /\ \A k \in i .. Len(v) : u[k + 1] = v[k]
    BY <2>2 DEF Grown
  <2>5. i <= Len(v)
    <3>1. i # Len(u)
      BY <1>1, <2>1 DEF Sane, Blank, Timeout
    <3> QED
      BY <1>2, <2>4, <3>1
  <2>6. \A j \in 1 .. (i - 1) : u[j] \notin Section
    <3> SUFFICES ASSUME NEW j \in 1 .. (i - 1), u[j] \in Section PROVE FALSE
      OBVIOUS
    <3>1. u[j] \in Sections /\ j \in 1 .. Len(u) /\ j <= i
      BY <1>2, <1>6, <2>1 DEF Sections
    <3> QED
      BY <1>1, <1>2, <2>1, <3>1, NothingBehind
  <2>7. v[i] \notin Section
    <3>1. v[i] = u[i + 1] /\ i + 1 <= Len(u) /\ i \in i .. Len(v)
      BY <2>4, <2>5
    <3>2. \A j \in 1 .. i : u[j] # "boot_loader"
      <4>1. u[i] # "boot_loader"
        BY <2>1 DEF Timeout
      <4> QED
        BY <1>4, <1>6, <2>1, <4>1
    <3>3. i < i + 1 /\ i + 1 \in 1 .. Len(u) /\ \A m \in (i + 1) .. (i + 1 - 1) : FALSE
      BY <1>2, <3>1
    <3> QED
      BY <1>2, <1>5, <2>1, <3>1, <3>2, <3>3 DEF Led
  <2>8. \A j \in 1 .. i : v[j] \notin Section
    BY <1>4, <2>4, <2>6, <2>7
  <2>9. ~Behind(v, i) /\ ~Behind(u, i - 1)
    BY <2>6, <2>8 DEF Behind, Section
  <2>10. \A k \in 1 .. i : InSystems(v, k) => v[k] # "blank"
    <3>1. \A k \in 1 .. i : \A j \in 1 .. (k - 1) : j \in 1 .. i
      OBVIOUS
    <3> QED
      BY <2>8, <3>1 DEF InSystems, Section
  <2>11. Lacks(v, entry)
    <3>1. \A k \in 1 .. Len(v) : Up(k, i, 1) \in 1 .. Len(u) /\ u[Up(k, i, 1)] = v[k]
      BY <2>2, GrownUp
    <3>2. \A k \in 1 .. Len(u) : u[k] # entry
      BY <1>1 DEF Lacks
    <3> QED
      BY <3>1, <3>2 DEF Lacks
  <2>12. Found(r, i)
    <3>1. \A k \in 1 .. i : v[k] # "boot_loader" /\ v[k] \notin Timeout
      <4>1. \A k \in 1 .. i : k \in 1 .. Len(v)
        BY <2>4, <2>5
      <4> QED
        BY <2>2, <2>8, <4>1 DEF NoTimeout, Section
    <3> QED
      BY <2>3, <3>1 DEF Found
  <2>13. Len(v) <= n
    BY <1>1, <2>4
  <2>14. Seeking(r, i, n, entry)
    BY <1>1, <1>3, <2>2, <2>3, <2>4, <2>9, <2>10, <2>11, <2>12, <2>13, Zenon DEF Seeking
  <2> QED
    BY <2>14
<1>16. CASE Times(s, i) /\ s.head # 0 /\ r = [s EXCEPT !.lines[i] = "timeout_10", !.timed = TRUE]
  <2> DEFINE v == [u EXCEPT ![i] = "timeout_10"]
  <2>1. u[i] \in Timeout /\ s.head # 0
    BY <1>16 DEF Times
  <2>2. Sane(v) /\ Len(v) = Len(u) /\ v[i] = "timeout_10" /\ \A k \in 1 .. Len(u) : k # i => v[k] = u[k]
    BY <1>1, <1>2, <2>1, TimeoutWrittenOver
  <2> HIDE DEF v
  <2>3. r.lines = v /\ r.over = FALSE /\ r.section = s.section /\ r.head = s.head /\ r.timed = TRUE
    BY <1>1, <1>16 DEF ScanState, v
  <2>4. \A l \in Timeout : l \notin Section /\ l # "blank" /\ l # "operating_systems" /\ l \notin Own
    BY DEF Timeout, Section, Own
  <2>5. v[i] \notin Section /\ v[i] # "blank" /\ v[i] # "operating_systems" /\ v[i] # entry /\ u[i] \notin Section
    BY <2>1, <2>2, <2>4 DEF Timeout
  <2>6. \A k \in 1 .. (i - 1) : k \in 1 .. Len(u) /\ v[k] = u[k]
    BY <1>2, <2>2
  <2>7. \A k \in 1 .. (i - 1) : \A j \in 1 .. k : j \in 1 .. (i - 1)
    OBVIOUS
  <2>8. Behind(v, i - 1) <=> Behind(u, i - 1)
    <3>1. \A j \in 1 .. (i - 1) : \A k \in (j + 1) .. (i - 1) : k \in 1 .. (i - 1)
      OBVIOUS
    <3> QED
      BY <2>6, <3>1 DEF Behind
  <2>9. Behind(v, i) <=> Behind(v, i - 1)
    BY <2>5, BehindGoesOn
  <2>10. \A k \in 1 .. i : InSystems(v, k) => v[k] # "blank"
    <3> SUFFICES ASSUME NEW k \in 1 .. (i - 1), InSystems(v, k)
                 PROVE  v[k] # "blank"
      BY <1>4, <2>5
    <3>1. \A j \in 1 .. (k - 1) : j \in 1 .. (i - 1) /\ \A l \in (j + 1) .. k : l \in 1 .. (i - 1)
      OBVIOUS
    <3>2. InSystems(u, k)
      BY <2>6, <3>1 DEF InSystems
    <3> QED
      BY <1>1, <2>6, <3>2
  <2>11. Lacks(v, entry)
    BY <1>1, <2>2, <2>5 DEF Lacks
  <2>12. Found(r, i)
    <3>1. s.head \in 1 .. i /\ v[s.head] = "boot_loader" /\ i \in 1 .. i /\ s.head < i
      BY <1>6, <2>1, <2>6
    <3> QED
      BY <2>1, <2>2, <2>3, <3>1 DEF Found
  <2>13. Seeking(r, i, n, entry)
    BY <1>1, <1>3, <2>2, <2>3, <2>8, <2>9, <2>10, <2>11, <2>12 DEF Seeking
  <2> QED
    BY <2>13
<1>17. CASE Sees(s, i, entry) /\ s.section /\ r = [s EXCEPT !.over = TRUE]
    BY <1>1, <1>2, <1>17 DEF Sees, Lacks
<1>18. CASE Sees(s, i, "blank") /\ s.section /\ r = [s EXCEPT !.lines = InsertAt(@, i, entry), !.over = TRUE]
  <2> DEFINE v == InsertAt(u, i, entry)
  <2>1. u[i] = "blank" /\ s.section
    BY <1>18 DEF Sees
  <2>2. entry \in Line /\ entry \notin Section \cup Timeout /\ entry \notin Section
        /\ entry # "boot_loader" /\ entry # "timeout_10" /\ entry \notin Timeout
    BY OwnLines DEF Own, Section, Timeout
  <2>3. Sane(v)
    BY <1>1, <1>2, <2>2, EntryPutIn
  <2>4. Grown(u, v, i, 1) /\ v[i] = entry
    <3>1. i \in 1 .. Len(u) + 1
      BY <1>1, <1>2
    <3> QED
      BY <1>5, <2>2, <3>1, PutInGrows
  <2> HIDE DEF v
  <2>5. r.lines = v /\ r.over = TRUE /\ r.section = s.section /\ r.head = s.head /\ r.timed = s.timed
    BY <1>1, <1>18 DEF ScanState, v
  <2>6. /\ Len(v) = Len(u) + 1
        /\ \A k \in 1 .. (i - 1) : v[k] = u[k]
    BY <2>4 DEF Grown
  <2>7. \A l \in 1 .. Len(v) : l = i \/ \E k \in 1 .. Len(u) : l = Up(k, i, 1) /\ v[l] = u[k]
    <3>1. \A l \in i .. (i + 1 - 1) : l = i
      OBVIOUS
    <3>2. \A l \in 1 .. Len(v) : l \in i .. (i + 1 - 1) \/ \E k \in 1 .. Len(u) : l = Up(k, i, 1)
      BY <2>4, GrownUp
    <3>3. \A k \in 1 .. Len(u) : v[Up(k, i, 1)] = u[k]
      BY <2>4, GrownUp
    <3> QED
      BY <3>1, <3>2, <3>3
  <2>8. PICK j \in 1 .. (i - 1) : u[j] = "operating_systems" /\ \A k \in (j + 1) .. (i - 1) : u[k] \notin Section
    BY <1>1, <2>1 DEF Behind
  <2>9. InSystems(v, i)
    <3>1. v[j] = "operating_systems"
      BY <2>6, <2>8
    <3>2. ASSUME NEW k \in (j + 1) .. i
          PROVE  v[k] \notin Section
      <4>1. k = i \/ (k \in (j + 1) .. (i - 1) /\ k \in 1 .. (i - 1))
        OBVIOUS
      <4> QED
        BY <2>2, <2>4, <2>6, <2>8, <4>1
    <3> QED
      BY <3>1, <3>2 DEF InSystems
  <2>10. Entered(v, entry)
    <3>1. i \in 1 .. Len(v)
      BY <1>1, <1>2, <2>6
    <3>2. \A l \in 1 .. Len(v) : v[l] = entry => l = i
      BY <1>1, <2>7 DEF Lacks
    <3> QED
      BY <2>4, <2>9, <3>1, <3>2 DEF Entered
  <2>11. \A k \in 1 .. Len(u) : u[k] \in Timeout \cup {"boot_loader"} => k \in 1 .. (i - 1)
    <3> SUFFICES ASSUME NEW k \in 1 .. Len(u), u[k] \in Timeout \cup {"boot_loader"}, ~(k < i)
                 PROVE  FALSE
      OBVIOUS
    <3>1. j \in 1 .. Len(u) /\ j <= k /\ u[j] \in Sections
      BY <1>2, <2>8 DEF Sections, Section
    <3> QED
      BY <1>1, <3>1, NothingBehind
  <2>12. ASSUME NEW l \in 1 .. Len(v), v[l] \in Timeout \cup {"boot_loader"}
         PROVE  l \in 1 .. (i - 1) /\ v[l] = u[l]
    <3>1. l # i
      BY <2>2, <2>4, <2>12
    <3>2. PICK k \in 1 .. Len(u) : l = Up(k, i, 1) /\ v[l] = u[k]
      BY <2>7, <3>1
    <3>3. k \in 1 .. (i - 1)
      BY <2>11, <2>12, <3>2
    <3>4. l = k
      BY <3>2, <3>3 DEF Up
    <3> QED
      BY <3>2, <3>3, <3>4
  <2>13. \A k \in 1 .. (i - 1) : k \in 1 .. Len(v)
    BY <1>2, <2>6
  <2>14. Found(r, Len(v))
    <3>1. s.head = 0 => ~s.timed /\ \A k \in 1 .. Len(v) : v[k] # "boot_loader"
      BY <1>6, <2>12
    <3>2. s.head # 0 => s.head \in 1 .. Len(v) /\ v[s.head] = "boot_loader"
      BY <1>6, <2>6, <2>13
    <3>3. ~s.timed => \A k \in 1 .. Len(v) : v[k] \notin Timeout
      BY <1>6, <2>12
    <3>4. s.timed => \E k \in 1 .. Len(v) : s.head < k /\ v[k] = "timeout_10"
      BY <1>6, <2>6, <2>13
    <3> QED
      BY <2>5, <3>1, <3>2, <3>3, <3>4 DEF Found
  <2>15. Settled(r, entry)
    BY <1>1, <1>3, <2>3, <2>5, <2>6, <2>10, <2>14 DEF Settled
  <2> QED
    BY <2>15
<1>19. CASE Skips(s, i, entry) /\ r = s
  <2>1. u[i] \notin Section \cup Timeout /\ (s.section => u[i] # "blank") /\ u[i] # "boot_loader"
        /\ u[i] \notin Section /\ u[i] \notin Timeout
    BY <1>19 DEF Skips, Section
  <2>2. r.lines = u /\ r.over = FALSE /\ r.section = s.section /\ r.head = s.head /\ r.timed = s.timed
    BY <1>1, <1>19 DEF ScanState
  <2>3. r.section <=> Behind(u, i)
    BY <1>1, <1>7, <2>1, <2>2
  <2>4. InSystems(u, i) => u[i] # "blank"
    BY <1>7, <2>1, <2>2, <2>3
  <2> QED
    BY <1>9, <1>11, <2>1, <2>2, <2>3, <2>4
<1> QED
    BY <1>3, <1>10, <1>12, <1>13, <1>14, <1>15, <1>16, <1>17, <1>18, <1>19, Zenon DEF ScanStep

\* The scan of a readable text without the entry settles it: the loop does not come
\* to the end before it has put the entry in.
LEMMA ScannedSettles ==
    ASSUME NEW t, NEW entry \in Own, Sane(t), Lacks(t, entry)
    PROVE  Settled(Scanned(t, entry), entry)
<1>1. t \in Seq(Line) /\ Len(t) \in Nat
    BY DEF Sane, Blank
<1>2. PICK f : Scanning(f, t, entry) /\ Scanned(t, entry) = f[Len(t)]
    BY <1>1, ScannedBy
<1> DEFINE n == Len(t)
           P == {i \in Nat : i <= n => Seeking(f[i], i, n, entry) \/ Settled(f[i], entry)}
<1>3. 0 \in P
  <2>1. /\ ScanStart(t) \in ScanState /\ ScanStart(t).lines = t /\ ScanStart(t).head = 0
        /\ ScanStart(t).over = FALSE /\ ScanStart(t).section = FALSE /\ ScanStart(t).timed = FALSE
    BY <1>1 DEF ScanStart, ScanState
  <2>2. f[0] = ScanStart(t)
    BY <1>2 DEF Scanning
  <2>3. \A k \in 1 .. 0 : FALSE
    OBVIOUS
  <2>4. Found(f[0], 0) /\ ~Behind(t, 0)
    BY <2>1, <2>2, <2>3 DEF Found, Behind
  <2>5. Seeking(f[0], 0, n, entry)
    BY <1>1, <2>1, <2>2, <2>3, <2>4 DEF Seeking
  <2> QED
    BY <2>5
<1>4. ASSUME NEW i \in Nat, 0 <= i, i \in P
      PROVE  i + 1 \in P
  <2> SUFFICES ASSUME i + 1 <= n
               PROVE  Seeking(f[i + 1], i + 1, n, entry) \/ Settled(f[i + 1], entry)
    OBVIOUS
  <2>1. i + 1 \in 1 .. Len(t) /\ (i + 1) - 1 = i /\ i + 1 \in Nat \ {0} /\ i <= n
    BY <1>1
  <2>2. f[i + 1] = Scan(f[i], i + 1, entry)
    <3>1. f[i + 1] = Scan(f[(i + 1) - 1], i + 1, entry)
      BY <1>2, <2>1 DEF Scanning
    <3> QED
      BY <2>1, <3>1
  <2>3. CASE Seeking(f[i], i, n, entry)
    <3>1. Seeking(f[i], (i + 1) - 1, n, entry)
      BY <2>1, <2>3
    <3> HIDE DEF n, P
    <3>2. n \in Nat
      BY <1>1 DEF n
    <3> QED
      BY <2>1, <2>2, <3>1, <3>2, ScanSeeks
  <2>4. CASE Settled(f[i], entry)
    <3>1. f[i].over
      BY <2>4, Zenon DEF Settled
    <3>2. f[i + 1] = f[i]
      BY <2>2, <3>1, Zenon DEF Scan
    <3> QED
      BY <2>4, <3>2
  <2> QED
    BY <1>4, <2>1, <2>3, <2>4
<1> HIDE DEF P
<1>5. \A i \in Nat : 0 <= i => i \in P
    BY <1>3, <1>4, Counting
<1>6. Seeking(f[n], n, n, entry) \/ Settled(f[n], entry)
    BY <1>1, <1>5 DEF P
<1>7. ~Seeking(f[n], n, n, entry)
  <2> SUFFICES ASSUME Seeking(f[n], n, n, entry) PROVE FALSE
    OBVIOUS
  <2>1. n < Len(f[n].lines)
    BY SeekingEnds
  <2>2. Len(f[n].lines) \in Nat /\ Len(f[n].lines) <= n
    BY DEF Seeking
  <2> QED
    BY <1>1, <2>1, <2>2
<1> QED
    BY <1>2, <1>6, <1>7

\* The entry stays where it was put when other lines are put in.
LEMMA EnteredUp ==
    ASSUME NEW u, NEW v, NEW i, NEW d, Grown(u, v, i, d), NEW entry, Entered(u, entry),
           i = 1 \/ \A l \in i .. (i + d - 1) : v[l] \notin Section,
           \A l \in i .. (i + d - 1) : v[l] # entry
    PROVE  Entered(v, entry)
<1>1. PICK k \in 1 .. Len(u) : u[k] = entry /\ InSystems(u, k) /\ \A j \in 1 .. Len(u) : u[j] = entry => j = k
    BY DEF Entered
<1>2. InSystems(v, Up(k, i, d))
    BY <1>1, SystemsUp
<1>3. Up(k, i, d) \in 1 .. Len(v) /\ v[Up(k, i, d)] = entry
    BY <1>1, GrownUp
<1>4. ASSUME NEW l \in 1 .. Len(v), v[l] = entry
      PROVE  l = Up(k, i, d)
  <2>1. PICK j \in 1 .. Len(u) : l = Up(j, i, d)
    BY <1>4, GrownUp
  <2>2. u[j] = entry
    BY <1>4, <2>1, GrownUp
  <2> QED
    BY <1>1, <2>1, <2>2
<1> QED
    BY <1>2, <1>3, <1>4 DEF Entered

\* The timeout of the menu stands behind the head of the boot loader.
TimedMenu(x) == \E j, k \in 1 .. Len(x) : j < k /\ x[j] = "boot_loader" /\ x[k] = "timeout_10"

\* Behind the loop the text has the entry and the timeout, and stays readable.
LEMMA RewrittenLists ==
    ASSUME NEW s, NEW entry \in Own, Settled(s, entry)
    PROVE  Sane(Rewritten(s)) /\ Entered(Rewritten(s), entry) /\ TimedMenu(Rewritten(s))
<1> DEFINE u == s.lines
           v == Rewritten(s)
<1>1. Sane(u) /\ Entered(u, entry) /\ Len(u) \in Nat /\ s.head \in Nat /\ s.timed \in BOOLEAN
    BY DEF Settled, ScanState
<1>2. /\ s.head = 0 => ~s.timed /\ \A k \in 1 .. Len(u) : u[k] # "boot_loader"
      /\ s.head # 0 => s.head \in 1 .. Len(u) /\ u[s.head] = "boot_loader"
      /\ ~s.timed => \A k \in 1 .. Len(u) : u[k] \notin Timeout
      /\ s.timed => \E k \in 1 .. Len(u) : s.head < k /\ u[k] = "timeout_10"
    BY DEF Settled, Found
<1>3. entry # "timeout_10" /\ entry # "boot_loader" /\ "timeout_10" \notin Section
    BY DEF Own, Section
<1>4. CASE s.head = 0
  <2>1. v = <<"boot_loader", "timeout_10">> \o u
    BY <1>4, Zenon DEF Rewritten
  <2>2. NoHead(u) /\ NoTimeout(u)
    BY <1>2, <1>4 DEF NoHead, NoTimeout
  <2>3. Sane(v) /\ Grown(u, v, 1, 2) /\ v[1] = "boot_loader" /\ v[2] = "timeout_10"
    BY <1>1, <2>1, <2>2, TopPutOn
  <2> HIDE DEF v
  <2>4. PICK i \in Nat, d \in Nat : i = 1 /\ d = 2
    OBVIOUS
  <2>5. Grown(u, v, i, d) /\ i = 1
    BY <2>3, <2>4
  <2>6. \A l \in i .. (i + d - 1) : v[l] # entry
    <3>1. \A l \in i .. (i + d - 1) : l = 1 \/ l = 2
      BY <2>4
    <3> QED
      BY <1>3, <2>3, <3>1
  <2>7. Entered(v, entry)
    BY <1>1, <2>5, <2>6, EnteredUp
  <2>8. TimedMenu(v)
    <3>1. Len(v) = Len(u) + 2
      BY <2>3 DEF Grown
    <3>2. 1 \in 1 .. Len(v) /\ 2 \in 1 .. Len(v) /\ 1 < 2
      BY <1>1, <3>1
    <3> QED
      BY <2>3, <3>2 DEF TimedMenu
  <2> QED
    BY <2>3, <2>7, <2>8 DEF v
<1>5. CASE s.head # 0 /\ ~s.timed
  <2> DEFINE h == s.head
  <2>1. v = InsertAt(u, h + 1, "timeout_10")
    BY <1>5, Zenon DEF Rewritten
  <2>2. NoTimeout(u) /\ h \in 1 .. Len(u) /\ u[h] = "boot_loader"
    BY <1>2, <1>5 DEF NoTimeout
  <2> HIDE DEF h
  <2>3. Sane(v) /\ Grown(u, v, h + 1, 1) /\ v[h] = "boot_loader" /\ v[h + 1] = "timeout_10"
    BY <1>1, <2>1, <2>2, TimeoutPutIn
  <2> HIDE DEF v
  <2>4. PICK i \in Nat, d \in Nat : i = h + 1 /\ d = 1
    BY <1>1, <2>2
  <2>5. Grown(u, v, i, d)
    BY <2>3, <2>4
  <2>6. \A l \in i .. (i + d - 1) : v[l] # entry /\ v[l] \notin Section
    <3>1. \A l \in i .. (i + d - 1) : l = h + 1
      BY <2>4
    <3> QED
      BY <1>3, <2>3, <3>1
  <2>7. Entered(v, entry)
    BY <1>1, <2>5, <2>6, EnteredUp
  <2>8. TimedMenu(v)
    <3>1. Len(v) = Len(u) + 1
      BY <2>3 DEF Grown
    <3>2. h \in 1 .. Len(v) /\ h + 1 \in 1 .. Len(v) /\ h < h + 1
      BY <1>1, <2>2, <3>1
    <3> QED
      BY <2>3, <3>2 DEF TimedMenu
  <2> QED
    BY <2>3, <2>7, <2>8 DEF v
<1>6. CASE s.head # 0 /\ s.timed
  <2>1. v = u
    BY <1>6, Zenon DEF Rewritten
  <2>2. TimedMenu(u)
    BY <1>2, <1>6 DEF TimedMenu
  <2> QED
    BY <1>1, <2>1, <2>2
<1> QED
    BY <1>4, <1>5, <1>6

-----------------------------------------------------------------------------
(* The text as it is written                                                *)

Legible(t) == Sane(Append(t, "blank"))

\* What an installation promises of boot.ini.
Listed(text, entry) ==
    /\ Count(text, entry) = 1
    /\ \E i \in DOMAIN text : text[i] = entry /\ InSystems(text, i)
    /\ Count(text, "timeout") = 0 /\ Count(text, "timeout_10") = 1
    /\ Count(text, "boot_loader") = 1
    /\ \E i \in DOMAIN text : text[i] = "timeout_10" /\ InBootLoader(text, i)

\* A line that stands at one place is counted once.
LEMMA CountsOne ==
    ASSUME NEW t \in Seq(Line), NEW l, NEW k \in 1 .. Len(t), t[k] = l,
           \A j \in 1 .. Len(t) : t[j] = l => j = k
    PROVE  Count(t, l) = 1
<1>1. DOMAIN t = 1 .. Len(t)
    BY LenProperties
<1>2. {i \in DOMAIN t : t[i] = l} = {k}
    BY <1>1
<1> QED
    BY <1>2, FS_Singleton DEF Count

\* A line that stands nowhere is not counted.
LEMMA CountsNone ==
    ASSUME NEW t \in Seq(Line), NEW l, \A j \in 1 .. Len(t) : t[j] # l
    PROVE  Count(t, l) = 0
<1>1. DOMAIN t = 1 .. Len(t)
    BY LenProperties
<1>2. {i \in DOMAIN t : t[i] = l} = {}
    BY <1>1
<1> QED
    BY <1>2, FS_EmptySet DEF Count

\* What an installation promises, when the last empty line has been taken off.
LEMMA WrittenLists ==
    ASSUME NEW t \in Seq(Line), NEW entry \in Own,
           Legible(t), Entered(Append(t, "blank"), entry), TimedMenu(Append(t, "blank"))
    PROVE  Listed(t, entry)
<1> DEFINE x == Append(t, "blank")
<1>1. /\ DOMAIN t = 1 .. Len(t) /\ Len(t) \in Nat /\ x \in Seq(Line) /\ Len(x) = Len(t) + 1
      /\ x[Len(t) + 1] = "blank" /\ \A i \in 1 .. Len(t) : x[i] = t[i]
    BY AppendProperties, LenProperties, OwnLines
<1>2. Sane(x) /\ Entered(x, entry) /\ TimedMenu(x)
    BY DEF Legible
<1> HIDE DEF x
<1>3. \A k \in 1 .. Len(x) : x[k] # "blank" => k \in 1 .. Len(t) /\ x[k] = t[k]
    BY <1>1
<1>4. \A k \in 1 .. Len(t) : k \in 1 .. Len(x) /\ x[k] = t[k]
    BY <1>1
<1>5. entry # "blank" /\ "timeout_10" \in Timeout /\ "timeout" \in Timeout
    BY DEF Own, Timeout
<1>6. PICK e \in 1 .. Len(x) : x[e] = entry /\ InSystems(x, e) /\ \A j \in 1 .. Len(x) : x[j] = entry => j = e
    BY <1>2 DEF Entered
<1>7. e \in 1 .. Len(t) /\ t[e] = entry
    BY <1>3, <1>5, <1>6
<1>8. Count(t, entry) = 1
    BY <1>4, <1>6, <1>7, CountsOne
<1>9. InSystems(t, e)
  <2>1. PICK j \in 1 .. (e - 1) : x[j] = "operating_systems" /\ \A k \in (j + 1) .. e : x[k] \notin Section
    BY <1>6 DEF InSystems
  <2>2. j \in 1 .. Len(t) /\ \A k \in (j + 1) .. e : k \in 1 .. Len(t)
    BY <1>1, <1>7
  <2> QED
    BY <1>4, <2>1, <2>2 DEF InSystems
<1>10. PICK h \in 1 .. Len(x), k \in 1 .. Len(x) : h < k /\ x[h] = "boot_loader" /\ x[k] = "timeout_10"
    BY <1>2 DEF TimedMenu
<1>11. h \in 1 .. Len(t) /\ t[h] = "boot_loader" /\ k \in 1 .. Len(t) /\ t[k] = "timeout_10"
    BY <1>3, <1>10
<1>12. Count(t, "boot_loader") = 1
  <2>1. \A j \in 1 .. Len(t) : t[j] = "boot_loader" => j = h
    BY <1>2, <1>4, <1>10 DEF Sane, OneHead
  <2> QED
    BY <1>11, <2>1, CountsOne
<1>13. \A j \in 1 .. Len(t) : t[j] \in Timeout => j = k
    BY <1>2, <1>4, <1>5, <1>10 DEF Sane, OneTimeout
<1>14. Count(t, "timeout_10") = 1
    BY <1>5, <1>11, <1>13, CountsOne
<1>15. Count(t, "timeout") = 0
  <2>1. \A j \in 1 .. Len(t) : t[j] # "timeout"
    BY <1>5, <1>11, <1>13
  <2> QED
    BY <2>1, CountsNone
<1>16. InBootLoader(t, k)
  <2>1. h \in 1 .. (k - 1)
    BY <1>1, <1>10, <1>11
  <2>2. ASSUME NEW m \in (h + 1) .. k PROVE t[m] \notin Section
    <3>1. m \in 1 .. Len(x) /\ m \in 1 .. Len(t) /\ h < m /\ m <= k /\ h # m
      BY <1>1, <1>10, <1>11
    <3>2. x[m] # "boot_loader"
      BY <1>2, <1>10, <3>1 DEF Sane, OneHead
    <3>3. x[m] \notin Sections
      <4>1. CASE m = k
        BY <1>10, <4>1 DEF Sections, Section
      <4>2. CASE m < k
        BY <1>2, <1>5, <1>10, <3>1, <4>2 DEF Sane, Ordered
      <4> QED BY <3>1, <4>1, <4>2
    <3> QED
      BY <1>4, <3>1, <3>2, <3>3 DEF Sections
  <2> QED
    BY <1>11, <2>1, <2>2 DEF InBootLoader
<1> QED
    BY <1>1, <1>7, <1>8, <1>9, <1>11, <1>12, <1>14, <1>15, <1>16 DEF Listed

\* modify_bootini puts the entry and the timeout where the boot menu takes them from.
LEMMA ModifiedLists ==
    ASSUME NEW t \in Seq(Line), NEW entry \in Own, Legible(t), ~Occurs(entry, t)
    PROVE  Legible(Modified(t, entry)) /\ Listed(Modified(t, entry), entry)
<1> DEFINE x == Append(t, "blank")
           w == Modified(t, entry)
<1>1. w \in Seq(Line) /\ Append(w, "blank") = Rewritten(Scanned(x, entry))
    BY ModifiedKeeps
<1>2. /\ DOMAIN t = 1 .. Len(t) /\ Len(t) \in Nat /\ x \in Seq(Line) /\ Len(x) = Len(t) + 1
      /\ x[Len(t) + 1] = "blank" /\ \A i \in 1 .. Len(t) : x[i] = t[i]
    BY AppendProperties, LenProperties, OwnLines
<1>3. Sane(x)
    BY DEF Legible
<1> HIDE DEF x, w
<1>4. Lacks(x, entry)
  <2>1. \A k \in 1 .. Len(x) : k = Len(t) + 1 \/ k \in 1 .. Len(t)
    BY <1>2
  <2>2. entry # "blank"
    BY DEF Own
  <2> QED
    BY <1>2, <2>1, <2>2 DEF Lacks, Occurs
<1>5. Settled(Scanned(x, entry), entry)
    BY <1>3, <1>4, ScannedSettles
<1>6. Sane(Append(w, "blank")) /\ Entered(Append(w, "blank"), entry) /\ TimedMenu(Append(w, "blank"))
    BY <1>1, <1>5, RewrittenLists
<1>7. Legible(w)
    BY <1>6 DEF Legible
<1>8. Listed(w, entry)
    BY <1>1, <1>6, <1>7, WrittenLists
<1> QED
    BY <1>7, <1>8 DEF w

\* The entries can be taken out of a text without making it unreadable.
LEMMA RemovedLegible ==
    ASSUME NEW t \in Seq(Line), NEW entry \in Own, Legible(t)
    PROVE  Legible(Removed(t, entry))
<1> DEFINE x == Append(t, "blank")
           K == {entry}
           w == Without(x, K)
<1>1. "blank" \in Line /\ "blank" \notin K /\ entry # "operating_systems" /\ entry # "blank"
    BY OwnLines DEF Own
<1>2. x \in Seq(Line) /\ Len(x) \in Nat
    BY <1>1, AppendProperties, LenProperties
<1>3. w = Append(Removed(t, entry), "blank")
    BY <1>1, WithoutAppend DEF Removed
<1>4. Sane(x)
    BY DEF Legible
<1>5. PICK g : Within(g, w, x, K)
    BY <1>2, WithoutKeeps
<1>6. Removed(t, entry) \in Seq(Line)
    BY RemovedOccurs
<1>7. Blank(w)
    BY <1>3, <1>6, Ended
<1> HIDE DEF w, x
<1>8. w \in Seq(Line) /\ Len(w) \in Nat
    BY <1>7 DEF Blank
<1>9. /\ \A k \in 1 .. Len(w) : g[k] \in 1 .. Len(x) /\ w[k] = x[g[k]]
      /\ \A k, l \in 1 .. Len(w) : k < l => g[k] < g[l]
      /\ \A i \in 1 .. Len(x) : x[i] # entry => \E k \in 1 .. Len(w) : g[k] = i
    BY <1>5 DEF Within
<1>10. \A k, l \in 1 .. Len(w) : g[k] < g[l] => k < l
  <2> SUFFICES ASSUME NEW k \in 1 .. Len(w), NEW l \in 1 .. Len(w), g[k] < g[l], ~(k < l)
               PROVE  FALSE
    OBVIOUS
  <2>1. l < k \/ l = k
    BY <1>8
  <2>2. g[l] <= g[k] /\ g[l] \in 1 .. Len(x) /\ g[k] \in 1 .. Len(x)
    BY <1>2, <1>9, <2>1
  <2> QED
    BY <1>2, <2>2
<1>11. \A k, l \in 1 .. Len(w) : g[k] = g[l] => k = l
  <2> SUFFICES ASSUME NEW k \in 1 .. Len(w), NEW l \in 1 .. Len(w), g[k] = g[l], k # l
               PROVE  FALSE
    OBVIOUS
  <2>1. l < k \/ k < l
    BY <1>8
  <2>2. g[l] \in Nat /\ (g[l] < g[k] \/ g[k] < g[l])
    BY <1>2, <1>9, <2>1
  <2> QED
    BY <2>2
<1>12. HasRoom(x) /\ Ordered(x) /\ OneHead(x) /\ OneTimeout(x) /\ Led(x)
    BY <1>4 DEF Sane
<1>13. HasRoom(w)
  <2>1. PICK q \in 1 .. Len(x) : x[q] = "blank" /\ InSystems(x, q)
    BY <1>12 DEF HasRoom
  <2>2. PICK p \in 1 .. (q - 1) : x[p] = "operating_systems" /\ \A r \in (p + 1) .. q : x[r] \notin Section
    BY <2>1 DEF InSystems
  <2>3. p \in 1 .. Len(x) /\ p < q
    BY <1>2
  <2>4. PICK j \in 1 .. Len(w), k \in 1 .. Len(w) : g[j] = p /\ g[k] = q
    BY <1>1, <1>9, <2>1, <2>2, <2>3
  <2>5. j < k /\ w[j] = "operating_systems" /\ w[k] = "blank"
    BY <1>9, <1>10, <2>1, <2>2, <2>3, <2>4
  <2>6. ASSUME NEW l \in (j + 1) .. k
        PROVE  w[l] \notin Section
    <3>1. l \in 1 .. Len(w) /\ j < l /\ (l < k \/ l = k)
      BY <1>8
    <3>2. g[l] \in 1 .. Len(x) /\ p < g[l] /\ (g[l] < q \/ g[l] = q) /\ w[l] = x[g[l]]
      BY <1>9, <2>4, <3>1
    <3>3. g[l] \in (p + 1) .. q
      BY <1>2, <2>3, <3>2
    <3> QED
      BY <2>2, <3>2, <3>3
  <2>7. j \in 1 .. (k - 1)
    BY <1>8, <2>5
  <2>8. InSystems(w, k)
    BY <2>5, <2>6, <2>7 DEF InSystems
  <2> QED
    BY <2>5, <2>8 DEF HasRoom
<1>14. Ordered(w)
    BY <1>9, <1>12 DEF Ordered
<1>15. OneHead(w)
    BY <1>9, <1>11, <1>12 DEF OneHead
<1>16. OneTimeout(w)
    BY <1>9, <1>11, <1>12 DEF OneTimeout
<1>17. Led(w)
  <2> SUFFICES ASSUME NEW k \in 1 .. Len(w), NEW l \in 1 .. Len(w), k < l, w[k] \in Timeout, w[l] \in Section,
                      \A m \in (k + 1) .. (l - 1) : w[m] \in Own
               PROVE  \E j \in 1 .. k : w[j] = "boot_loader"
    BY DEF Led
  <2>1. g[k] \in 1 .. Len(x) /\ g[l] \in 1 .. Len(x) /\ g[k] < g[l] /\ x[g[k]] \in Timeout /\ x[g[l]] \in Section
    BY <1>9
  <2>2. ASSUME NEW r \in (g[k] + 1) .. (g[l] - 1)
        PROVE  x[r] \in Own
    <3>1. r \in 1 .. Len(x) /\ g[k] < r /\ r < g[l]
      BY <1>2, <2>1
    <3>2. CASE x[r] # entry
      <4>1. PICK m \in 1 .. Len(w) : g[m] = r
        BY <1>9, <3>1, <3>2
      <4>2. k < m /\ m < l /\ w[m] = x[r]
        BY <1>9, <1>10, <3>1, <4>1
      <4>3. m \in (k + 1) .. (l - 1)
        BY <1>8, <4>2
      <4> QED
        BY <4>2, <4>3
    <3> QED
      BY <3>2
  <2>3. PICK q \in 1 .. g[k] : x[q] = "boot_loader"
    BY <1>12, <2>1, <2>2 DEF Led
  <2>4. q \in 1 .. Len(x) /\ "boot_loader" # entry /\ (q < g[k] \/ q = g[k])
    BY <1>2, <2>1 DEF Own
  <2>5. PICK j \in 1 .. Len(w) : g[j] = q
    BY <1>9, <2>3, <2>4
  <2>6. w[j] = "boot_loader" /\ (j < k \/ j = k)
    BY <1>9, <1>10, <1>11, <2>3, <2>4, <2>5
  <2>7. j \in 1 .. k
    BY <1>8, <2>6
  <2> QED
    BY <2>6, <2>7
<1>18. Sane(w)
    BY <1>7, <1>13, <1>14, <1>15, <1>16, <1>17 DEF Sane
<1> QED
    BY <1>3, <1>18 DEF Legible

\* The first boot.ini can be read.
LEMMA FirstLegible ==
    ASSUME NEW c \in Contents
    PROVE  Legible(c)
<1> DEFINE x == Append(c, "blank")
           n == Len(c)
<1>1. /\ c \in Seq(Line)
      /\ \A i \in DOMAIN c : c[i] \notin Own
      /\ \E i \in DOMAIN c : InSystems(c, i) /\ (c[i] = "blank" \/ i = Len(c))
      /\ \A i, j \in DOMAIN c :
             /\ c[i] = "boot_loader" /\ c[j] = "boot_loader" => i = j
             /\ c[i] \in Timeout /\ c[j] \in Timeout => i = j
             /\ i < j /\ c[i] \in Section \ {"boot_loader"} => c[j] \notin Timeout \cup {"boot_loader"}
      /\ \A i \in 1 .. (Len(c) - 1) :
             c[i] \in Timeout /\ c[i + 1] \in Section => \E j \in 1 .. i : c[j] = "boot_loader"
    BY ContentsAssumption
<1>2. /\ DOMAIN c = 1 .. n /\ n \in Nat /\ x \in Seq(Line) /\ Len(x) = n + 1
      /\ x[n + 1] = "blank" /\ \A i \in 1 .. n : x[i] = c[i]
    BY <1>1, AppendProperties, LenProperties, OwnLines
<1> HIDE DEF x, n
<1>3. \A k \in 1 .. Len(x) : k = n + 1 \/ k \in 1 .. n
    BY <1>2
<1>4. "blank" \notin Section /\ "blank" \notin Sections /\ "blank" \notin Timeout
    BY DEF Section, Sections, Timeout
<1>5. Blank(x)
    BY <1>2 DEF Blank
<1>6. HasRoom(x)
  <2>1. PICK i \in 1 .. n : InSystems(c, i) /\ (c[i] = "blank" \/ i = n)
    BY <1>1, <1>2 DEF n
  <2>2. PICK j \in 1 .. (i - 1) : c[j] = "operating_systems" /\ \A k \in (j + 1) .. i : c[k] \notin Section
    BY <2>1 DEF InSystems
  <2>3. j \in 1 .. n /\ \A k \in (j + 1) .. i : k \in 1 .. n
    BY <1>2
  <2>4. x[j] = "operating_systems" /\ \A k \in (j + 1) .. i : x[k] \notin Section
    BY <1>2, <2>2, <2>3
  <2>5. CASE c[i] = "blank"
    <3>1. InSystems(x, i) /\ x[i] = "blank" /\ i \in 1 .. Len(x)
      BY <1>2, <2>4, <2>5 DEF InSystems
    <3> QED
      BY <3>1 DEF HasRoom
  <2>6. CASE i = n
    <3>1. j \in 1 .. (n + 1 - 1) /\ \A k \in (j + 1) .. (n + 1) : k = n + 1 \/ k \in (j + 1) .. i
      BY <1>2, <2>6
    <3>2. InSystems(x, n + 1)
      BY <1>2, <1>4, <2>4, <3>1 DEF InSystems
    <3>3. n + 1 \in 1 .. Len(x)
      BY <1>2
    <3> QED
      BY <1>2, <3>2, <3>3 DEF HasRoom
  <2> QED
    BY <2>1, <2>5, <2>6, SMTT(40)
<1>7. Ordered(x)
  <2> SUFFICES ASSUME NEW j \in 1 .. Len(x), NEW k \in 1 .. Len(x), j < k, x[j] \in Sections
               PROVE  x[k] \notin Timeout /\ x[k] # "boot_loader"
    BY DEF Ordered
  <2>1. j \in 1 .. n /\ c[j] \in Section \ {"boot_loader"}
    BY <1>2, <1>3, <1>4 DEF Sections
  <2>2. CASE k = n + 1
    BY <1>2, <1>4, <2>2
  <2>3. CASE k \in 1 .. n
    BY <1>1, <1>2, <2>1, <2>3
  <2> QED
    BY <1>3, <2>2, <2>3
<1>8. OneHead(x)
    BY <1>1, <1>2, <1>3 DEF OneHead
<1>9. OneTimeout(x)
    BY <1>1, <1>2, <1>3, <1>4 DEF OneTimeout
<1>10. Led(x)
  <2> SUFFICES ASSUME NEW k \in 1 .. Len(x), NEW l \in 1 .. Len(x), k < l, x[k] \in Timeout, x[l] \in Section,
                      \A m \in (k + 1) .. (l - 1) : x[m] \in Own
               PROVE  \E j \in 1 .. k : x[j] = "boot_loader"
    BY DEF Led
  <2>1. k \in 1 .. n /\ l \in 1 .. n
    BY <1>2, <1>3, <1>4
  <2>2. l = k + 1
    <3> SUFFICES ASSUME l # k + 1 PROVE FALSE
      OBVIOUS
    <3>1. k + 1 \in (k + 1) .. (l - 1) /\ k + 1 \in 1 .. n
      BY <1>2, <2>1
    <3> QED
      BY <1>1, <1>2, <3>1
  <2>3. k \in 1 .. (n - 1) /\ c[k] \in Timeout /\ c[k + 1] \in Section
    BY <1>2, <2>1, <2>2
  <2>4. PICK j \in 1 .. k : c[j] = "boot_loader"
    BY <1>1, <2>3 DEF n
  <2> QED
    BY <1>2, <2>1, <2>4
<1>11. Sane(x)
    BY <1>5, <1>6, <1>7, <1>8, <1>9, <1>10 DEF Sane
<1> QED
    BY <1>11 DEF Legible, x

-----------------------------------------------------------------------------
(* boot.ini stays readable, and lists what was installed                    *)

Installs == task.run \in {"install", "cd_boot"}
Reading ==
    torn \/ /\ Legible(Shown)
            /\ todo # <<>> /\ (Place = 18 \/ (Place = 17 /\ pending # None)) => Listed(Shown, task.entry)
            /\ complete /\ Installs => Listed(Shown, task.entry)
MenuInv == LoaderInv /\ Reading

\* The first boot.ini can be read and nothing was installed.
LEMMA InitReads == Init => Reading
<1> SUFFICES ASSUME Init PROVE Reading
    OBVIOUS
<1>1. Shown = lines /\ lines \in Contents /\ todo = <<>> /\ complete = FALSE
    BY DEF Init, Shown
<1>2. Legible(Shown)
    BY <1>1, FirstLegible
<1> QED
    BY <1>1, <1>2 DEF Reading

\* A list that begins leaves boot.ini as it is.
LEMMA StartReads ==
    ASSUME MenuInv, NEW t \in Tasks, Start(t)
    PROVE  Reading'
<1>1. Reading /\ Listing /\ Listing'
    BY StartLoads DEF MenuInv, LoaderInv
<1>2. /\ todo = <<>> /\ task' = t /\ todo' = StepsOf(t) /\ complete' = FALSE
      /\ lines' = lines /\ pending' = pending /\ torn' = torn
    BY DEF Start
<1>3. Shown' = Shown
    BY <1>2 DEF Shown
<1>4. Place' \in {0, 12}
  <2>1. Begin(t) \in {0, 12} /\ End(t) \in {12, 19} /\ Begin(t) \in 0 .. (End(t) - 1)
    BY DEF Begin, End, Tasks
  <2>2. Len(StepsOf(t)) = End(t) - Begin(t)
    BY <2>1, ListIsRest, RestGoesOn
  <2>3. Place' = End(t) - Len(StepsOf(t))
    BY <1>2 DEF Place, End
  <2> QED
    BY <2>1, <2>2, <2>3
<1>5. Legible(Shown)' <=> Legible(Shown)
    BY <1>3 DEF Legible, Sane, Blank, HasRoom, Ordered, OneHead, OneTimeout, Led, InSystems, Section, Sections, Timeout, Own, Line
<1> QED
    BY <1>1, <1>2, <1>4, <1>5 DEF Reading

\* Of the next state: whether boot.ini can be read,
LEMMA LegibleThen == Legible(Shown)' <=> Legible(Shown')
    BY DEF Legible, Sane, Blank, HasRoom, Ordered, OneHead, OneTimeout, Led, InSystems, Section, Sections,
           Timeout, Own, Line

\* and whether it lists the entry.
LEMMA ListedThen == Listed(Shown, task.entry)' <=> Listed(Shown', task'.entry)
    BY DEF Listed, Count, InSystems, InBootLoader, Section

\* A step of the list that is done, and was not the one that puts in the entry.
LEMMA DoneReads ==
    ASSUME MenuInv, todo # <<>>, Done, pending' = None, torn' = torn, Shown' = Shown,
           Place = 17 => pending # None
    PROVE  Reading'
<1>1. Listing /\ Reading
    BY DEF MenuInv, LoaderInv
<1>2. Listing' /\ Place' = Place + 1 /\ task' = task
    BY <1>1, ListingGoesOn
<1>3. /\ Place \in 0 .. 18 /\ Place + 1 <= End(task) /\ task \in Tasks
      /\ Tail(todo) = Rest(task, Place + 1) /\ Len(Tail(todo)) = End(task) - (Place + 1)
    BY <1>1, NextStep
<1> DEFINE p == Place
<1>4. p \in 0 .. 18 /\ p + 1 <= End(task) /\ Place' = p + 1 /\ Len(Tail(todo)) = End(task) - (p + 1)
    BY <1>2, <1>3
<1>5. torn \/ /\ Legible(Shown)
              /\ todo # <<>> /\ (p = 18 \/ (p = 17 /\ pending # None)) => Listed(Shown, task.entry)
    BY <1>1 DEF Reading
<1> HIDE DEF p
<1>6. ASSUME complete', Installs'
      PROVE  p = 18
  <2>1. End(task) = 19
    BY <1>2, <1>6 DEF Installs, End
  <2>2. Len(Tail(todo)) = 0
    BY <1>6, EmptySeq DEF Done
  <2> DEFINE n == Len(Tail(todo))
             e == End(task)
  <2>3. p \in 0 .. 18 /\ n = e - (p + 1) /\ e = 19 /\ n = 0
    BY <1>4, <2>1, <2>2
  <2> HIDE DEF n, e
  <2> QED
    BY <2>3
<1>7. Legible(Shown)' <=> Legible(Shown)
    BY LegibleThen
<1>8. Listed(Shown, task.entry)' <=> Listed(Shown, task.entry)
    BY <1>2, ListedThen
<1>9. Place' = 18 => p = 17 /\ pending # None
    BY <1>4 DEF p
<1>10. ~(Place' = 17 /\ pending' # None)
    OBVIOUS
<1>11. torn' \/ /\ Legible(Shown)'
                /\ todo' # <<>> /\ (Place' = 18 \/ (Place' = 17 /\ pending' # None)) => Listed(Shown, task.entry)'
                /\ complete' /\ Installs' => Listed(Shown, task.entry)'
    BY <1>5, <1>6, <1>7, <1>8, <1>9, <1>10
<1> QED
    BY <1>11 DEF Reading

\* The steps of the list that leave boot.ini alone.
LEMMA StepsRead ==
    ASSUME MenuInv, Free \/ Guard \/ Unlink \/ CopyEnds
    PROVE  Reading'
<1>1. /\ todo # <<>> /\ pending = None /\ todo[1].do \in {"free", "guard", "unlink", "copy"} /\ Done
      /\ lines' = lines /\ pending' = pending /\ torn' = torn
    BY DEF Free, Guard, Unlink, CopyEnds, Doing
<1>2. At(Place)
    BY <1>1, Stands DEF MenuInv, LoaderInv
<1>3. Place # 17
  <2> SUFFICES ASSUME Place = 17 PROVE FALSE
    OBVIOUS
  <2>1. todo[1] = Plan(task.entry)[18]
    BY <1>2 DEF At
  <2>2. PICK q \in 1 .. 19 : q = 18
    OBVIOUS
  <2>3. todo[1] = Plan(task.entry)[q]
    BY <2>1, <2>2
  <2>4. q \notin {1, 17} /\ q \notin {5, 7, 9, 11} /\ q \notin {4, 19} /\ q # 14 /\ q # 16 /\ q # 13 /\ q # 15
        /\ q \notin {6, 8, 10, 12}
    BY <2>2
  <2> QED
    BY <1>1, <2>3, <2>4, PlanKinds
<1>4. Shown' = Shown
    BY <1>1 DEF Shown
<1> QED
    BY <1>1, <1>3, <1>4, DoneReads

\* What was about to be written is written.
LEMMA WriteReads ==
    ASSUME MenuInv, Write
    PROVE  Reading'
<1>1. pending # None /\ lines' = pending /\ pending' = None /\ torn' = torn /\ Done
    BY DEF Write
<1>2. todo # <<>>
    BY <1>1 DEF MenuInv, LoaderInv, Listing
<1>3. Shown' = Shown
    BY <1>1 DEF Shown
<1> QED
    BY <1>1, <1>2, <1>3, DoneReads

\* A copy that begins leaves boot.ini as it is.
LEMMA CopyBeginsReads ==
    ASSUME MenuInv, CopyBegins
    PROVE  Reading'
<1>1. /\ lines' = lines /\ pending' = pending /\ torn' = torn /\ todo' = todo /\ task' = task
      /\ complete' = complete
    BY DEF CopyBegins
<1>2. Shown' = Shown /\ Place' = Place /\ Installs' = Installs
    BY <1>1 DEF Shown, Place, Installs, End
<1>3. Legible(Shown)' <=> Legible(Shown)
    BY <1>2, LegibleThen
<1>4. Listed(Shown, task.entry)' <=> Listed(Shown, task.entry)
    BY <1>1, <1>2, ListedThen
<1> QED
    BY <1>1, <1>2, <1>3, <1>4 DEF Reading, MenuInv

\* A rewrite is about to leave a readable text, with the entry if it adds one.
LEMMA TruncateReads ==
    ASSUME MenuInv, Truncate
    PROVE  Reading'
<1>1. Texts /\ Listing /\ Loading /\ Reading
    BY DEF MenuInv, LoaderInv
<1>2. torn' = torn /\ todo' = todo /\ task' = task /\ complete' = complete
    BY DEF Truncate
<1>3. /\ todo # <<>> /\ pending = None /\ pending' \in Seq(Line) /\ pending' # None
      /\ \/ Place = 17 /\ task.entry \in Own /\ pending' = Modified(lines, task.entry)
         \/ \E e \in Own : Place \in {1, 2} /\ pending' = Removed(lines, e)
    BY TruncateMakes, MenuInv DEF MenuInv
<1>4. Shown = lines /\ Shown' = pending' /\ lines \in Seq(Line)
    BY <1>1, <1>3 DEF Shown, Texts
<1>5. Place' = Place
    BY <1>2 DEF Place, End
<1>6. complete = FALSE
    BY <1>1, <1>3 DEF Texts, Listing
<1>7. CASE torn
    BY <1>2, <1>7 DEF Reading
<1>8. CASE ~torn /\ Place = 17 /\ task.entry \in Own /\ pending' = Modified(lines, task.entry)
  <2>1. Legible(lines)
    BY <1>1, <1>4, <1>8 DEF Reading
  <2>2. ~Occurs(task.entry, lines)
    <3>1. Clear(17)
      BY <1>1, <1>3, <1>8 DEF Loading
    <3> QED
      BY <3>1 DEF Clear
  <2>3. Legible(pending') /\ Listed(pending', task.entry)
    BY <1>4, <1>8, <2>1, <2>2, ModifiedLists
  <2>4. Legible(Shown)' /\ Listed(Shown, task.entry)'
    BY <1>2, <1>4, <2>3, LegibleThen, ListedThen
  <2> QED
    BY <2>4 DEF Reading
<1>9. ASSUME ~torn, NEW e \in Own, Place \in {1, 2}, pending' = Removed(lines, e)
      PROVE  Reading'
  <2>1. Legible(lines)
    BY <1>1, <1>4, <1>9 DEF Reading
  <2>2. Legible(pending')
    BY <1>4, <1>9, <2>1, RemovedLegible
  <2>3. Legible(Shown)'
    BY <1>4, <2>2, LegibleThen
  <2>4. Place' # 17 /\ Place' # 18
    BY <1>5, <1>9
  <2> QED
    BY <1>2, <1>6, <2>3, <2>4 DEF Reading
<1> QED
    BY <1>3, <1>7, <1>8, <1>9

\* A list that stops is not complete.
LEMMA StopReads ==
    ASSUME MenuInv, Stop
    PROVE  Reading'
<1>1. Texts /\ Listing /\ Reading
    BY DEF MenuInv, LoaderInv
<1>2. todo # <<>> /\ pending' = None /\ todo' = <<>> /\ complete' = complete
    BY DEF Stop
<1>3. complete' = FALSE
    BY <1>1, <1>2 DEF Texts, Listing
<1>4. CASE pending # None
  <2>1. torn' = TRUE
    BY <1>4 DEF Stop
  <2> QED
    BY <2>1 DEF Reading
<1>5. CASE pending = None
  <2>1. lines' = lines /\ torn' = torn
    BY <1>5 DEF Stop
  <2>2. Shown' = Shown
    BY <1>2, <1>5, <2>1 DEF Shown
  <2>3. Legible(Shown)' <=> Legible(Shown)
    BY <2>2, LegibleThen
  <2> QED
    BY <1>1, <1>2, <1>3, <2>1, <2>3 DEF Reading
<1> QED
    BY <1>4, <1>5

\* Every step keeps the invariant.
LEMMA NextReads == MenuInv /\ [Next]_bvars => MenuInv'
<1> SUFFICES ASSUME MenuInv, [Next]_bvars PROVE MenuInv'
    OBVIOUS
<1>1. LoaderInv'
    BY NextLoads DEF MenuInv
<1>2. ASSUME NEW t \in Tasks, Start(t) PROVE Reading'
    BY <1>2, StartReads
<1>3. CASE UNCHANGED bvars
  <2>1. /\ Shown' = Shown /\ Place' = Place /\ Installs' = Installs /\ torn' = torn /\ todo' = todo
        /\ pending' = pending /\ complete' = complete /\ task' = task
    BY <1>3 DEF bvars, Shown, Place, Installs, End
  <2>2. Legible(Shown)' <=> Legible(Shown)
    BY <2>1, LegibleThen
  <2>3. Listed(Shown, task.entry)' <=> Listed(Shown, task.entry)
    BY <2>1, ListedThen
  <2> QED
    BY <1>1, <2>1, <2>2, <2>3 DEF Reading, MenuInv
<1>4. CASE Next
  <2>1. Reading'
    BY <1>2, <1>4, StepsRead, WriteReads, CopyBeginsReads, TruncateReads, StopReads DEF Next
  <2> QED
    BY <1>1, <2>1 DEF MenuInv
<1> QED
    BY <1>3, <1>4

\* Unless a rewrite was cut short, boot.ini is such that modify_bootini can add an
\* entry to it, and from the step that adds one to the end of the list has it.
THEOREM MenuInvariant == Spec => []MenuInv
<1>1. Init => MenuInv
    BY InitLoads, InitReads DEF MenuInv
<1> QED
    BY <1>1, NextReads, PTL DEF Spec

\* What the invariant says when a list has come to its end.
LEMMA MenuLists == MenuInv => InstalledHasEntry
<1> SUFFICES ASSUME MenuInv, complete, ~torn, task.run \in {"install", "cd_boot"}
             PROVE  Listed(lines, task.entry)
    BY DEF InstalledHasEntry, Listed
<1>1. Listed(Shown, task.entry)
    BY DEF MenuInv, Reading, Installs
<1>2. Shown = lines
    BY DEF MenuInv, LoaderInv, Listing, Shown
<1> QED
    BY <1>1, <1>2

\* A list that installs and comes to its end leaves its entry among the operating
\* systems and the timeout in the section of the boot loader, each once, whatever
\* lists were run before and wherever they stopped, unless a rewrite was cut short.
THEOREM InstallationsHaveTheirEntry == Spec => []InstalledHasEntry
    BY MenuInvariant, MenuLists, PTL
=============================================================================
