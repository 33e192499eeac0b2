--------------------------- MODULE SequenceLemmas ---------------------------
(***************************************************************************)
(* Facts about FlattenSeq and about recursive functions on an interval, by *)
(* induction from the fact that a set of naturals has a least element.     *)
(***************************************************************************)
EXTENDS Integers, Sequences, SequencesExt, SequenceTheorems, WellFoundedInduction, TLAPS

-----------------------------------------------------------------------------
(* Induction                                                               *)

\* A nonempty set of naturals has a least element.
LEMMA LeastElement ==
  ASSUME NEW T, T \subseteq Nat, T # {}
  PROVE  \E m \in T : \A x \in T : m <= x
<1>1. PICK R : R = {ss \in Nat \X Nat : ss[1] < ss[2]}
  OBVIOUS
<1>2. IsWellFoundedOn(R, Nat)
  <2>1. OpToRel(<, Nat) = R
    BY <1>1 DEF OpToRel
  <2>. QED
    BY <2>1, NatLessThanWellFounded
<1>3. PICK m \in T : \A y \in T : ~ (<<y, m>> \in R)
  BY <1>2, WFMin, Zenon
<1>4. ASSUME NEW y \in T PROVE m <= y
  <2>1. m \in Nat /\ y \in Nat /\ <<y, m>> \in Nat \X Nat
    OBVIOUS
  <2>2. ~ (<<y, m>> \in R)
    BY <1>3
  <2>3. ~ (y < m)
    BY <1>1, <2>1, <2>2
  <2>. QED
    BY <2>1, <2>3
<1>. QED
  BY <1>4

\* A set that holds 0 and with every number below n the next one holds 0..n.
LEMMA UpTo ==
  ASSUME NEW n \in Nat, NEW S, 0 \in S, \A i \in 0..(n - 1) : i \in S => i + 1 \in S
  PROVE  \A i \in 0..n : i \in S
<1>. SUFFICES ASSUME NEW b \in 0..n, b \notin S PROVE FALSE
  OBVIOUS
<1>1. PICK T : T = {i \in 0..n : i \notin S}
  OBVIOUS
<1>2. T \subseteq Nat /\ T # {}
  BY <1>1
<1>3. PICK m \in T : \A x \in T : m <= x
  BY <1>2, LeastElement, Zenon
<1>4. m \in 0..n /\ m \notin S
  BY <1>1
<1>5. m # 0 /\ m - 1 \in 0..(n - 1) /\ (m - 1) + 1 = m /\ ~(m <= m - 1) /\ m - 1 \in 0..n
  BY <1>4
<1>6. m - 1 \in S
  BY <1>1, <1>3, <1>5
<1>. QED
  BY <1>4, <1>5, <1>6

\* A nonempty set of numbers up to n has a greatest element.
LEMMA GreatestElement ==
  ASSUME NEW n \in Nat, NEW T, T \subseteq 1..n, T # {}
  PROVE  \E m \in T : \A x \in T : x <= m
<1>1. PICK U : U = {n - x : x \in T}
  OBVIOUS
<1>2. U \subseteq Nat /\ U # {}
  <2>1. ASSUME NEW x \in T PROVE n - x \in Nat
    <3>1. x \in 1..n
      OBVIOUS
    <3>. QED
      BY <3>1
  <2>. QED
    BY <1>1, <2>1
<1>3. PICK u \in U : \A y \in U : u <= y
  BY <1>2, LeastElement, Zenon
<1>4. PICK m \in T : u = n - m
  BY <1>1
<1>5. ASSUME NEW x \in T PROVE x <= m
  <2>1. n - m <= n - x
    BY <1>1, <1>3, <1>4
  <2>2. x \in 1..n /\ m \in 1..n
    OBVIOUS
  <2>. QED
    BY <2>1, <2>2
<1>. QED
  BY <1>5

\* The values of f on 0..n: base, and then what F yields from an index and the
\* value before.
Recurses(f, n, X, base, F) ==
  /\ f \in [0..n -> X] /\ f[0] = base
  /\ \A i \in 1..n : f[i] = F[i][f[i - 1]]

\* A recursive function on 0..n exists.
LEMMA RecursionExists ==
  ASSUME NEW X, NEW n \in Nat, NEW base \in X, NEW F \in [1..n -> [X -> X]]
  PROVE  \E f : Recurses(f, n, X, base, F)
<1>. DEFINE Upto(f, m) == Recurses(f, m, X, base, F)
<1>. USE DEF Recurses
<1>1. PICK G : G = {m \in 0..n : \E f : Upto(f, m)}
  OBVIOUS
<1>2. 0 \in G
  <2>1. PICK f : f = [i \in 0..0 |-> base]
    OBVIOUS
  <2>2. Upto(f, 0)
    BY <2>1
  <2>3. 0 \in 0..n
    OBVIOUS
  <2>. HIDE DEF Upto
  <2>. QED
    BY <1>1, <2>2, <2>3
<1>3. ASSUME NEW m \in 0..(n - 1), m \in G PROVE m + 1 \in G
  <2>1. PICK f : Upto(f, m)
    BY <1>1, <1>3
  <2>2. m \in Nat /\ m + 1 \in 0..n /\ m + 1 \in 1..n /\ F[m + 1] \in [X -> X]
    OBVIOUS
  <2>3. f[m] \in X
    BY <2>1, <2>2
  <2>4. PICK x : x = F[m + 1][f[m]]
    OBVIOUS
  <2>5. x \in X
    BY <2>2, <2>3, <2>4
  <2>6. PICK g : g = [i \in 0..(m + 1) |-> IF i <= m THEN f[i] ELSE x]
    OBVIOUS
  <2>7. g \in [0..(m + 1) -> X]
    BY <2>1, <2>2, <2>5, <2>6
  <2>8. g[0] = base
    BY <2>1, <2>2, <2>6
  <2>9. ASSUME NEW i \in 1..(m + 1) PROVE g[i] = F[i][g[i - 1]]
    <3>1. i - 1 \in 0..(m + 1) /\ i \in 0..(m + 1) /\ i - 1 <= m
      BY <2>2
    <3>2. g[i - 1] = f[i - 1]
      BY <2>6, <3>1
    <3>3. CASE i <= m
      <4>1. i \in 1..m /\ g[i] = f[i]
        BY <2>2, <2>6, <3>1, <3>3
      <4>. QED
        BY <2>1, <3>2, <4>1
    <3>4. CASE ~(i <= m)
      <4>1. i = m + 1 /\ i - 1 = m /\ g[i] = x
        BY <2>2, <2>6, <3>1, <3>4
      <4>. QED
        BY <2>4, <3>2, <4>1
    <3>. QED
      BY <3>3, <3>4
  <2>10. Upto(g, m + 1)
    BY <2>7, <2>8, <2>9
  <2>. HIDE DEF Upto
  <2>. QED
    BY <1>1, <2>2, <2>10
<1>4. n \in G
  <2>1. n \in 0..n
    OBVIOUS
  <2>. QED
    BY <1>2, <1>3, <2>1, UpTo
<1>. QED
  BY <1>1, <1>4

-----------------------------------------------------------------------------
(* Joining the parts of a sequence                                         *)

\* f[i] joins the first i parts of q.
Joins(f, q, S) ==
  /\ f \in [0..Len(q) -> Seq(S)]
  /\ f[0] = << >>
  /\ \A i \in 1..Len(q) : f[i] = f[i - 1] \o q[i]

\* A sequence of parts can be joined.
LEMMA JoinExists ==
  ASSUME NEW S, NEW q \in Seq(Seq(S))
  PROVE  \E f : Joins(f, q, S)
<1>1. Len(q) \in Nat /\ \A i \in 1..Len(q) : q[i] \in Seq(S)
  OBVIOUS
<1>2. << >> \in Seq(S)
  BY EmptySeq, Zenon
<1>3. PICK F : F = [i \in 1..Len(q) |-> [x \in Seq(S) |-> x \o q[i]]]
  OBVIOUS
<1>4. F \in [1..Len(q) -> [Seq(S) -> Seq(S)]]
  <2>1. ASSUME NEW i \in 1..Len(q) PROVE [x \in Seq(S) |-> x \o q[i]] \in [Seq(S) -> Seq(S)]
    BY <1>1
  <2>. QED
    BY <1>3, <2>1
<1>5. PICK f \in [0..Len(q) -> Seq(S)] :
        f[0] = << >> /\ \A i \in 1..Len(q) : f[i] = F[i][f[i - 1]]
  <2>1. \E f : Recurses(f, Len(q), Seq(S), << >>, F)
    BY <1>1, <1>2, <1>4, RecursionExists, Zenon
  <2>. QED
    BY <2>1 DEF Recurses
<1>6. ASSUME NEW i \in 1..Len(q) PROVE f[i] = f[i - 1] \o q[i]
  <2>1. f[i - 1] \in Seq(S)
    <3>1. i - 1 \in 0..Len(q)
      BY <1>1
    <3>. QED
      BY <1>5, <3>1
  <2>2. F[i][f[i - 1]] = f[i - 1] \o q[i]
    BY <1>3, <2>1
  <2>. QED
    BY <1>5, <2>2
<1>. QED
  BY <1>5, <1>6 DEF Joins

\* FlattenSeq is what joins all parts.
LEMMA FlattenJoins ==
  ASSUME NEW S, NEW q \in Seq(Seq(S)), NEW f, Joins(f, q, S)
  PROVE  FlattenSeq(q) = f[Len(q)]
<1>1. CASE Len(q) = 0
  <2>1. q = << >>
    BY <1>1
  <2>2. FlattenSeq(q) = q
    BY <1>1 DEF FlattenSeq
  <2>. QED
    BY <1>1, <2>1, <2>2 DEF Joins
<1>2. CASE Len(q) # 0
  <2>. DEFINE Def(g) == [i \in 1..Len(q) |-> IF i = 1 THEN q[i] ELSE g[i - 1] \o q[i]]
              flatten == CHOOSE g : g = Def(g)
  <2>1. FlattenSeq(q) = flatten[Len(q)]
    BY <1>2 DEF FlattenSeq
  <2>2. PICK h : h = [i \in 1..Len(q) |-> f[i]]
    OBVIOUS
  <2>3. ASSUME NEW i \in 1..Len(q) PROVE f[i] = IF i = 1 THEN q[i] ELSE h[i - 1] \o q[i]
    <3>1. f[i] = f[i - 1] \o q[i] /\ q[i] \in Seq(S)
      BY DEF Joins
    <3>2. CASE i = 1
      <4>1. i - 1 = 0 /\ f[0] = << >>
        BY <3>2 DEF Joins
      <4>2. << >> \o q[i] = q[i]
        BY <3>1, ConcatEmptySeq, Zenon
      <4>. QED
        BY <3>1, <3>2, <4>1, <4>2
    <3>3. CASE i # 1
      <4>1. i - 1 \in 1..Len(q)
        BY <3>3
      <4>. QED
        BY <2>2, <3>1, <3>3, <4>1
    <3>. QED
      BY <3>2, <3>3
  <2>4. h = Def(h)
    BY <2>2, <2>3
  <2>5. flatten = Def(flatten)
    <3>. HIDE DEF Def
    <3>. QED
      BY <2>4
  <2>. HIDE DEF flatten
  <2>6. PICK E : E = {i \in 0..Len(q) : i # 0 => flatten[i] = f[i]}
    OBVIOUS
  <2>7. 0 \in E
    BY <2>6
  <2>8. ASSUME NEW n \in 0..(Len(q) - 1), n \in E PROVE n + 1 \in E
    <3>1. n + 1 \in 1..Len(q) /\ (n + 1) - 1 = n /\ n + 1 \in 0..Len(q) /\ n \in Nat
      OBVIOUS
    <3>2. flatten[n + 1] = IF n + 1 = 1 THEN q[n + 1] ELSE flatten[n] \o q[n + 1]
      BY <2>5, <3>1
    <3>3. f[n + 1] = IF n + 1 = 1 THEN q[n + 1] ELSE h[n] \o q[n + 1]
      BY <2>3, <3>1
    <3>4. n # 0 => flatten[n] = h[n]
      BY <2>2, <2>6, <2>8, <3>1
    <3>5. flatten[n + 1] = f[n + 1]
      BY <3>1, <3>2, <3>3, <3>4
    <3>. QED
      BY <2>6, <3>1, <3>5
  <2>9. Len(q) \in Nat /\ Len(q) \in 0..Len(q)
    OBVIOUS
  <2>10. Len(q) \in E
    BY <2>7, <2>8, <2>9, UpTo
  <2>. QED
    BY <1>2, <2>1, <2>6, <2>10
<1>. QED
  BY <1>1, <1>2

\* What the first parts join to is a prefix of what more parts join to.
LEMMA JoinsGrow ==
  ASSUME NEW S, NEW q \in Seq(Seq(S)), NEW f, Joins(f, q, S), NEW j \in 0..Len(q)
  PROVE  /\ f[j] \in Seq(S) /\ f[Len(q)] \in Seq(S)
         /\ Len(f[j]) <= Len(f[Len(q)])
         /\ \A x \in 1..Len(f[j]) : f[j][x] = f[Len(q)][x]
<1>. DEFINE Grown(i) == /\ Len(f[j]) <= Len(f[i])
                        /\ \A x \in 1..Len(f[j]) : f[j][x] = f[i][x]
<1>1. \A i \in 0..Len(q) : f[i] \in Seq(S)
  BY DEF Joins
<1>2. PICK E : E = {i \in 0..Len(q) : i >= j => Grown(i)}
  OBVIOUS
<1>3. Grown(j)
  BY <1>1
<1>4. 0 \in E
  <2>1. 0 \in 0..Len(q) /\ (0 >= j => j = 0)
    OBVIOUS
  <2>. HIDE DEF Grown
  <2>. QED
    BY <1>2, <1>3, <2>1
<1>5. ASSUME NEW n \in 0..(Len(q) - 1), n \in E PROVE n + 1 \in E
  <2>1. n + 1 \in 1..Len(q) /\ n + 1 \in 0..Len(q) /\ (n + 1) - 1 = n /\ n \in 0..Len(q)
    OBVIOUS
  <2>2. f[n + 1] = f[n] \o q[n + 1]
    BY <2>1 DEF Joins
  <2>3. f[n] \in Seq(S) /\ q[n + 1] \in Seq(S) /\ f[j] \in Seq(S)
    BY <1>1, <2>1
  <2>4. Len(f[n]) <= Len(f[n + 1]) /\ \A x \in 1..Len(f[n]) : f[n + 1][x] = f[n][x]
    <3>1. PICK a, b : a = f[n] /\ b = q[n + 1]
      OBVIOUS
    <3>2. a \in Seq(S) /\ b \in Seq(S)
      BY <2>3, <3>1
    <3>3. Len(a) <= Len(a \o b) /\ \A x \in 1..Len(a) : (a \o b)[x] = a[x]
      BY <3>2
    <3>. QED
      BY <2>2, <3>1, <3>3
  <2>5. CASE n >= j
    <3>1. Grown(n)
      BY <1>2, <1>5, <2>5
    <3>2. Len(f[n]) \in Nat /\ Len(f[j]) \in Nat /\ Len(f[n + 1]) \in Nat
      BY <1>1, <2>1
    <3>3. Grown(n + 1)
      BY <2>4, <3>1, <3>2
    <3>. HIDE DEF Grown
    <3>. QED
      BY <1>2, <2>1, <3>3
  <2>6. CASE ~(n >= j)
    <3>1. n + 1 >= j => n + 1 = j
      BY <2>6
    <3>. HIDE DEF Grown
    <3>. QED
      BY <1>2, <1>3, <2>1, <3>1
  <2>. QED
    BY <2>5, <2>6
<1>6. Len(q) \in Nat /\ Len(q) \in 0..Len(q) /\ Len(q) >= j
  OBVIOUS
<1>7. Len(q) \in E
  <2>. HIDE DEF Grown
  <2>. QED
    BY <1>4, <1>5, <1>6, UpTo
<1>. QED
  BY <1>1, <1>2, <1>6, <1>7

\* Joined parts are a sequence of what the parts hold.
LEMMA FlattenType ==
  ASSUME NEW S, NEW q \in Seq(Seq(S))
  PROVE  FlattenSeq(q) \in Seq(S)
<1>1. PICK f : Joins(f, q, S)
  BY JoinExists
<1>2. f[Len(q)] \in Seq(S)
  BY <1>1 DEF Joins
<1>. QED
  BY <1>1, <1>2, FlattenJoins

\* No parts join to nothing.
LEMMA FlattenEmpty ==
  FlattenSeq(<< >>) = << >>
BY DEF FlattenSeq

\* The first part and what the others join to.
LEMMA FlattenFirst ==
  ASSUME NEW S, NEW q \in Seq(Seq(S)), NEW r \in Seq(Seq(S)),
         Len(q) = Len(r) + 1, \A i \in 1..Len(r) : r[i] = q[i + 1]
  PROVE  FlattenSeq(q) = q[1] \o FlattenSeq(r)
<1>1. PICK f : Joins(f, r, S)
  BY JoinExists
<1>2. /\ Len(r) \in Nat /\ Len(q) \in Nat
      /\ q[1] \in Seq(S) /\ \A i \in 1..Len(r) : r[i] \in Seq(S)
  OBVIOUS
<1>3. /\ \A i \in 0..Len(r) : f[i] \in Seq(S)
      /\ f[0] = << >>
      /\ \A i \in 1..Len(r) : f[i] = f[i - 1] \o r[i]
  BY <1>1 DEF Joins
<1>4. << >> \in Seq(S)
  BY EmptySeq, Zenon
<1>5. PICK g : g = [i \in 0..Len(q) |-> IF i = 0 THEN << >> ELSE q[1] \o f[i - 1]]
  OBVIOUS
<1>6. \A i \in 1..Len(q) : g[i] = q[1] \o f[i - 1] /\ g[i] \in Seq(S)
  <2>. TAKE i \in 1..Len(q)
  <2>1. i - 1 \in 0..Len(r) /\ i \in 0..Len(q) /\ i # 0
    BY <1>2
  <2>2. f[i - 1] \in Seq(S)
    BY <1>3, <2>1
  <2>3. q[1] \o f[i - 1] \in Seq(S)
    BY <1>2, <2>2
  <2>. QED
    BY <1>5, <2>1, <2>3
<1>7. g[0] = << >> /\ g \in [0..Len(q) -> Seq(S)]
  <2>1. 0 \in 0..Len(q) /\ \A i \in 0..Len(q) : i = 0 \/ i \in 1..Len(q)
    BY <1>2
  <2>2. g[0] = << >>
    BY <1>5, <2>1
  <2>3. \A i \in 0..Len(q) : g[i] \in Seq(S)
    BY <1>4, <1>6, <2>1, <2>2
  <2>. QED
    BY <1>5, <2>2, <2>3
<1>8. ASSUME NEW i \in 1..Len(q) PROVE g[i] = g[i - 1] \o q[i]
  <2>1. CASE i = 1
    <3>1. i - 1 = 0 /\ f[0] = << >> /\ g[i] = q[1] \o f[i - 1]
      BY <1>3, <1>6, <2>1
    <3>2. q[1] \o << >> = q[1] /\ << >> \o q[1] = q[1]
      BY <1>2, ConcatEmptySeq
    <3>. QED
      BY <1>7, <2>1, <3>1, <3>2
  <2>2. CASE i # 1
    <3>1. i - 1 \in 1..Len(q) /\ i - 1 \in 1..Len(r) /\ (i - 1) - 1 \in 0..Len(r) /\ (i - 1) + 1 = i
      BY <1>2, <2>2
    <3>2. g[i] = q[1] \o f[i - 1] /\ g[i - 1] = q[1] \o f[(i - 1) - 1]
      BY <1>6, <3>1
    <3>3. f[i - 1] = f[(i - 1) - 1] \o r[i - 1] /\ r[i - 1] = q[i]
      BY <1>3, <3>1
    <3>4. PICK a, b, c \in Seq(S) : a = q[1] /\ b = f[(i - 1) - 1] /\ c = r[i - 1]
      BY <1>2, <1>3, <3>1
    <3>5. (a \o b) \o c = a \o (b \o c)
      OBVIOUS
    <3>. QED
      BY <3>2, <3>3, <3>4, <3>5
  <2>. QED
    BY <2>1, <2>2
<1>9. Joins(g, q, S)
  BY <1>7, <1>8 DEF Joins
<1>10. FlattenSeq(q) = g[Len(q)] /\ FlattenSeq(r) = f[Len(r)]
  BY <1>1, <1>9, FlattenJoins
<1>11. Len(q) \in 1..Len(q) /\ Len(q) - 1 = Len(r)
  BY <1>2
<1>. QED
  BY <1>6, <1>10, <1>11
=============================================================================
