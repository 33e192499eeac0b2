---------------------------- MODULE OptionsProofs ----------------------------
(***************************************************************************)
(* Theorems about startup, for command lines and configuration files of    *)
(* every length and every nesting.  While options are read, those          *)
(* processed so far and those still to come make up the expanded command   *)
(* line, and the state is what the processed ones ask for.                 *)
(***************************************************************************)
EXTENDS Options, SequenceLemmas, FiniteSetTheorems

-----------------------------------------------------------------------------
(* Files written out                                                       *)

\* The limits are numbers and the files hold options.
LEMMA Limits ==
  /\ MaxOpen \in Nat /\ MAX_INTERFACES \in Nat
  /\ \A f \in DOMAIN Files : Files[f] \in Seq(Option)
<1>1. MaxOpen \in Nat /\ MAX_INTERFACES \in Nat
  BY OptionsAssumption, Zenon
<1>2. Files \in [DOMAIN Files -> Seq(Option)]
  BY OptionsAssumption, Zenon
<1>. QED
  BY <1>1, <1>2

\* Contents of the files, or of none.
Tables == [DOMAIN Files -> Seq(Option)] \cup {<< >>}

\* What is inserted for an option are options.
LEMMA InsertedType ==
  ASSUME NEW o \in Option, NEW T \in Tables
  PROVE  Inserted(o, T) \in Seq(Option)
<1>1. << >> \in Seq(Option) /\ <<o>> \in Seq(Option)
  OBVIOUS
<1>2. ASSUME NEW w \in DOMAIN T PROVE T[w] \in Seq(Option)
  BY DEF Tables
<1>. QED
  BY <1>1, <1>2 DEF Inserted

\* The parts a source is written out from.
LEMMA PartsType ==
  ASSUME NEW s \in Seq(Option), NEW T \in Tables
  PROVE  /\ [i \in DOMAIN s |-> Inserted(s[i], T)] \in Seq(Seq(Option))
         /\ Len([i \in DOMAIN s |-> Inserted(s[i], T)]) = Len(s)
<1>1. \A i \in 1..Len(s) : Inserted(s[i], T) \in Seq(Option)
  BY InsertedType
<1>2. DOMAIN s = 1..Len(s) /\ Len(s) \in Nat
  OBVIOUS
<1>. QED
  BY <1>1, <1>2

\* A source written out is a sequence of options.
LEMMA WrittenOutType ==
  ASSUME NEW s \in Seq(Option), NEW T \in Tables
  PROVE  WrittenOut(s, T) \in Seq(Option)
BY PartsType, FlattenType DEF WrittenOut

\* The contents of the files are well defined.
LEMMA ContentsDef ==
  /\ Contents[0] = << >>
  /\ \A n \in 1..MaxOpen :
       Contents[n] = [f \in DOMAIN Files |-> WrittenOut(Files[f], Contents[n - 1])]
  /\ \A n \in 0..MaxOpen : Contents[n] \in Tables
<1>1. MaxOpen \in Nat /\ \A f \in DOMAIN Files : Files[f] \in Seq(Option)
  BY Limits
<1>2. << >> \in Tables
  BY DEF Tables
<1>3. ASSUME NEW T \in Tables
      PROVE  [f \in DOMAIN Files |-> WrittenOut(Files[f], T)] \in Tables
  BY <1>1, WrittenOutType DEF Tables
<1>4. PICK F : F = [i \in 1..MaxOpen |->
                      [T \in Tables |-> [f \in DOMAIN Files |-> WrittenOut(Files[f], T)]]]
  OBVIOUS
<1>5. F \in [1..MaxOpen -> [Tables -> Tables]]
  BY <1>3, <1>4
<1>6. PICK g : Recurses(g, MaxOpen, Tables, << >>, F)
  BY <1>1, <1>2, <1>5, RecursionExists, Zenon
<1>. DEFINE Body(h) == [n \in 0..MaxOpen |->
                          IF n = 0 THEN << >>
                          ELSE [f \in DOMAIN Files |-> WrittenOut(Files[f], h[n - 1])]]
<1>7. g = Body(g)
  <2>1. ASSUME NEW n \in 0..MaxOpen, n # 0
        PROVE  g[n] = [f \in DOMAIN Files |-> WrittenOut(Files[f], g[n - 1])]
    <3>1. n \in 1..MaxOpen /\ n - 1 \in 0..MaxOpen
      BY <1>1, <2>1
    <3>2. g[n - 1] \in Tables /\ g[n] = F[n][g[n - 1]]
      BY <1>6, <3>1 DEF Recurses
    <3>. QED
      BY <1>4, <3>1, <3>2
  <2>2. g[0] = << >> /\ g = [n \in 0..MaxOpen |-> g[n]]
    BY <1>6 DEF Recurses
  <2>. QED
    BY <2>1, <2>2
<1>8. Contents = Body(Contents)
  <2>1. Contents = CHOOSE h : h = Body(h)
    BY DEF Contents
  <2>. HIDE DEF Body
  <2>. QED
    BY <1>7, <2>1
<1>9. Contents[0] = << >>
  BY <1>1, <1>8
<1>10. \A n \in 1..MaxOpen :
         Contents[n] = [f \in DOMAIN Files |-> WrittenOut(Files[f], Contents[n - 1])]
  <2>. TAKE n \in 1..MaxOpen
  <2>1. n \in 0..MaxOpen /\ n # 0
    OBVIOUS
  <2>. QED
    BY <1>8, <2>1
<1>11. PICK E : E = {n \in 0..MaxOpen : Contents[n] \in Tables}
  OBVIOUS
<1>12. 0 \in E
  BY <1>1, <1>2, <1>9, <1>11
<1>13. ASSUME NEW n \in 0..(MaxOpen - 1), n \in E PROVE n + 1 \in E
  <2>1. n + 1 \in 1..MaxOpen /\ n + 1 \in 0..MaxOpen /\ (n + 1) - 1 = n /\ n \in 0..MaxOpen
    BY <1>1
  <2>2. Contents[n] \in Tables
    BY <1>11, <1>13
  <2>3. Contents[n + 1] = [f \in DOMAIN Files |-> WrittenOut(Files[f], Contents[n])]
    BY <1>10, <2>1
  <2>. QED
    BY <1>3, <1>11, <2>1, <2>2, <2>3
<1>14. \A n \in 0..MaxOpen : n \in E
  BY <1>1, <1>12, <1>13, UpTo
<1>. QED
  BY <1>9, <1>10, <1>11, <1>14

\* What is still to come of a source from position p on.
ToGo(s, T, p) == WrittenOut(SubSeq(s, p, Len(s)), T)

\* The rest of a source is the option at p, or the file it names, and the rest
\* behind it; at the end nothing is left.
LEMMA ToGoStep ==
  ASSUME NEW s \in Seq(Option), NEW T \in Tables, NEW p \in 1..(Len(s) + 1)
  PROVE  /\ ToGo(s, T, p) \in Seq(Option)
         /\ p = Len(s) + 1 => ToGo(s, T, p) = << >>
         /\ p <= Len(s) => ToGo(s, T, p) = Inserted(s[p], T) \o ToGo(s, T, p + 1)
         /\ ToGo(s, T, 1) = WrittenOut(s, T)
<1>. DEFINE Parts(u) == [i \in DOMAIN u |-> Inserted(u[i], T)]
            Rest(k) == SubSeq(s, k, Len(s))
<1>1. Len(s) \in Nat
  OBVIOUS
<1>2. ASSUME NEW k \in 1..(Len(s) + 1)
      PROVE  /\ Rest(k) \in Seq(Option) /\ Len(Rest(k)) = Len(s) - k + 1
             /\ \A i \in 1..(Len(s) - k + 1) : Rest(k)[i] = s[k + i - 1]
  BY <1>1
<1>3. ToGo(s, T, p) \in Seq(Option)
  BY <1>2, WrittenOutType DEF ToGo
<1>4. ASSUME p = Len(s) + 1 PROVE ToGo(s, T, p) = << >>
  <2>1. Rest(p) = << >>
    BY <1>1, <1>2, <1>4
  <2>2. Parts(Rest(p)) = << >>
    BY <2>1
  <2>. QED
    BY <2>2, FlattenEmpty DEF ToGo, WrittenOut
<1>5. ASSUME p <= Len(s) PROVE ToGo(s, T, p) = Inserted(s[p], T) \o ToGo(s, T, p + 1)
  <2>1. p + 1 \in 1..(Len(s) + 1) /\ p \in 1..Len(s)
    BY <1>1, <1>5
  <2>2. PICK q : q = Parts(Rest(p))
    OBVIOUS
  <2>3. PICK r : r = Parts(Rest(p + 1))
    OBVIOUS
  <2>4. /\ q \in Seq(Seq(Option)) /\ Len(q) = Len(s) - p + 1
        /\ r \in Seq(Seq(Option)) /\ Len(r) = Len(s) - p
    <3>1. /\ Rest(p) \in Seq(Option) /\ Len(Rest(p)) = Len(s) - p + 1
          /\ Rest(p + 1) \in Seq(Option) /\ Len(Rest(p + 1)) = Len(s) - p
      BY <1>1, <1>2, <2>1
    <3>. HIDE DEF Rest
    <3>. QED
      BY <2>2, <2>3, <3>1, PartsType
  <2>5. q[1] = Inserted(s[p], T)
    <3>1. 1 \in 1..(Len(s) - p + 1) /\ p + 1 - 1 = p
      BY <1>1, <1>5
    <3>2. Rest(p)[1] = s[p] /\ 1 \in DOMAIN Rest(p)
      BY <1>2, <3>1
    <3>. HIDE DEF Rest
    <3>. QED
      BY <2>2, <3>2
  <2>6. ASSUME NEW i \in 1..Len(r) PROVE r[i] = q[i + 1]
    <3>1. /\ i \in 1..(Len(s) - (p + 1) + 1) /\ i + 1 \in 1..(Len(s) - p + 1)
          /\ p + 1 + i - 1 = p + (i + 1) - 1
      BY <1>1, <2>4
    <3>2. Rest(p + 1)[i] = s[p + 1 + i - 1] /\ i \in DOMAIN Rest(p + 1)
      BY <1>1, <2>1, <3>1
    <3>3. Rest(p)[i + 1] = s[p + (i + 1) - 1] /\ i + 1 \in DOMAIN Rest(p)
      BY <1>1, <2>1, <3>1
    <3>. HIDE DEF Rest
    <3>. QED
      BY <2>2, <2>3, <3>1, <3>2, <3>3
  <2>7. Len(q) = Len(r) + 1
    BY <1>1, <2>4
  <2>8. FlattenSeq(q) = q[1] \o FlattenSeq(r)
    BY <2>4, <2>6, <2>7, FlattenFirst
  <2>. QED
    BY <2>2, <2>3, <2>5, <2>8 DEF ToGo, WrittenOut
<1>6. ToGo(s, T, 1) = WrittenOut(s, T)
  <2>1. SubSeq(s, 1, Len(s)) = s
    OBVIOUS
  <2>. QED
    BY <2>1 DEF ToGo
<1>. QED
  BY <1>3, <1>4, <1>5, <1>6
-----------------------------------------------------------------------------
(* What options assign                                                     *)

\* Letters of the options that assign a number to the field of their name.
Numbers == (Fields \cap Letters) \ {"u"}

\* The parts of an option.
LEMMA OptionParts ==
  ASSUME NEW o \in Option
  PROVE  /\ o.opt \in Letters /\ o.num \in Seq(Int) /\ o.word \in STRING
         /\ o.opt \in Numbers \cup {"m", "M", "r"} => o.num[1] \in Int
         /\ o.opt = "r" => o.num[1] \in UInt32
         /\ o.opt = "v" => o.word \in DOMAIN Expressions
<1>1. /\ o.opt \in Letters /\ o.num \in Seq(Int) /\ o.word \in STRING
      /\ o.opt \in (Fields \ {"u"}) \cup {"m", "M", "r"} => o.num # << >>
      /\ o.opt = "r" => o.num[1] \in UInt32
      /\ o.opt = "v" => o.word \in DOMAIN Expressions
  BY DEF Option
<1>2. ASSUME o.num # << >> PROVE o.num[1] \in Int
  BY <1>1, <1>2
<1>. QED
  BY <1>1, <1>2 DEF Numbers

\* Only fields are assigned, and only numbers.
LEMMA AssignedType ==
  ASSUME NEW o \in Option
  PROVE  /\ DOMAIN Assignments(o) \subseteq Fields
         /\ \A k \in DOMAIN Assignments(o) : Assignments(o)[k] \in Int
         /\ o.opt \notin Numbers \cup {"4", "6", "u", "l", "L"} => DOMAIN Assignments(o) = {}
<1>1. o.num \in Seq(Int) /\ Len(o.num) \in Nat /\ \A i \in 1..Len(o.num) : o.num[i] \in Int
  BY OptionParts
<1>. DEFINE n == o.num
            Interval == Len(n) >= 3 /\ n[3] >= 0
            NoPreset == o.opt = "s" /\ n[1] < 0
<1>2. CASE o.opt \in {"4", "6", "u"}
  <2>1. o.opt \notin Numbers /\ o.opt \notin {"l", "L"}
    BY <1>2 DEF Numbers, Fields, Letters
  <2>2. Assignments(o) \in {[af |-> 4], [af |-> 6], [u |-> 1]}
    BY <1>2, <2>1 DEF Assignments, Numbers
  <2>. QED
    BY <1>2, <2>2 DEF Fields
<1>3. CASE o.opt \in {"l", "L"}
  <2>1. o.opt \notin Numbers /\ o.opt \notin {"4", "6", "u"}
    BY <1>3 DEF Numbers, Fields, Letters
  <2>2. CASE Len(n) = 0
    <3>1. Assignments(o) = << >>
      BY <1>1, <1>3, <2>1, <2>2 DEF Assignments, Numbers
    <3>. QED
      BY <1>3, <3>1
  <2>3. CASE Len(n) = 1
    <3>1. Assignments(o) \in {[lat |-> n[1]], [long |-> n[1]]} /\ n[1] \in Int
      BY <1>1, <1>3, <2>1, <2>3 DEF Assignments, Numbers
    <3>. QED
      BY <1>3, <3>1 DEF Fields
  <2>4. CASE Len(n) >= 2 /\ ~Interval
    <3>1. /\ Assignments(o) \in {[lat |-> n[1], long |-> n[2]], [long |-> n[1], lat |-> n[2]]}
          /\ n[1] \in Int /\ n[2] \in Int
      BY <1>1, <1>3, <2>1, <2>4 DEF Assignments, Numbers
    <3>. QED
      BY <1>3, <3>1 DEF Fields
  <2>5. CASE Interval
    <3>1. /\ Assignments(o) \in {[lat |-> n[1], long |-> n[2], G |-> n[3]],
                                 [long |-> n[1], lat |-> n[2], G |-> n[3]]}
          /\ n[1] \in Int /\ n[2] \in Int /\ n[3] \in Int
      BY <1>1, <1>3, <2>1, <2>5 DEF Assignments, Numbers
    <3>. QED
      BY <1>3, <3>1 DEF Fields
  <2>6. Len(n) = 0 \/ Len(n) = 1 \/ (Len(n) >= 2 /\ ~Interval) \/ Interval
    <3>1. Len(n) = 0 \/ Len(n) = 1 \/ Len(n) >= 2
      <4>1. PICK m : m = Len(n)
        OBVIOUS
      <4>2. m \in Nat
        BY <1>1, <4>1
      <4>3. m = 0 \/ m = 1 \/ m >= 2
        BY <4>2
      <4>. QED
        BY <4>1, <4>3
    <3>. QED
      BY <3>1, Zenon
  <2>. QED
    BY <2>2, <2>3, <2>4, <2>5, <2>6
<1>4. CASE o.opt \in Numbers
  <2>1. o.opt \notin {"4", "6", "u", "l", "L"} /\ o.opt \in Fields
    BY <1>4 DEF Numbers, Fields, Letters
  <2>2. n[1] \in Int
    BY <1>4, OptionParts
  <2>3. Assignments(o) = << >> \/ Assignments(o) = [k \in {o.opt} |-> n[1]]
    BY <1>4, <2>1 DEF Assignments, Numbers
  <2>. QED
    BY <1>4, <2>1, <2>2, <2>3
<1>5. CASE o.opt \notin Numbers \cup {"4", "6", "u", "l", "L"}
  <2>1. Assignments(o) = << >>
    BY <1>5 DEF Assignments, Numbers
  <2>. QED
    BY <2>1
<1>. QED
  BY <1>2, <1>3, <1>4, <1>5

\* One more option: the fields it assigns have its values, the others keep theirs.
LEMMA LastSetAppend ==
  ASSUME NEW s \in Seq(Option), NEW o \in Option, NEW k
  PROVE  LastSet(Append(s, o), k) =
           IF k \in DOMAIN Assignments(o) THEN Assignments(o)[k] ELSE LastSet(s, k)
<1>. DEFINE At(u) == {i \in DOMAIN u : k \in DOMAIN Assignments(u[i])}
            Greatest(A) == CHOOSE i \in A : \A j \in A : j <= i
<1>1. PICK t : t = Append(s, o)
  OBVIOUS
<1>2. PICK n : n = Len(s)
  OBVIOUS
<1>3. /\ n \in Nat /\ DOMAIN s = 1..n /\ DOMAIN t = 1..(n + 1)
      /\ t[n + 1] = o /\ \A i \in 1..n : t[i] = s[i]
  BY <1>1, <1>2
<1>4. CASE k \in DOMAIN Assignments(o)
  <2>1. n + 1 \in At(t) /\ \A j \in At(t) : j <= n + 1
    BY <1>3, <1>4
  <2>2. PICK A : A = At(t)
    OBVIOUS
  <2>3. A \subseteq Int /\ n + 1 \in A /\ \A j \in A : j <= n + 1
    BY <1>3, <2>1, <2>2
  <2>4. \A i \in A : (\A j \in A : j <= i) => i = n + 1
    BY <1>3, <2>3
  <2>5. Greatest(A) = n + 1
    BY <2>3, <2>4
  <2>. QED
    BY <1>1, <1>3, <1>4, <2>2, <2>3, <2>5 DEF LastSet
<1>5. CASE k \notin DOMAIN Assignments(o)
  <2>1. At(t) = At(s)
    BY <1>3, <1>5
  <2>2. PICK A : A = At(s)
    OBVIOUS
  <2>3. A \subseteq 1..n
    BY <1>3, <2>2
  <2>4. CASE A = {}
    BY <1>1, <1>5, <2>1, <2>2, <2>4 DEF LastSet
  <2>5. CASE A # {}
    <3>1. \E m \in A : \A x \in A : x <= m
      BY <1>3, <2>3, <2>5, GreatestElement
    <3>2. Greatest(A) \in A
      BY <3>1
    <3>3. t[Greatest(A)] = s[Greatest(A)]
      <4>. HIDE DEF Greatest
      <4>. QED
        BY <1>3, <2>3, <3>2
    <3>4. LastSet(t, k) = Assignments(t[Greatest(A)])[k]
      BY <2>1, <2>2, <2>5 DEF LastSet
    <3>5. LastSet(s, k) = Assignments(s[Greatest(A)])[k]
      BY <2>2, <2>5 DEF LastSet
    <3>. HIDE DEF Greatest
    <3>. QED
      BY <1>1, <1>5, <3>3, <3>4, <3>5
  <2>. QED
    BY <2>4, <2>5
<1>. QED
  BY <1>4, <1>5

-----------------------------------------------------------------------------
(* Counting options                                                        *)

\* The positions counted are finitely many.
LEMMA CountType ==
  ASSUME NEW s, NEW c, NEW n \in Nat
  PROVE  /\ Count(s, c, n) \in Nat
         /\ Count(s, c, 0) = 0
         /\ s[n + 1].opt = c => Count(s, c, n + 1) = Count(s, c, n) + 1
         /\ s[n + 1].opt # c => Count(s, c, n + 1) = Count(s, c, n)
<1>. DEFINE At(m) == {i \in 1..m : s[i].opt = c}
<1>1. ASSUME NEW m \in Nat PROVE IsFiniteSet(At(m))
  <2>1. IsFiniteSet(1..m)
    BY FS_Interval
  <2>. QED
    BY <2>1, FS_Subset
<1>2. IsFiniteSet(At(n))
  BY <1>1
<1>3. Cardinality(At(n)) \in Nat
  BY <1>2, FS_CardinalityType
<1>4. At(0) = {}
  OBVIOUS
<1>5. Cardinality({}) = 0
  BY FS_EmptySet
<1>6. CASE s[n + 1].opt = c
  <2>1. At(n + 1) = At(n) \cup {n + 1} /\ n + 1 \notin At(n)
    BY <1>6
  <2>2. Cardinality(At(n) \cup {n + 1}) = Cardinality(At(n)) + 1
    BY <1>2, <2>1, FS_AddElement
  <2>. QED
    BY <1>3, <1>4, <1>5, <1>6, <2>1, <2>2 DEF Count
<1>7. CASE s[n + 1].opt # c
  <2>1. At(n + 1) = At(n)
    BY <1>7
  <2>2. Count(s, c, n + 1) = Count(s, c, n) /\ Count(s, c, n) \in Nat /\ Count(s, c, 0) = 0
    BY <1>3, <1>4, <1>5, <2>1 DEF Count
  <2>. QED
    BY <1>7, <2>2
<1>. QED
  BY <1>6, <1>7

\* More positions count no less, and one with the letter makes a difference.
LEMMA CountGrows ==
  ASSUME NEW s, NEW c, NEW m \in Nat, NEW n \in Nat, m <= n
  PROVE  /\ Count(s, c, m) <= Count(s, c, n)
         /\ m < n /\ s[n].opt = c => Count(s, c, m) < Count(s, c, n)
<1>1. ASSUME NEW a \in Nat, NEW b \in Nat, a <= b PROVE Count(s, c, a) <= Count(s, c, b)
  <2>1. {i \in 1..a : s[i].opt = c} \subseteq {i \in 1..b : s[i].opt = c}
    BY <1>1
  <2>2. IsFiniteSet({i \in 1..b : s[i].opt = c})
    <3>1. IsFiniteSet(1..b)
      BY FS_Interval
    <3>. QED
      BY <3>1, FS_Subset
  <2>. QED
    BY <2>1, <2>2, FS_Subset DEF Count
<1>2. ASSUME m < n, s[n].opt = c PROVE Count(s, c, m) < Count(s, c, n)
  <2>1. n - 1 \in Nat /\ m <= n - 1 /\ (n - 1) + 1 = n
    BY <1>2
  <2>2. Count(s, c, n) = Count(s, c, n - 1) + 1 /\ Count(s, c, n - 1) \in Nat
    BY <1>2, <2>1, CountType
  <2>3. Count(s, c, m) <= Count(s, c, n - 1) /\ Count(s, c, m) \in Nat
    BY <1>1, <2>1, CountType
  <2>. QED
    BY <2>2, <2>3
<1>. QED
  BY <1>1, <1>2

\* One more option changes no earlier count.
LEMMA CountAppend ==
  ASSUME NEW s \in Seq(Option), NEW o \in Option, NEW c, NEW n \in 0..Len(s)
  PROVE  /\ Count(Append(s, o), c, n) = Count(s, c, n)
         /\ o.opt = c => Count(Append(s, o), c, Len(s) + 1) = Count(s, c, Len(s)) + 1
         /\ o.opt # c => Count(Append(s, o), c, Len(s) + 1) = Count(s, c, Len(s))
<1>1. PICK t : t = Append(s, o)
  OBVIOUS
<1>2. Len(s) \in Nat /\ t[Len(s) + 1] = o /\ \A i \in 1..Len(s) : t[i] = s[i]
  BY <1>1
<1>3. ASSUME NEW m \in 0..Len(s) PROVE Count(t, c, m) = Count(s, c, m)
  <2>1. {i \in 1..m : t[i].opt = c} = {i \in 1..m : s[i].opt = c}
    BY <1>2
  <2>. QED
    BY <2>1 DEF Count
<1>4. /\ o.opt = c => Count(t, c, Len(s) + 1) = Count(t, c, Len(s)) + 1
      /\ o.opt # c => Count(t, c, Len(s) + 1) = Count(t, c, Len(s))
  BY <1>2, CountType
<1>5. Len(s) \in 0..Len(s)
  BY <1>2
<1>. QED
  BY <1>1, <1>3, <1>4, <1>5

-----------------------------------------------------------------------------
(* Expressions                                                             *)

\* CommonStart is where two sequences begin to differ, or one of them ends.
LEMMA CommonStartIs ==
  ASSUME NEW f \in Seq(STRING), NEW t \in Seq(STRING)
  PROVE  /\ CommonStart(f, t) \in 0..Len(f)
         /\ Agree(f, t, CommonStart(f, t))
         /\ \A m \in 0..Len(f) : Agree(f, t, m) => m <= CommonStart(f, t)
<1>1. PICK n : n = Len(f)
  OBVIOUS
<1>2. n \in Nat /\ Len(t) \in Nat
  BY <1>1
<1>3. PICK T : T = {m \in 1..n : Agree(f, t, m)}
  OBVIOUS
<1>4. Agree(f, t, 0)
  BY <1>2 DEF Agree
<1>5. \E x \in 0..n : Agree(f, t, x) /\ \A m \in 0..n : Agree(f, t, m) => m <= x
  <2>1. CASE T = {}
    <3>1. \A m \in 0..n : Agree(f, t, m) => m <= 0
      BY <1>2, <1>3, <2>1
    <3>2. 0 \in 0..n
      BY <1>2
    <3>. QED
      BY <1>4, <3>1, <3>2
  <2>2. CASE T # {}
    <3>1. T \subseteq 1..n
      BY <1>3
    <3>2. PICK x \in T : \A y \in T : y <= x
      BY <1>2, <2>2, <3>1, GreatestElement
    <3>3. x \in 0..n /\ x >= 0 /\ Agree(f, t, x)
      BY <1>2, <1>3, <3>1
    <3>4. ASSUME NEW m \in 0..n, Agree(f, t, m) PROVE m <= x
      <4>1. CASE m = 0
        BY <3>3, <4>1
      <4>2. CASE m # 0
        <5>1. m \in 1..n
          BY <1>2, <4>2
        <5>. QED
          BY <1>3, <3>2, <3>4, <5>1
      <4>. QED
        BY <4>1, <4>2
    <3>. QED
      BY <3>3, <3>4
  <2>. QED
    BY <2>1, <2>2
<1>. DEFINE Is(x) == Agree(f, t, x) /\ \A m \in 0..n : Agree(f, t, m) => m <= x
<1>6. CommonStart(f, t) = CHOOSE x \in 0..n : Is(x)
  BY <1>1 DEF CommonStart
<1>7. \E x \in 0..n : Is(x)
  BY <1>5
<1>8. CommonStart(f, t) \in 0..n /\ Is(CommonStart(f, t))
  <2>. HIDE DEF Is
  <2>. QED
    BY <1>6, <1>7
<1>. QED
  BY <1>1, <1>8

\* The text g[1..n] is what s has behind its k-th character.
FoundAt(g, n, s, k) == n <= Len(s) - k /\ \A j \in 1..n : g[j] = s[k + j]

\* A comparison with an expression that may have an asterix at its end only.
LEMMA MatchesAtIs ==
  ASSUME NEW g \in Seq(STRING), \A i \in 1..Len(g) : g[i] = Asterix => i = Len(g),
         NEW s \in Seq(STRING \ {Asterix}), NEW k \in 0..Len(s)
  PROVE  /\ Len(g) > 0 /\ g[Len(g)] = Asterix =>
              (MatchesAt(g, s, k) <=> FoundAt(g, Len(g) - 1, s, k))
         /\ ~(Len(g) > 0 /\ g[Len(g)] = Asterix) =>
              (MatchesAt(g, s, k) <=> Len(g) = Len(s) - k /\ FoundAt(g, Len(g), s, k))
<1>1. PICK n, m : n = Len(g) /\ m = Len(s)
  OBVIOUS
<1>2. n \in Nat /\ m \in Nat /\ k \in 0..m
  BY <1>1
<1>3. PICK t : t = SubSeq(s, k + 1, Len(s))
  OBVIOUS
<1>4. /\ t \in Seq(STRING) /\ Len(t) = m - k
      /\ \A j \in 1..(m - k) : t[j] = s[k + j] /\ t[j] # Asterix
  <2>1. \A j \in 1..m : s[j] \in STRING /\ s[j] # Asterix
    BY <1>1
  <2>2. Len(t) = m - k /\ \A j \in 1..(m - k) : t[j] = s[k + j]
    BY <1>1, <1>2, <1>3
  <2>3. \A j \in 1..(m - k) : k + j \in 1..m
    BY <1>2
  <2>4. s \in Seq(STRING)
    BY <2>1, <1>1
  <2>5. t \in Seq(STRING)
    BY <1>1, <1>2, <1>3, <2>4
  <2>. QED
    BY <2>1, <2>2, <2>3, <2>5
<1>5. PICK i : i = CommonStart(g, t)
  OBVIOUS
<1>6. i \in 0..n /\ Agree(g, t, i) /\ \A x \in 0..n : Agree(g, t, x) => x <= i
  BY <1>1, <1>4, <1>5, CommonStartIs
<1>7. MatchesAt(g, s, k) <=> \/ i < n /\ g[i + 1] = Asterix
                             \/ i = n /\ i = m - k
  BY <1>1, <1>3, <1>4, <1>5 DEF MatchesAt
<1>8. ASSUME NEW x \in 0..n PROVE Agree(g, t, x) <=> FoundAt(g, x, s, k)
  <2>1. x <= m - k => \A j \in 1..x : j \in 1..(m - k)
    BY <1>2
  <2>2. x <= m - k => ((\A j \in 1..x : g[j] = t[j]) <=> \A j \in 1..x : g[j] = s[k + j])
    BY <1>4, <2>1
  <2>. QED
    BY <1>1, <1>4, <2>2 DEF Agree, FoundAt
<1>9. CASE n > 0 /\ g[n] = Asterix
  <2>1. n - 1 \in 0..n /\ n \in 0..n /\ n \in 1..n
    BY <1>2, <1>9
  <2>2. i # n
    <3>1. SUFFICES ASSUME i = n PROVE FALSE
      OBVIOUS
    <3>2. n <= m - k /\ g[n] = t[n]
      BY <1>4, <1>6, <2>1, <3>1 DEF Agree
    <3>3. n \in 1..(m - k)
      BY <1>2, <2>1, <3>2
    <3>. QED
      BY <1>4, <1>9, <3>2, <3>3
  <2>3. i < n /\ g[i + 1] = Asterix => i = n - 1
    BY <1>1, <1>2, <1>6
  <2>4. ASSUME Agree(g, t, n - 1) PROVE i < n /\ i + 1 = n
    BY <1>2, <1>6, <2>1, <2>2, <2>4
  <2>5. MatchesAt(g, s, k) <=> Agree(g, t, n - 1)
    BY <1>6, <1>7, <1>9, <2>2, <2>3, <2>4
  <2>. QED
    BY <1>1, <1>8, <1>9, <2>1, <2>5
<1>10. CASE ~(n > 0 /\ g[n] = Asterix)
  <2>1. n \in 0..n
    BY <1>2
  <2>2. ~(i < n /\ g[i + 1] = Asterix)
    <3>1. i < n => i + 1 \in 1..n
      BY <1>2, <1>6
    <3>. QED
      BY <1>1, <1>2, <1>6, <1>10, <3>1
  <2>3. MatchesAt(g, s, k) <=> i = n /\ n = m - k
    BY <1>7, <2>2
  <2>4. i = n <=> Agree(g, t, n)
    BY <1>2, <1>6, <2>1
  <2>5. MatchesAt(g, s, k) <=> n = m - k /\ FoundAt(g, n, s, k)
    BY <1>8, <2>1, <2>3, <2>4
  <2>. QED
    BY <1>1, <1>10, <2>5
<1>. QED
  BY <1>1, <1>9, <1>10

\* The part of s from k on with length n, from the outside.
LEMMA PartIs ==
  ASSUME NEW s \in Seq(STRING), NEW x \in Seq(STRING), NEW i \in 0..Len(s), NEW j \in 0..Len(s)
  PROVE  x = SubSeq(s, i + 1, j) <=>
           \/ j <= i /\ Len(x) = 0
           \/ i < j /\ Len(x) = j - i /\ \A y \in 1..(j - i) : x[y] = s[i + y]
<1>1. PICK t : t = SubSeq(s, i + 1, j)
  OBVIOUS
<1>2. t \in Seq(STRING)
  BY <1>1
<1>3. CASE j <= i
  <2>1. Len(t) = 0
    BY <1>1, <1>3
  <2>2. x = t <=> Len(x) = 0
    BY <1>2, <2>1
  <2>. QED
    BY <1>1, <1>3, <2>2
<1>4. CASE i < j
  <2>1. Len(t) = j - i /\ \A y \in 1..(j - i) : t[y] = s[i + y]
    BY <1>1, <1>4
  <2>2. x = t <=> Len(x) = Len(t) /\ \A y \in 1..Len(x) : x[y] = t[y]
    BY <1>2, SeqEqual
  <2>3. ASSUME Len(x) = j - i
        PROVE  (\A y \in 1..Len(x) : x[y] = t[y]) <=> \A y \in 1..(j - i) : x[y] = s[i + y]
    BY <2>1, <2>3
  <2>4. x = t <=> Len(x) = j - i /\ \A y \in 1..(j - i) : x[y] = s[i + y]
    BY <2>1, <2>2, <2>3
  <2>5. ~(j <= i)
    BY <1>4
  <2>. QED
    BY <1>1, <1>4, <2>4, <2>5
<1>. QED
  BY <1>3, <1>4

\* The code matches an expression as documented.
LEMMA MatchesDocumented ==
  ASSUME NEW f \in Seq(STRING), Documented(f), NEW s \in Name
  PROVE  matches(f, s) <=> AsDocumented(f, s)
<1>1. PICK n, m : n = Len(f) /\ m = Len(s)
  OBVIOUS
<1>2. /\ s \in Seq(STRING \ {Asterix}) /\ s \in Seq(STRING)
      /\ n \in Nat /\ m \in Nat /\ m > 0 /\ f \in Seq(STRING)
  <2>1. s \in Seq(STRING \ {Asterix}) /\ s # << >>
    BY DEF Name
  <2>2. s \in Seq(STRING) /\ Len(s) > 0
    BY <2>1
  <2>. QED
    BY <1>1, <2>1, <2>2
<1>3. \A i \in 1..n : f[i] = Asterix => i \in {1, n}
  BY <1>1 DEF Documented
<1>4. f # << >> <=> n > 0
  BY <1>1, <1>2
<1>. DEFINE open == n > 0 /\ f[1] = Asterix
            ends == n > 0 /\ f[n] = Asterix
            Lo == IF open THEN 2 ELSE 1
            Hi == IF ends THEN n - 1 ELSE n
<1>5. PICK x : x = SubSeq(f, Lo, Hi)
  OBVIOUS
<1>6. AsDocumented(f, s) <=>
        \E i, j \in 0..m : x = SubSeq(s, i + 1, j) /\ (open \/ i = 0) /\ (ends \/ j = m)
  BY <1>1, <1>4, <1>5 DEF AsDocumented
<1>7. PICK a, len : a = (IF open THEN 1 ELSE 0) /\ len = Hi - a
  OBVIOUS
<1>8. a \in {0, 1} /\ len \in Int /\ Hi \in 0..n /\ Lo = a + 1 /\ Hi = len + a
  BY <1>2, <1>7
<1>9. /\ x \in Seq(STRING)
      /\ len >= 0 => Len(x) = len /\ \A y \in 1..len : x[y] = f[a + y]
      /\ len < 0 => Len(x) = 0
  <2>1. x = SubSeq(f, a + 1, Hi)
    BY <1>5, <1>8
  <2>. HIDE DEF Hi, Lo, open, ends
  <2>2. x \in Seq(STRING)
    BY <1>1, <1>2, <1>8, <2>1
  <2>3. CASE len >= 0
    BY <1>1, <1>2, <1>8, <2>1, <2>3
  <2>4. CASE len < 0
    BY <1>1, <1>2, <1>8, <2>1, <2>4
  <2>. QED
    BY <1>8, <2>2, <2>3, <2>4
<1>10. CASE f = <<Asterix>>
  <2>1. n = 1 /\ f[1] = Asterix /\ open /\ ends
    BY <1>1, <1>10
  <2>2. len = -1 /\ Len(x) = 0
    BY <1>7, <1>9, <2>1
  <2>3. 0 \in 0..m /\ 0 <= 0
    BY <1>2
  <2>4. x = SubSeq(s, 0 + 1, 0)
    BY <1>1, <1>2, <1>9, <2>2, <2>3, PartIs
  <2>5. AsDocumented(f, s)
    BY <1>6, <2>1, <2>3, <2>4
  <2>. QED
    BY <1>10, <2>5 DEF matches
<1>11. CASE f # <<Asterix>> /\ open
  <2>1. n >= 2
    <3>1. ASSUME n = 1 PROVE f = <<f[1]>>
      <4>1. PICK h : h = <<f[1]>>
        OBVIOUS
      <4>2. 1 \in 1..Len(f)
        BY <1>1, <3>1
      <4>3. f[1] \in STRING
        BY <4>2, ElementOfSeq
      <4>4. h \in Seq(STRING) /\ Len(h) = 1 /\ h[1] = f[1]
        BY <4>1, <4>3
      <4>5. Len(f) = Len(h) /\ \A i \in 1..Len(f) : f[i] = h[i]
        BY <1>1, <3>1, <4>4
      <4>6. f = h
        BY <4>4, <4>5, SeqEqual
      <4>. QED
        BY <4>1, <4>6
    <3>. QED
      BY <1>2, <1>11, <3>1
  <2>2. PICK g : g = Tail(f)
    OBVIOUS
  <2>3. g \in Seq(STRING) /\ Len(g) = n - 1 /\ \A i \in 1..(n - 1) : g[i] = f[i + 1]
    BY <1>1, <1>2, <2>1, <2>2
  <2>4. \A i \in 1..Len(g) : g[i] = Asterix => i = Len(g)
    <3>1. ASSUME NEW i \in 1..(n - 1), g[i] = Asterix PROVE i = n - 1
      <4>1. i + 1 \in 1..n /\ f[i + 1] = Asterix /\ i + 1 # 1
        BY <1>2, <2>3, <3>1
      <4>2. i + 1 = n
        BY <1>3, <4>1
      <4>. QED
        BY <1>2, <4>2
    <3>. QED
      BY <2>3, <3>1
  <2>5. matches(f, s) <=> \E k \in 0..(m - 1) : MatchesAt(g, s, k)
    BY <1>1, <1>4, <1>11, <2>2 DEF matches
  <2>6. g[n - 1] = f[n] /\ n - 1 > 0 /\ len >= 0 /\ a = 1 /\ (ends <=> f[n] = Asterix)
    BY <1>2, <1>7, <1>11, <2>1, <2>3
  <2>7. \A y \in 1..len : x[y] = g[y] /\ Len(x) = len
    <3>1. \A y \in 1..len : y \in 1..(n - 1) /\ a + y = y + 1
      BY <1>2, <1>8, <2>6
    <3>. QED
      BY <1>9, <2>3, <2>6, <3>1
  <2>8. ASSUME NEW k \in 0..(m - 1)
        PROVE  /\ k \in 0..m /\ k \in 0..Len(s)
               /\ MatchesAt(g, s, k) <=> (ends \/ len = m - k) /\ FoundAt(g, len, s, k)
    <3>1. k \in 0..m /\ k \in 0..Len(s)
      BY <1>1, <1>2
    <3>2. CASE ends
      <4>1. len = Len(g) - 1 /\ Len(g) > 0 /\ g[Len(g)] = Asterix
        BY <1>7, <2>3, <2>6, <3>2
      <4>2. MatchesAt(g, s, k) <=> FoundAt(g, Len(g) - 1, s, k)
        BY <1>2, <2>3, <2>4, <3>1, <4>1, MatchesAtIs
      <4>. QED
        BY <3>1, <3>2, <4>1, <4>2
    <3>3. CASE ~ends
      <4>1. len = Len(g) /\ ~(Len(g) > 0 /\ g[Len(g)] = Asterix)
        BY <1>7, <2>3, <2>6, <3>3
      <4>2. MatchesAt(g, s, k) <=> Len(g) = Len(s) - k /\ FoundAt(g, Len(g), s, k)
        BY <1>2, <2>3, <2>4, <3>1, <4>1, MatchesAtIs
      <4>. QED
        BY <1>1, <3>1, <3>3, <4>1, <4>2
    <3>. QED
      BY <3>2, <3>3
  <2>. HIDE DEF ends, open, Hi, Lo
  <2>9. ASSUME NEW k \in 0..(m - 1), ends \/ len = m - k, FoundAt(g, len, s, k)
        PROVE  \E i, j \in 0..m : x = SubSeq(s, i + 1, j) /\ (open \/ i = 0) /\ (ends \/ j = m)
    <3>1. k \in 0..m /\ k + len \in 0..m /\ len \in Nat
      BY <1>1, <1>2, <1>8, <2>6, <2>9 DEF FoundAt
    <3>2. \A y \in 1..len : x[y] = s[k + y]
      BY <2>7, <2>9 DEF FoundAt
    <3>3. Len(x) = len
      BY <1>9, <2>6
    <3>4. x = SubSeq(s, k + 1, k + len)
      <4>1. PICK j : j = k + len
        OBVIOUS
      <4>2. j - k = len /\ j \in 0..Len(s) /\ k \in 0..Len(s) /\ (j <= k => len = 0)
        BY <1>1, <3>1, <4>1
      <4>3. k < j \/ j <= k
        BY <3>1, <4>1
      <4>4. x = SubSeq(s, k + 1, j) <=>
              \/ j <= k /\ Len(x) = 0
              \/ k < j /\ Len(x) = j - k /\ \A y \in 1..(j - k) : x[y] = s[k + y]
        BY <1>2, <1>9, <4>2, PartIs
      <4>. QED
        BY <3>2, <3>3, <4>1, <4>2, <4>3, <4>4
    <3>5. ends \/ k + len = m
      BY <1>2, <2>9, <3>1
    <3>. QED
      BY <1>11, <3>1, <3>4, <3>5
  <2>10. ASSUME NEW i \in 0..m, NEW j \in 0..m, x = SubSeq(s, i + 1, j), ends \/ j = m
         PROVE  \E k \in 0..(m - 1) : (ends \/ len = m - k) /\ FoundAt(g, len, s, k)
    <3>1. \/ j <= i /\ len = 0
          \/ i < j /\ len = j - i /\ \A y \in 1..(j - i) : x[y] = s[i + y]
      BY <1>1, <1>2, <1>9, <2>6, <2>10, PartIs
    <3>2. CASE j <= i /\ len = 0
      <4>1. ends
        BY <1>7, <2>1, <2>6, <3>2 DEF Hi
      <4>2. 0 \in 0..(m - 1) /\ FoundAt(g, len, s, 0)
        BY <1>1, <1>2, <3>2 DEF FoundAt
      <4>. QED
        BY <4>1, <4>2
    <3>3. CASE i < j /\ len = j - i /\ \A y \in 1..(j - i) : x[y] = s[i + y]
      <4>1. i \in 0..(m - 1) /\ len <= m - i
        BY <1>2, <3>3
      <4>2. FoundAt(g, len, s, i)
        BY <1>1, <2>7, <3>3, <4>1 DEF FoundAt
      <4>3. ends \/ len = m - i
        BY <2>10, <3>3
      <4>. QED
        BY <4>1, <4>2, <4>3
    <3>. QED
      BY <3>1, <3>2, <3>3
  <2>11. matches(f, s) => AsDocumented(f, s)
    BY <1>6, <2>5, <2>8, <2>9
  <2>12. AsDocumented(f, s) => matches(f, s)
    BY <1>6, <2>5, <2>8, <2>10
  <2>. QED
    BY <2>11, <2>12
<1>12. CASE ~open
  <2>1. f # <<Asterix>>
    BY <1>1, <1>12
  <2>2. matches(f, s) <=> MatchesAt(f, s, 0)
    BY <1>1, <1>4, <1>12, <2>1 DEF matches
  <2>3. \A i \in 1..Len(f) : f[i] = Asterix => i = Len(f)
    BY <1>1, <1>2, <1>3, <1>12
  <2>4. a = 0 /\ len \in 0..n /\ (~ends => len = n) /\ 0 \in 0..Len(s)
    BY <1>1, <1>2, <1>7, <1>12
  <2>5. MatchesAt(f, s, 0) <=> (ends \/ len = m) /\ FoundAt(f, len, s, 0)
    <3>1. CASE ends
      <4>1. len = Len(f) - 1 /\ Len(f) > 0 /\ f[Len(f)] = Asterix
        BY <1>1, <1>7, <2>4, <3>1
      <4>2. MatchesAt(f, s, 0) <=> FoundAt(f, Len(f) - 1, s, 0)
        BY <1>2, <2>3, <2>4, <4>1, MatchesAtIs
      <4>. QED
        BY <3>1, <4>1, <4>2
    <3>2. CASE ~ends
      <4>1. len = Len(f) /\ ~(Len(f) > 0 /\ f[Len(f)] = Asterix)
        BY <1>1, <2>4, <3>2
      <4>2. MatchesAt(f, s, 0) <=> Len(f) = Len(s) - 0 /\ FoundAt(f, Len(f), s, 0)
        BY <1>2, <2>3, <2>4, <4>1, MatchesAtIs
      <4>. QED
        BY <1>1, <1>2, <3>2, <4>1, <4>2
    <3>. QED
      BY <3>1, <3>2
  <2>. HIDE DEF ends, open, Hi, Lo
  <2>6. Len(x) = len /\ \A y \in 1..len : x[y] = f[y]
    BY <1>8, <1>9, <2>4
  <2>7. ASSUME ends \/ len = m, FoundAt(f, len, s, 0)
        PROVE  \E i, j \in 0..m : x = SubSeq(s, i + 1, j) /\ (open \/ i = 0) /\ (ends \/ j = m)
    <3>1. 0 \in 0..m /\ len \in 0..m
      BY <1>1, <1>2, <2>4, <2>7 DEF FoundAt
    <3>2. \A y \in 1..len : x[y] = s[0 + y]
      BY <2>6, <2>7 DEF FoundAt
    <3>3. x = SubSeq(s, 0 + 1, len)
      <4>1. len - 0 = len /\ len \in 0..Len(s) /\ 0 \in 0..Len(s) /\ (len <= 0 => len = 0)
            /\ (0 < len \/ len <= 0)
        BY <1>1, <3>1
      <4>. QED
        BY <1>2, <1>9, <2>6, <3>2, <4>1, PartIs
    <3>. QED
      BY <2>7, <3>1, <3>3
  <2>8. ASSUME NEW i \in 0..m, NEW j \in 0..m, x = SubSeq(s, i + 1, j), i = 0, ends \/ j = m
        PROVE  (ends \/ len = m) /\ FoundAt(f, len, s, 0)
    <3>1. \/ j <= i /\ len = 0
          \/ i < j /\ len = j - i /\ \A y \in 1..(j - i) : x[y] = s[i + y]
      BY <1>1, <1>2, <1>9, <2>6, <2>8, PartIs
    <3>2. len = j
      BY <1>2, <2>8, <3>1
    <3>3. FoundAt(f, len, s, 0)
      BY <1>1, <1>2, <2>6, <2>8, <3>1, <3>2 DEF FoundAt
    <3>. QED
      BY <2>8, <3>2, <3>3
  <2>9. matches(f, s) => AsDocumented(f, s)
    BY <1>6, <2>2, <2>5, <2>7
  <2>10. AsDocumented(f, s) => matches(f, s)
    BY <1>6, <1>12, <2>2, <2>5, <2>8
  <2>. QED
    BY <2>9, <2>10
<1>. QED
  BY <1>10, <1>11, <1>12

-----------------------------------------------------------------------------
(* What the options -v ask for                                             *)

\* The arguments of -v.
LEMMA VerboseParts ==
  ASSUME NEW o \in Option, o.opt = "v"
  PROVE  /\ o.word \in DOMAIN Expressions
         /\ Expressions[o.word].v \in Nat /\ Expressions[o.word].tokens \in Seq(Token)
         /\ o.num # << >> => o.num[1] \in Nat /\ o.word = ""
         /\ Expressions[""].tokens = << >>
<1>1. o.word \in DOMAIN Expressions /\ (o.num # << >> => o.num[1] \in Nat /\ o.word = "")
  BY DEF Option
<1>2. \A w \in DOMAIN Expressions : Expressions[w].v \in Nat /\ Expressions[w].tokens \in Seq(Token)
  BY OptionsAssumption, Zenon
<1>4. Expressions[""].tokens = << >>
  BY OptionsAssumption, Zenon
<1>5. Expressions[o.word].v \in Nat /\ Expressions[o.word].tokens \in Seq(Token)
  BY <1>1, <1>2
<1>. QED
  BY <1>1, <1>4, <1>5

\* The verbosity asked for is a number.
LEMMA RaisedType ==
  ASSUME NEW n \in Nat, NEW o \in Option
  PROVE  Raised(n, o) \in Nat
<1>1. CASE o.opt = "v"
  <2>1. PICK y : y = Expressions[o.word].v
    OBVIOUS
  <2>2. y \in Nat /\ (o.num # << >> => o.num[1] \in Nat)
    BY <1>1, <2>1, VerboseParts
  <2>3. n + 1 + y \in Nat
    BY <2>2
  <2>. QED
    BY <2>1, <2>2, <2>3 DEF Raised
<1>2. CASE o.opt # "v"
  BY <1>2 DEF Raised
<1>. QED
  BY <1>1, <1>2

\* c[i] is the verbosity that the first i options of s ask for.
Counts(c, s) ==
  /\ c \in [0..Len(s) -> Nat] /\ c[0] = 0
  /\ \A i \in 1..Len(s) : c[i] = Raised(c[i - 1], s[i])

\* It can be counted.
LEMMA CountExists ==
  ASSUME NEW s \in Seq(Option)
  PROVE  \E c : Counts(c, s)
<1>1. Len(s) \in Nat /\ 0 \in Nat /\ \A i \in 1..Len(s) : s[i] \in Option
  OBVIOUS
<1>2. PICK F : F = [i \in 1..Len(s) |-> [x \in Nat |-> Raised(x, s[i])]]
  OBVIOUS
<1>3. F \in [1..Len(s) -> [Nat -> Nat]]
  <2>1. ASSUME NEW i \in 1..Len(s) PROVE [x \in Nat |-> Raised(x, s[i])] \in [Nat -> Nat]
    BY <1>1, RaisedType
  <2>. QED
    BY <1>2, <2>1
<1>4. PICK c : Recurses(c, Len(s), Nat, 0, F)
  BY <1>1, <1>3, RecursionExists, Zenon
<1>5. ASSUME NEW i \in 1..Len(s) PROVE c[i] = Raised(c[i - 1], s[i])
  <2>1. c[i - 1] \in Nat
    <3>1. i - 1 \in 0..Len(s)
      BY <1>1
    <3>. QED
      BY <1>4, <3>1 DEF Recurses
  <2>. QED
    BY <1>2, <1>4, <2>1 DEF Recurses
<1>. QED
  BY <1>4, <1>5 DEF Counts, Recurses

\* Asked is what is counted.
LEMMA AskedCounts ==
  ASSUME NEW s \in Seq(Option), NEW c, Counts(c, s)
  PROVE  Asked(s) = c[Len(s)]
<1>. DEFINE Def(g) == [i \in 0..Len(s) |-> IF i = 0 THEN 0 ELSE Raised(g[i - 1], s[i])]
            upTo == CHOOSE g : g = Def(g)
<1>1. Asked(s) = upTo[Len(s)]
  BY DEF Asked
<1>2. c = Def(c)
  <2>1. ASSUME NEW i \in 0..Len(s)
        PROVE  c[i] = IF i = 0 THEN 0 ELSE Raised(c[i - 1], s[i])
    <3>1. i # 0 => i \in 1..Len(s)
      OBVIOUS
    <3>. QED
      BY <3>1 DEF Counts
  <2>2. c = [i \in 0..Len(s) |-> c[i]]
    BY DEF Counts
  <2>. QED
    BY <2>1, <2>2
<1>3. upTo = Def(upTo)
  <2>. HIDE DEF Def
  <2>. QED
    BY <1>2
<1>. HIDE DEF upTo
<1>4. PICK E : E = {i \in 0..Len(s) : upTo[i] = c[i]}
  OBVIOUS
<1>5. Len(s) \in Nat /\ 0 \in 0..Len(s) /\ Len(s) \in 0..Len(s)
  OBVIOUS
<1>6. 0 \in E
  BY <1>3, <1>4, <1>5 DEF Counts
<1>7. ASSUME NEW i \in 0..(Len(s) - 1), i \in E PROVE i + 1 \in E
  <2>1. i + 1 \in 0..Len(s) /\ i + 1 # 0 /\ (i + 1) - 1 = i /\ i + 1 \in 1..Len(s)
    BY <1>5
  <2>2. upTo[i + 1] = Raised(upTo[i], s[i + 1])
    BY <1>3, <2>1
  <2>3. c[i + 1] = Raised(c[i], s[i + 1])
    BY <2>1 DEF Counts
  <2>. QED
    BY <1>4, <1>7, <2>1, <2>2, <2>3
<1>8. Len(s) \in E
  BY <1>5, <1>6, <1>7, UpTo
<1>. QED
  BY <1>1, <1>4, <1>8

\* One more option raises what was asked for before.
LEMMA AskedAppend ==
  ASSUME NEW s \in Seq(Option), NEW o \in Option
  PROVE  Asked(s) \in Nat /\ Asked(Append(s, o)) = Raised(Asked(s), o)
<1>1. PICK t, n : t = Append(s, o) /\ n = Len(s)
  OBVIOUS
<1>2. /\ t \in Seq(Option) /\ n \in Nat /\ Len(t) = n + 1 /\ n + 1 \in 1..Len(t)
      /\ t[n + 1] = o /\ \A i \in 1..n : t[i] = s[i]
  BY <1>1
<1>3. PICK c : Counts(c, t)
  BY <1>2, CountExists
<1>4. PICK d : d = [i \in 0..n |-> c[i]]
  OBVIOUS
<1>5. Counts(d, s)
  <2>1. /\ c \in [0..(n + 1) -> Nat] /\ c[0] = 0
        /\ \A i \in 1..(n + 1) : c[i] = Raised(c[i - 1], t[i])
    BY <1>2, <1>3 DEF Counts
  <2>2. d \in [0..n -> Nat] /\ d[0] = 0 /\ \A i \in 0..n : d[i] = c[i]
    BY <1>2, <1>4, <2>1
  <2>3. ASSUME NEW i \in 1..n PROVE d[i] = Raised(d[i - 1], s[i])
    <3>1. i \in 0..n /\ i - 1 \in 0..n /\ i \in 1..(n + 1)
      BY <1>2
    <3>. QED
      BY <1>2, <2>1, <2>2, <3>1
  <2>. QED
    BY <1>1, <2>2, <2>3 DEF Counts
<1>6. Asked(s) = d[n] /\ Asked(t) = c[n + 1]
  BY <1>1, <1>2, <1>3, <1>5, AskedCounts
<1>7. n \in 0..n /\ (n + 1) - 1 = n
  BY <1>2
<1>8. c[n + 1] = Raised(c[n], o) /\ d[n] = c[n] /\ d[n] \in Nat
  BY <1>1, <1>2, <1>3, <1>4, <1>5, <1>7 DEF Counts
<1>. QED
  BY <1>1, <1>6, <1>8

\* Without options nothing is asked for.
LEMMA AskedNothing == Asked(<< >>) = 0
<1>1. PICK e : e = << >>
  OBVIOUS
<1>2. e \in Seq(Option) /\ Len(e) = 0
  BY <1>1
<1>3. PICK c : Counts(c, e)
  BY <1>2, CountExists
<1>. QED
  BY <1>1, <1>2, <1>3, AskedCounts DEF Counts

\* What one more option says.
LEMMA SaidAppend ==
  ASSUME NEW s \in Seq(Option), NEW o \in Option
  PROVE  /\ o.opt # "v" => /\ Said(Append(s, o)) = Said(s)
                           /\ Verbose(Append(s, o)) = {} <=> Verbose(s) = {}
         /\ o.opt = "v" => /\ Said(Append(s, o)) = Said(s) \cup ToSet(Expressions[o.word].tokens)
                           /\ Verbose(Append(s, o)) # {}
<1>1. PICK t, n : t = Append(s, o) /\ n = Len(s)
  OBVIOUS
<1>2. /\ n \in Nat /\ DOMAIN s = 1..n /\ DOMAIN t = 1..(n + 1)
      /\ t[n + 1] = o /\ \A i \in 1..n : t[i] = s[i]
      /\ \A i \in 1..(n + 1) : i \in 1..n \/ i = n + 1
      /\ \A i \in 1..n : i \in 1..(n + 1)
      /\ n + 1 \in 1..(n + 1)
  BY <1>1
<1>. DEFINE Say(q) == ToSet(Expressions[q.word].tokens)
<1>3. CASE o.opt # "v"
  <2>1. Verbose(t) = Verbose(s)
    BY <1>2, <1>3 DEF Verbose
  <2>2. \A i \in Verbose(s) : t[i] = s[i]
    BY <1>2 DEF Verbose
  <2>3. Said(t) = Said(s)
    <3>. HIDE DEF Say
    <3>1. Said(t) = UNION {Say(t[i]) : i \in Verbose(t)} /\ Said(s) = UNION {Say(s[i]) : i \in Verbose(s)}
      BY DEF Said, Say
    <3>. QED
      BY <2>1, <2>2, <3>1
  <2>. QED
    BY <1>1, <1>3, <2>1, <2>3
<1>4. CASE o.opt = "v"
  <2>1. Verbose(t) = Verbose(s) \cup {n + 1}
    BY <1>2, <1>4 DEF Verbose
  <2>2. \A i \in Verbose(s) : t[i] = s[i]
    BY <1>2 DEF Verbose
  <2>3. Said(t) = Said(s) \cup Say(o)
    <3>. HIDE DEF Say
    <3>1. Said(t) = UNION {Say(t[i]) : i \in Verbose(t)} /\ Said(s) = UNION {Say(s[i]) : i \in Verbose(s)}
      BY DEF Said, Say
    <3>2. ASSUME NEW x PROVE x \in Said(t) <=> x \in Said(s) \/ x \in Say(o)
      BY <1>2, <2>1, <2>2, <3>1
    <3>. QED
      BY <3>2
  <2>. QED
    BY <1>1, <1>4, <2>1, <2>3
<1>. QED
  BY <1>3, <1>4

\* What is said are tokens.
LEMMA SaidType ==
  ASSUME NEW s \in Seq(Option)
  PROVE  Said(s) \subseteq Token
<1>1. ASSUME NEW i \in Verbose(s) PROVE ToSet(Expressions[s[i].word].tokens) \subseteq Token
  <2>1. s[i] \in Option /\ s[i].opt = "v"
    BY DEF Verbose
  <2>2. Expressions[s[i].word].tokens \in Seq(Token)
    BY <2>1, VerboseParts
  <2>. QED
    BY <2>2 DEF ToSet
<1>. QED
  BY <1>1 DEF Said

\* Raising in a byte.
LEMMA ByteSum ==
  ASSUME NEW n \in Nat, NEW y \in Nat
  PROVE  ((n % 256) + y) % 256 = (n + y) % 256
OBVIOUS

-----------------------------------------------------------------------------
(* What the log keeps                                                      *)

\* The log is what the options s ask for.
LogAfter(s) ==
  /\ log.verbosity = Asked(s) % 256
  /\ log.level = IF Verbose(s) = {} THEN LOGGER_LEVEL_WARN ELSE logger_set_level(Asked(s) % 256)
  /\ log.include = Texts(Said(s), FALSE) /\ log.exclude = Texts(Said(s), TRUE)
  /\ log.filter \in Seq(Token) /\ ToSet(log.filter) \subseteq Said(s)

\* It is so before the first option.
LEMMA LogInit ==
  ASSUME log = logger_init
  PROVE  LogAfter(<< >>)
<1>1. PICK e : e = << >>
  OBVIOUS
<1>2. /\ log.level = LOGGER_LEVEL_WARN /\ log.include = {} /\ log.exclude = {}
      /\ log.verbosity = 0 /\ log.filter = << >>
  BY DEF logger_init
<1>3. DOMAIN e = {}
  BY <1>1
<1>4. Verbose(e) = {}
  BY <1>3 DEF Verbose
<1>5. Said(e) = {}
  BY <1>4 DEF Said
<1>6. Texts({}, FALSE) = {} /\ Texts({}, TRUE) = {}
  BY DEF Texts
<1>7. << >> \in Seq(Token) /\ ToSet(<< >>) = {}
  BY DEF ToSet
<1>8. 0 % 256 = 0
  OBVIOUS
<1>. QED
  BY <1>1, <1>2, <1>4, <1>5, <1>6, <1>7, <1>8, AskedNothing DEF LogAfter

\* An option other than -v.
LEMMA LogKept ==
  ASSUME NEW CONSTANT s \in Seq(Option), NEW CONSTANT o \in Option, o.opt # "v",
         LogAfter(s), log' = log
  PROVE  LogAfter(Append(s, o))'
<1>1. PICK t : t = Append(s, o)
  OBVIOUS
<1>2. Said(t) = Said(s) /\ (Verbose(t) = {} <=> Verbose(s) = {})
  BY <1>1, SaidAppend
<1>3. Asked(t) = Asked(s)
  BY <1>1, AskedAppend DEF Raised
<1>. QED
  BY <1>1, <1>2, <1>3 DEF LogAfter

\* The texts of two sets of tokens.
LEMMA TextsUnion ==
  ASSUME NEW A, NEW B
  PROVE  /\ Texts(A, FALSE) \cup Texts(B, FALSE) = Texts(A \cup B, FALSE)
         /\ Texts(A, TRUE) \cup Texts(B, TRUE) = Texts(A \cup B, TRUE)
BY DEF Texts

\* The first token is one of the filter string.
LEMMA FirstToken ==
  ASSUME NEW f \in Seq(Token), NEW g, g = IF f = << >> THEN f ELSE <<Head(f)>>
  PROVE  g \in Seq(Token) /\ ToSet(g) \subseteq ToSet(f)
<1>1. CASE f = << >>
  BY <1>1
<1>2. CASE f # << >>
  <2>1. PICK h : h = Head(f)
    OBVIOUS
  <2>2. 1 \in DOMAIN f /\ h = f[1] /\ h \in Token
    BY <1>2, <2>1
  <2>3. g = <<h>>
    BY <1>2, <2>1
  <2>4. g \in Seq(Token) /\ \A i \in DOMAIN g : g[i] = h
    BY <2>2, <2>3
  <2>. QED
    BY <2>2, <2>4 DEF ToSet
<1>. QED
  BY <1>1, <1>2

\* The option o is -v and sets the log: v is its number b, or what it adds to what
\* was asked for, in a byte; f is the filter string that is parsed, the option's
\* or an earlier one, and g what strtok leaves of it.
SetsLog(o, b, v, f, g) ==
  /\ o.opt = "v"
  /\ b = IF o.num # << >> THEN o.num[1] ELSE log.verbosity + 1 + Expressions[o.word].v
  /\ v = b % 256
  /\ f \in Seq(Token)
  /\ \/ f = Expressions[o.word].tokens
     \/ f = log.filter /\ Expressions[o.word].tokens = << >>
  /\ g = IF f = << >> THEN f ELSE <<Head(f)>>
  /\ log' = [level |-> logger_set_level(v),
             include |-> log.include \cup Texts(ToSet(f), FALSE),
             exclude |-> log.exclude \cup Texts(ToSet(f), TRUE),
             verbosity |-> v, filter |-> g]

\* The option -v adds to the log what it asks for.
LEMMA LogV ==
  ASSUME NEW CONSTANT s \in Seq(Option), NEW CONSTANT o \in Option, LogAfter(s),
         NEW b, NEW v, NEW f, NEW g, SetsLog(o, b, v, f, g)
  PROVE  LogAfter(Append(s, o))'
<1>. USE DEF SetsLog
<1>1. PICK t, E : t = Append(s, o) /\ E = ToSet(Expressions[o.word].tokens)
  OBVIOUS
<1>2. Said(t) = Said(s) \cup E /\ Verbose(t) # {}
  BY <1>1, SaidAppend
<1>3. Asked(s) \in Nat /\ Asked(t) = Raised(Asked(s), o)
  BY <1>1, AskedAppend
<1>4. Expressions[o.word].v \in Nat
  BY VerboseParts
<1>5. v = Asked(t) % 256
  <2>1. CASE o.num # << >>
    BY <1>3, <2>1 DEF Raised
  <2>2. CASE o.num = << >>
    <3>1. PICK x, y, z : x = Asked(s) /\ y = Expressions[o.word].v /\ z = log.verbosity
      OBVIOUS
    <3>2. x \in Nat /\ y \in Nat /\ z = x % 256
      BY <1>3, <1>4, <3>1 DEF LogAfter
    <3>3. b = z + 1 + y /\ Asked(t) = x + 1 + y
      BY <1>3, <2>2, <3>1 DEF Raised
    <3>4. 1 + y \in Nat /\ z + 1 + y = (x % 256) + (1 + y) /\ x + 1 + y = x + (1 + y)
      BY <3>2
    <3>5. ((x % 256) + (1 + y)) % 256 = (x + (1 + y)) % 256
      BY <3>2, <3>4, ByteSum
    <3>. QED
      BY <3>3, <3>4, <3>5
  <2>. QED
    BY <2>1, <2>2
<1>6. /\ ToSet(f) \subseteq Said(t)
      /\ Texts(Said(s), FALSE) \cup Texts(ToSet(f), FALSE) = Texts(Said(t), FALSE)
      /\ Texts(Said(s), TRUE) \cup Texts(ToSet(f), TRUE) = Texts(Said(t), TRUE)
  <2>1. CASE f = Expressions[o.word].tokens
    <3>1. ToSet(f) = E
      BY <1>1, <2>1
    <3>2. PICK A : A = Said(s)
      OBVIOUS
    <3>3. /\ Texts(A, FALSE) \cup Texts(E, FALSE) = Texts(A \cup E, FALSE)
          /\ Texts(A, TRUE) \cup Texts(E, TRUE) = Texts(A \cup E, TRUE)
      BY TextsUnion
    <3>4. Said(t) = A \cup E /\ E \subseteq A \cup E
      BY <1>2, <3>2
    <3>. QED
      BY <3>1, <3>2, <3>3, <3>4
  <2>2. CASE f = log.filter /\ Expressions[o.word].tokens = << >>
    <3>1. E = {}
      BY <1>1, <2>2 DEF ToSet
    <3>2. Said(t) = Said(s) /\ ToSet(f) \subseteq Said(s)
      BY <1>2, <2>2, <3>1 DEF LogAfter
    <3>3. ASSUME NEW m PROVE Texts(Said(s), m) \cup Texts(ToSet(f), m) = Texts(Said(s), m)
      BY <3>2 DEF Texts
    <3>. QED
      BY <3>2, <3>3
  <2>. QED
    BY <2>1, <2>2
<1>7. g \in Seq(Token) /\ ToSet(g) \subseteq ToSet(f)
  BY FirstToken
<1>8. /\ log'.verbosity = Asked(t) % 256
      /\ log'.level = logger_set_level(Asked(t) % 256)
      /\ log'.include = log.include \cup Texts(ToSet(f), FALSE)
      /\ log'.exclude = log.exclude \cup Texts(ToSet(f), TRUE)
      /\ log'.filter = g
  BY <1>5
<1>9. log.include = Texts(Said(s), FALSE) /\ log.exclude = Texts(Said(s), TRUE)
  BY DEF LogAfter
<1>10. ToSet(g) \subseteq Said(t)
  BY <1>6, <1>7
<1>. QED
  BY <1>1, <1>2, <1>6, <1>7, <1>8, <1>9, <1>10 DEF LogAfter

\* The level kept writes the levels asked for.
LEMMA LevelIs ==
  ASSUME NEW v \in 0..255, NEW l \in 0..(LOG_N_LEVELS - 1)
  PROVE  l <= logger_set_level(v) <=> l <= v
BY DEF logger_set_level, LOG_N_LEVELS

\* The messages written are those asked for.
LEMMA LogMeans ==
  ASSUME NEW CONSTANT s \in Seq(Option), LogAfter(s),
         \A t \in Said(s) : Documented(t.text)
  PROVE  MessagesAfter(s)
<1>1. Asked(s) \in Nat
  <2>1. PICK c : Counts(c, s)
    BY CountExists
  <2>2. Len(s) \in 0..Len(s)
    OBVIOUS
  <2>. QED
    BY <2>1, <2>2, AskedCounts DEF Counts
<1>2. PICK x : x = Asked(s)
  OBVIOUS
<1>3. PICK v : v = x % 256
  OBVIOUS
<1>4. v \in 0..255
  <2>1. x \in Nat
    BY <1>1, <1>2
  <2>. QED
    BY <1>3, <2>1
<1>5. ASSUME NEW l \in 0..(LOG_N_LEVELS - 1) PROVE l <= log.level <=> LevelAfter(s, l)
  <2>1. CASE Verbose(s) = {}
    BY <2>1 DEF LogAfter, LevelAfter
  <2>2. CASE Verbose(s) # {}
    <3>1. log.level = logger_set_level(v)
      BY <1>2, <1>3, <2>2 DEF LogAfter
    <3>2. LevelAfter(s, l) <=> l <= v
      BY <1>2, <1>3, <2>2 DEF LevelAfter
    <3>. QED
      BY <1>4, <3>1, <3>2, LevelIs
  <2>. QED
    BY <2>1, <2>2
<1>6. FunctionNames \subseteq Name
  BY OptionsAssumption, Zenon
<1>7. ASSUME NEW f \in FunctionNames PROVE is_logging(log, f) <=> HeardAfter(s, f)
  <2>1. \A t \in Said(s) : t.text \in Seq(STRING) /\ t.minus \in BOOLEAN
    BY SaidType DEF Token
  <2>2. \A t \in Said(s) : matches(t.text, f) <=> AsDocumented(t.text, f)
    BY <1>6, <2>1, MatchesDocumented
  <2>3. ASSUME NEW m
        PROVE  is_filter(Texts(Said(s), m), f) <=>
                 \E t \in Said(s) : t.minus = m /\ AsDocumented(t.text, f)
    BY <2>2 DEF is_filter, Texts
  <2>4. Texts(Said(s), FALSE) = {} <=> \A t \in Said(s) : t.minus
    BY <2>1 DEF Texts
  <2>5. log.include = Texts(Said(s), FALSE) /\ log.exclude = Texts(Said(s), TRUE)
    BY DEF LogAfter
  <2>. QED
    BY <2>3, <2>4, <2>5 DEF is_logging, HeardAfter
<1>. QED
  BY <1>5, <1>7 DEF MessagesAfter, logger

-----------------------------------------------------------------------------
(* The effect of one option                                                *)

\* The devices that no option -i has set up.
SpareDevices ==
  \A d \in (number_interfaces + 1)..MAX_INTERFACES :
    if_devices[d].type = "TYPE_UNKNOWN" /\ if_devices[d].addr = NoAddress

\* The state is what the options s ask for.
Processed(s) ==
  /\ FieldsAfter(s)
  /\ RangeAfter(s)
  /\ DevicesAfter(s)
  /\ t_idx = UpToMax(Count(s, "t", Len(s)))
  /\ SpareDevices
  /\ LogAfter(s)

\* Append, from the outside.
LEMMA OneMore ==
  ASSUME NEW s \in Seq(Option), NEW o \in Option
  PROVE  /\ Append(s, o) \in Seq(Option) /\ Len(s) \in Nat /\ Len(Append(s, o)) = Len(s) + 1
         /\ DOMAIN s = 1..Len(s) /\ DOMAIN Append(s, o) = 1..(Len(s) + 1)
         /\ Append(s, o)[Len(s) + 1] = o /\ \A i \in 1..Len(s) : Append(s, o)[i] = s[i]
         /\ \A i \in 1..(Len(s) + 1) : i \in 1..Len(s) \/ i = Len(s) + 1
         /\ \A i \in 1..Len(s) : i \in 1..(Len(s) + 1) /\ i \in 0..Len(s) /\ i < Len(s) + 1
OBVIOUS

\* Assigning what the option says yields the last values.
LEMMA FieldsStep ==
  ASSUME NEW CONSTANT s \in Seq(Option), NEW CONSTANT o \in Option,
         FieldsAfter(s), status = "parsing",
         \A k \in Fields : value'[k] = IF k \in DOMAIN Assignments(o) THEN Assignments(o)[k]
                                       ELSE value[k]
  PROVE  FieldsAfter(Append(s, o))'
<1>1. \A k \in Fields : value[k] = LastSet(s, k)
  BY DEF FieldsAfter
<1>2. \A k \in Fields : value'[k] = LastSet(Append(s, o), k)
  BY <1>1, LastSetAppend
<1>. QED
  BY <1>2 DEF FieldsAfter

\* An option other than -m, -M and -r leaves the range as the last of them wants it.
LEMMA RangeKept ==
  ASSUME NEW CONSTANT s \in Seq(Option), NEW CONSTANT o \in Option,
         RangeAfter(s), range' = range, o.opt \notin {"m", "M", "r"}
  PROVE  RangeAfter(Append(s, o))'
<1>1. PICK t : t = Append(s, o)
  OBVIOUS
<1>2. /\ DOMAIN s = 1..Len(s) /\ DOMAIN t = 1..(Len(s) + 1)
      /\ t[Len(s) + 1] = o /\ \A i \in 1..Len(s) : t[i] = s[i]
      /\ \A i \in 1..(Len(s) + 1) : i \in 1..Len(s) \/ i = Len(s) + 1
      /\ \A i \in 1..Len(s) : i \in 1..(Len(s) + 1)
  BY <1>1, OneMore
<1>3. ASSUME NEW p \in DOMAIN t, LastOfRange(t, p)
      PROVE  p \in DOMAIN s /\ LastOfRange(s, p) /\ t[p] = s[p]
  BY <1>2, <1>3 DEF LastOfRange
<1>4. /\ range'.min <= range'.max
      /\ \A p \in DOMAIN t : LastOfRange(t, p) =>
           /\ t[p].opt = "m" => range'.min = Saturate(t[p].num[1])
           /\ t[p].opt = "M" => range'.max = Saturate(t[p].num[1])
           /\ t[p].opt = "r" => range'.max - range'.min = t[p].num[1]
  BY <1>3 DEF RangeAfter
<1>. QED
  BY <1>1, <1>4 DEF RangeAfter

\* -m, -M and -r: the range is as the option wants it and not inverted.
LEMMA RangeSet ==
  ASSUME NEW r \in Range32, r.min <= r.max, NEW v \in Int
  PROVE  /\ LET n == set_sampling_lowerbound(r, v)
            IN  n \in Range32 /\ n.min <= n.max /\ n.min = Saturate(v)
         /\ LET n == set_sampling_upperbound(r, v)
            IN  n \in Range32 /\ n.min <= n.max /\ n.max = Saturate(v)
         /\ v \in UInt32 =>
              LET n == set_sampling_ratio(v)
              IN  n \in Range32 /\ n.min <= n.max /\ n.max - n.min = v
<1>1. Saturate(v) \in UInt32
  BY SelectionAssumption DEF Saturate, UInt32
<1>2. ASSUME v \in UInt32, UINT32_MAX - v > RANGE_MIN PROVE (v + RANGE_MIN) % U32 = v + RANGE_MIN
  BY <1>2, SelectionAssumption DEF UInt32, U32
<1>3. r.min \in UInt32 /\ r.max \in UInt32
  BY DEF Range32
<1>4. LET n == set_sampling_lowerbound(r, v)
      IN  n \in Range32 /\ n.min <= n.max /\ n.min = Saturate(v)
  BY <1>1, <1>3, SelectionAssumption DEF set_sampling_lowerbound, Range32, UInt32
<1>5. LET n == set_sampling_upperbound(r, v)
      IN  n \in Range32 /\ n.min <= n.max /\ n.max = Saturate(v)
  BY <1>1, <1>3, SelectionAssumption DEF set_sampling_upperbound, Range32, UInt32
<1>6. ASSUME v \in UInt32
      PROVE  LET n == set_sampling_ratio(v)
             IN  n \in Range32 /\ n.min <= n.max /\ n.max - n.min = v
  <2>1. CASE UINT32_MAX - v > RANGE_MIN
    BY <1>2, <1>6, <2>1, SelectionAssumption DEF set_sampling_ratio, Range32, UInt32
  <2>2. CASE ~(UINT32_MAX - v > RANGE_MIN)
    BY <1>6, <2>2, SelectionAssumption DEF set_sampling_ratio, Range32, UInt32
  <2>. QED
    BY <2>1, <2>2
<1>. QED
  BY <1>4, <1>5, <1>6

\* The range after one of them.
LEMMA RangeStep ==
  ASSUME NEW CONSTANT s \in Seq(Option), NEW CONSTANT o \in Option,
         RangeAfter(s), range \in Range32,
         \/ o.opt = "m" /\ range' = set_sampling_lowerbound(range, o.num[1])
         \/ o.opt = "M" /\ range' = set_sampling_upperbound(range, o.num[1])
         \/ o.opt = "r" /\ range' = set_sampling_ratio(o.num[1])
  PROVE  range' \in Range32 /\ RangeAfter(Append(s, o))'
<1>1. PICK t : t = Append(s, o)
  OBVIOUS
<1>2. DOMAIN t = 1..(Len(s) + 1) /\ t[Len(s) + 1] = o /\ Len(s) \in Nat
  BY <1>1, OneMore
<1>3. range.min <= range.max
  BY DEF RangeAfter
<1>4. o.num[1] \in Int /\ (o.opt = "r" => o.num[1] \in UInt32)
  BY OptionParts
<1>5. /\ range' \in Range32 /\ range'.min <= range'.max
      /\ o.opt = "m" => range'.min = Saturate(o.num[1])
      /\ o.opt = "M" => range'.max = Saturate(o.num[1])
      /\ o.opt = "r" => range'.max - range'.min = o.num[1]
  <2>1. CASE o.opt = "m" /\ range' = set_sampling_lowerbound(range, o.num[1])
    <3>1. range' \in Range32 /\ range'.min <= range'.max /\ range'.min = Saturate(o.num[1])
      BY <1>3, <1>4, <2>1, RangeSet
    <3>. QED
      BY <2>1, <3>1
  <2>2. CASE o.opt = "M" /\ range' = set_sampling_upperbound(range, o.num[1])
    <3>1. range' \in Range32 /\ range'.min <= range'.max /\ range'.max = Saturate(o.num[1])
      BY <1>3, <1>4, <2>2, RangeSet
    <3>. QED
      BY <2>2, <3>1
  <2>3. CASE o.opt = "r" /\ range' = set_sampling_ratio(o.num[1])
    <3>1. range' \in Range32 /\ range'.min <= range'.max /\ range'.max - range'.min = o.num[1]
      BY <1>3, <1>4, <2>3, RangeSet
    <3>. QED
      BY <2>3, <3>1
  <2>. QED
    BY <2>1, <2>2, <2>3
<1>6. ASSUME NEW p \in DOMAIN t, LastOfRange(t, p) PROVE t[p] = o
  <2>1. Len(s) + 1 <= p
    BY <1>2, <1>6 DEF LastOfRange
  <2>2. p = Len(s) + 1
    BY <1>2, <2>1
  <2>. QED
    BY <1>2, <2>2
<1>7. /\ range'.min <= range'.max
      /\ \A p \in DOMAIN t : LastOfRange(t, p) =>
           /\ t[p].opt = "m" => range'.min = Saturate(t[p].num[1])
           /\ t[p].opt = "M" => range'.max = Saturate(t[p].num[1])
           /\ t[p].opt = "r" => range'.max - range'.min = t[p].num[1]
  BY <1>5, <1>6
<1>. QED
  BY <1>1, <1>5, <1>7 DEF RangeAfter

\* A device that a later option does not touch is still as its options want it.
LEMMA DeviceKept ==
  ASSUME NEW CONSTANT s \in Seq(Option), NEW CONSTANT o \in Option,
         NEW CONSTANT p \in 1..Len(s), DeviceAfter(s, p), opened' = opened,
         if_devices'[Count(s, "i", p)] = if_devices[Count(s, "i", p)],
         o.opt = "t" => Count(Append(s, o), "t", Len(s) + 1) # Count(s, "i", p)
  PROVE  DeviceAfter(Append(s, o), p)'
<1>1. PICK t : t = Append(s, o)
  OBVIOUS
<1>2. PICK d : d = Count(s, "i", p)
  OBVIOUS
<1>3. /\ DOMAIN s = 1..Len(s) /\ DOMAIN t = 1..(Len(s) + 1) /\ Len(s) \in Nat
      /\ t[Len(s) + 1] = o /\ \A i \in 1..Len(s) : t[i] = s[i]
      /\ \A i \in 1..(Len(s) + 1) : i \in 1..Len(s) \/ i = Len(s) + 1
      /\ \A i \in 1..Len(s) : i \in 1..(Len(s) + 1) /\ i \in 0..Len(s)
  BY <1>1, OneMore
<1>4. Count(t, "i", p) = d /\ t[p] = s[p]
  BY <1>1, <1>2, <1>3, CountAppend
<1>5. \A q \in 1..Len(s) : Count(t, "t", q) = Count(s, "t", q)
  BY <1>1, <1>3, CountAppend
<1>6. SubSeq(t, 1, p) = SubSeq(s, 1, p)
  BY <1>1
<1>. DEFINE Ts(u) == {q \in DOMAIN u : q > p /\ u[q].opt = "t" /\ Count(u, "t", q) = d}
<1>7. Ts(t) = Ts(s)
  <2>1. ASSUME NEW q \in Ts(t) PROVE q \in Ts(s)
    <3>1. q \in 1..(Len(s) + 1) /\ q > p /\ t[q].opt = "t" /\ Count(t, "t", q) = d
      BY <1>3
    <3>2. q # Len(s) + 1
      BY <1>1, <1>2, <1>3, <3>1
    <3>3. q \in 1..Len(s)
      BY <1>3, <3>1, <3>2
    <3>. QED
      BY <1>3, <1>5, <3>1, <3>3
  <2>2. ASSUME NEW q \in Ts(s) PROVE q \in Ts(t)
    BY <1>3, <1>5
  <2>. QED
    BY <2>1, <2>2
<1>8. \A q \in Ts(s) : q \in 1..Len(s) /\ t[q] = s[q]
  BY <1>3
<1>9. PICK T : T = Ts(s)
  OBVIOUS
<1>10. /\ if_devices[d].type = DeviceType(s[p].word, "TYPE_UNKNOWN")
       /\ if_devices[d].size = LastSet(SubSeq(s, 1, p), "N")
       /\ T = {} => if_devices[d].template = Unset
       /\ \A q \in T : if_devices[d].template = parse_template(s[q].word)
       /\ if_devices[d].addr # NoAddress => d <= opened /\ s[p].word \in {"", "i"}
  BY <1>2, <1>9 DEF DeviceAfter
<1>11. /\ if_devices'[d].type = DeviceType(t[p].word, "TYPE_UNKNOWN")
       /\ if_devices'[d].size = LastSet(SubSeq(t, 1, p), "N")
       /\ T = {} => if_devices'[d].template = Unset
       /\ \A q \in T : if_devices'[d].template = parse_template(t[q].word)
       /\ if_devices'[d].addr # NoAddress => d <= opened' /\ t[p].word \in {"", "i"}
  <2>1. if_devices'[d] = if_devices[d]
    BY <1>2
  <2>. QED
    BY <1>4, <1>6, <1>8, <1>9, <1>10, <2>1
<1>12. T = Ts(t)
  BY <1>7, <1>9
<1>. QED
  BY <1>1, <1>4, <1>11, <1>12 DEF DeviceAfter

\* Options other than -i and -t leave the devices alone.
LEMMA DevicesKept ==
  ASSUME NEW CONSTANT s \in Seq(Option), NEW CONSTANT o \in Option,
         o.opt \notin {"i", "t"}, DevicesAfter(s), SpareDevices,
         t_idx = UpToMax(Count(s, "t", Len(s))),
         UNCHANGED <<if_devices, number_interfaces, t_idx, opened>>
  PROVE  /\ DevicesAfter(Append(s, o))' /\ SpareDevices'
         /\ t_idx' = UpToMax(Count(Append(s, o), "t", Len(Append(s, o))))
<1>1. PICK t : t = Append(s, o)
  OBVIOUS
<1>2. /\ DOMAIN s = 1..Len(s) /\ DOMAIN t = 1..(Len(s) + 1) /\ Len(t) = Len(s) + 1
      /\ t[Len(s) + 1] = o /\ \A i \in 1..Len(s) : t[i] = s[i]
      /\ \A i \in 1..(Len(s) + 1) : i \in 1..Len(s) \/ i = Len(s) + 1
      /\ \A i \in 1..Len(s) : i \in 0..Len(s)
      /\ Len(s) \in 0..Len(s)
  BY <1>1, OneMore
<1>3. Count(t, "i", Len(t)) = Count(s, "i", Len(s)) /\ Count(t, "t", Len(t)) = Count(s, "t", Len(s))
  BY <1>1, <1>2, CountAppend
<1>4. ASSUME NEW p \in DOMAIN t, t[p].opt = "i", Count(t, "i", p) <= MAX_INTERFACES
      PROVE  DeviceAfter(t, p)'
  <2>1. p \in 1..Len(s) /\ t[p] = s[p]
    BY <1>2, <1>4
  <2>2. Count(t, "i", p) = Count(s, "i", p)
    BY <1>1, <1>2, <2>1, CountAppend
  <2>3. DeviceAfter(s, p)
    BY <1>2, <1>4, <2>1, <2>2 DEF DevicesAfter
  <2>. QED
    BY <1>1, <2>1, <2>3, DeviceKept
<1>5. DevicesAfter(t)'
  BY <1>3, <1>4 DEF DevicesAfter
<1>6. SpareDevices'
  BY DEF SpareDevices
<1>. QED
  BY <1>1, <1>3, <1>5, <1>6

\* -i: one more device, unless the table is full.
LEMMA DevicesI ==
  ASSUME NEW CONSTANT s \in Seq(Option), NEW CONSTANT o \in Option,
         o.opt = "i", DevicesAfter(s), SpareDevices,
         t_idx = UpToMax(Count(s, "t", Len(s))),
         value["N"] = LastSet(s, "N"),
         if_devices \in [1..MAX_INTERFACES -> Device],
         number_interfaces \in 0..MAX_INTERFACES,
         \/ /\ number_interfaces = MAX_INTERFACES
            /\ UNCHANGED <<if_devices, number_interfaces>>
         \/ /\ number_interfaces < MAX_INTERFACES
            /\ number_interfaces' = number_interfaces + 1
            /\ if_devices' = [if_devices EXCEPT ![number_interfaces + 1] =
                                [type |-> DeviceType(o.word, @.type),
                                 size |-> value["N"], template |-> Unset, addr |-> @.addr]],
         UNCHANGED <<t_idx, opened>>
  PROVE  /\ DevicesAfter(Append(s, o))' /\ SpareDevices'
         /\ t_idx' = UpToMax(Count(Append(s, o), "t", Len(Append(s, o))))
<1>1. PICK t : t = Append(s, o)
  OBVIOUS
<1>2. /\ DOMAIN s = 1..Len(s) /\ DOMAIN t = 1..(Len(s) + 1) /\ Len(t) = Len(s) + 1
      /\ t \in Seq(Option) /\ Len(s) \in Nat
      /\ t[Len(s) + 1] = o /\ \A i \in 1..Len(s) : t[i] = s[i]
      /\ \A i \in 1..(Len(s) + 1) : i \in 1..Len(s) \/ i = Len(s) + 1
      /\ \A i \in 1..Len(s) : i \in 0..Len(s) /\ i \in Nat /\ i <= Len(s)
      /\ Len(s) \in 0..Len(s)
  BY <1>1, OneMore
<1>3. PICK c : c = Count(s, "i", Len(s))
  OBVIOUS
<1>4. /\ c \in Nat /\ Count(t, "i", Len(s) + 1) = c + 1
      /\ Count(t, "t", Len(s) + 1) = Count(s, "t", Len(s))
      /\ \A p \in 1..Len(s) : Count(s, "i", p) <= c /\ Count(s, "i", p) \in Nat
  BY <1>1, <1>2, <1>3, CountAppend, CountType, CountGrows
<1>5. MAX_INTERFACES \in Nat /\ number_interfaces = UpToMax(c)
  BY <1>3, Limits DEF DevicesAfter
<1>6. t_idx' = UpToMax(Count(t, "t", Len(t)))
  BY <1>2, <1>4
<1>7. \A p \in 1..Len(s) : if_devices'[Count(s, "i", p)] = if_devices[Count(s, "i", p)]
                             => /\ t[p] = s[p] /\ Count(t, "i", p) = Count(s, "i", p)
                                /\ DeviceAfter(s, p) => DeviceAfter(t, p)'
  BY <1>1, <1>2, CountAppend, DeviceKept
<1>8. CASE number_interfaces = MAX_INTERFACES
  <2>1. UNCHANGED <<if_devices, number_interfaces>>
    BY <1>5, <1>8
  <2>2. c >= MAX_INTERFACES
    BY <1>4, <1>5, <1>8 DEF UpToMax
  <2>3. number_interfaces' = UpToMax(Count(t, "i", Len(t)))
    BY <1>2, <1>4, <1>5, <1>8, <2>1, <2>2 DEF UpToMax
  <2>4. ASSUME NEW p \in DOMAIN t, t[p].opt = "i", Count(t, "i", p) <= MAX_INTERFACES
        PROVE  DeviceAfter(t, p)'
    <3>1. p # Len(s) + 1
      BY <1>4, <1>5, <2>2, <2>4
    <3>2. p \in 1..Len(s)
      BY <1>2, <3>1
    <3>. QED
      BY <1>2, <1>7, <2>1, <2>4, <3>2 DEF DevicesAfter
  <2>5. DevicesAfter(t)' /\ SpareDevices'
    BY <2>1, <2>3, <2>4 DEF DevicesAfter, SpareDevices
  <2>. QED
    BY <1>1, <1>6, <2>5
<1>9. CASE number_interfaces < MAX_INTERFACES
  <2>1. c = number_interfaces /\ c < MAX_INTERFACES
    BY <1>4, <1>5, <1>9 DEF UpToMax
  <2>2. c + 1 \in 1..MAX_INTERFACES /\ c + 1 \in (number_interfaces + 1)..MAX_INTERFACES
    BY <1>4, <1>5, <2>1
  <2>3. PICK old : old = if_devices[c + 1]
    OBVIOUS
  <2>4. old.type = "TYPE_UNKNOWN" /\ old.addr = NoAddress
    BY <2>2, <2>3 DEF SpareDevices
  <2>5. /\ number_interfaces' = c + 1
        /\ if_devices' = [if_devices EXCEPT ![c + 1] =
                            [type |-> DeviceType(o.word, "TYPE_UNKNOWN"), size |-> LastSet(s, "N"),
                             template |-> Unset, addr |-> NoAddress]]
    <3>1. number_interfaces' = number_interfaces + 1
      BY <1>9
    <3>2. if_devices' = [if_devices EXCEPT ![number_interfaces + 1] =
                                [type |-> DeviceType(o.word, @.type),
                                 size |-> value["N"], template |-> Unset, addr |-> @.addr]]
      BY <1>9
    <3>. QED
      BY <2>1, <2>3, <2>4, <3>1, <3>2
  <2>6. /\ \A d \in 1..MAX_INTERFACES : d # c + 1 => if_devices'[d] = if_devices[d]
        /\ if_devices'[c + 1] = [type |-> DeviceType(o.word, "TYPE_UNKNOWN"),
                                 size |-> LastSet(s, "N"), template |-> Unset, addr |-> NoAddress]
    BY <2>2, <2>5
  <2>7. number_interfaces' = UpToMax(Count(t, "i", Len(t)))
    BY <1>2, <1>4, <1>5, <2>1, <2>5 DEF UpToMax
  <2>8. ASSUME NEW p \in 1..Len(s), t[p].opt = "i", Count(t, "i", p) <= MAX_INTERFACES
        PROVE  DeviceAfter(t, p)'
    <3>1. t[p] = s[p] /\ Count(t, "i", p) = Count(s, "i", p)
      BY <1>1, <1>2, CountAppend
    <3>2. Count(s, "i", p) >= 1
      <4>1. Count(s, "i", 0) = 0 /\ 0 \in Nat /\ p \in Nat /\ 0 < p /\ 0 <= p
        BY CountType
      <4>2. Count(s, "i", 0) < Count(s, "i", p)
        BY <2>8, <3>1, <4>1, CountGrows
      <4>. QED
        BY <1>4, <4>1, <4>2
    <3>3. Count(s, "i", p) \in 1..MAX_INTERFACES /\ Count(s, "i", p) # c + 1
      BY <1>4, <1>5, <2>8, <3>1, <3>2
    <3>4. DeviceAfter(s, p)
      BY <1>2, <2>8, <3>1 DEF DevicesAfter
    <3>. QED
      BY <1>7, <2>6, <3>3, <3>4
  <2>9. DeviceAfter(t, Len(s) + 1)'
    <3>1. Count(t, "i", Len(s) + 1) = c + 1 /\ t[Len(s) + 1] = o
      BY <1>2, <1>4
    <3>2. {q \in DOMAIN t : q > Len(s) + 1 /\ t[q].opt = "t" /\ Count(t, "t", q) = c + 1} = {}
      BY <1>2
    <3>3. LastSet(SubSeq(t, 1, Len(s) + 1), "N") = LastSet(s, "N")
      <4>1. SubSeq(t, 1, Len(s) + 1) = t
        BY <1>2
      <4>2. "i" \notin Numbers \cup {"4", "6", "u", "l", "L"}
        BY DEF Numbers, Fields
      <4>3. DOMAIN Assignments(o) = {}
        BY <4>2, AssignedType
      <4>4. LastSet(t, "N") = LastSet(s, "N")
        BY <1>1, <4>3, LastSetAppend
      <4>. QED
        BY <4>1, <4>4
    <3>4. /\ if_devices'[c + 1].type = DeviceType(o.word, "TYPE_UNKNOWN")
          /\ if_devices'[c + 1].size = LastSet(SubSeq(t, 1, Len(s) + 1), "N")
          /\ if_devices'[c + 1].template = Unset
          /\ if_devices'[c + 1].addr = NoAddress
      BY <2>6, <3>3
    <3>5. PICK T : T = {q \in DOMAIN t : q > Len(s) + 1 /\ t[q].opt = "t" /\ Count(t, "t", q) = c + 1}
      OBVIOUS
    <3>6. T = {}
      BY <3>2, <3>5
    <3>. QED
      BY <3>1, <3>4, <3>5, <3>6 DEF DeviceAfter
  <2>10. DevicesAfter(t)'
    BY <1>2, <2>7, <2>8, <2>9 DEF DevicesAfter
  <2>11. SpareDevices'
    <3>1. ASSUME NEW d \in (number_interfaces' + 1)..MAX_INTERFACES
          PROVE  if_devices'[d].type = "TYPE_UNKNOWN" /\ if_devices'[d].addr = NoAddress
      <4>1. d \in (number_interfaces + 1)..MAX_INTERFACES /\ d \in 1..MAX_INTERFACES /\ d # c + 1
        BY <1>4, <1>5, <2>1, <2>5
      <4>. QED
        BY <2>6, <4>1 DEF SpareDevices
    <3>. QED
      BY <3>1 DEF SpareDevices
  <2>. QED
    BY <1>1, <1>6, <2>10, <2>11
<1>10. number_interfaces = MAX_INTERFACES \/ number_interfaces < MAX_INTERFACES
  BY <1>5
<1>. QED
  BY <1>8, <1>9, <1>10

\* -t: the template of the next device, unless all had one.
LEMMA DevicesT ==
  ASSUME NEW CONSTANT s \in Seq(Option), NEW CONSTANT o \in Option,
         o.opt = "t", DevicesAfter(s), SpareDevices,
         t_idx = UpToMax(Count(s, "t", Len(s))),
         if_devices \in [1..MAX_INTERFACES -> Device],
         \/ t_idx = MAX_INTERFACES /\ UNCHANGED <<t_idx, if_devices>>
         \/ /\ t_idx < MAX_INTERFACES
            /\ t_idx' = t_idx + 1
            /\ if_devices' = [if_devices EXCEPT ![t_idx + 1].template = parse_template(o.word)],
         UNCHANGED <<number_interfaces, opened>>
  PROVE  /\ DevicesAfter(Append(s, o))' /\ SpareDevices'
         /\ t_idx' = UpToMax(Count(Append(s, o), "t", Len(Append(s, o))))
<1>1. PICK t : t = Append(s, o)
  OBVIOUS
<1>2. /\ DOMAIN s = 1..Len(s) /\ DOMAIN t = 1..(Len(s) + 1) /\ Len(t) = Len(s) + 1
      /\ t \in Seq(Option) /\ Len(s) \in Nat
      /\ t[Len(s) + 1] = o /\ \A i \in 1..Len(s) : t[i] = s[i]
      /\ \A i \in 1..(Len(s) + 1) : i \in 1..Len(s) \/ i = Len(s) + 1
      /\ \A i \in 1..Len(s) : i \in 0..Len(s) /\ i \in Nat /\ i <= Len(s) /\ i < Len(s) + 1
      /\ Len(s) \in 0..Len(s)
  BY <1>1, OneMore
<1>3. PICK c : c = Count(s, "t", Len(s))
  OBVIOUS
<1>4. /\ c \in Nat /\ Count(t, "t", Len(s) + 1) = c + 1
      /\ Count(t, "i", Len(s) + 1) = Count(s, "i", Len(s))
      /\ \A q \in 1..Len(s) : Count(t, "t", q) <= c
  <2>1. c \in Nat /\ Count(t, "t", Len(s) + 1) = c + 1
    BY <1>1, <1>2, <1>3, CountAppend, CountType
  <2>2. Count(t, "i", Len(s) + 1) = Count(s, "i", Len(s))
    BY <1>1, <1>2, CountAppend
  <2>3. ASSUME NEW q \in 1..Len(s) PROVE Count(t, "t", q) <= c
    <3>1. Count(t, "t", q) = Count(s, "t", q)
      BY <1>1, <1>2, CountAppend
    <3>2. Count(s, "t", q) <= Count(s, "t", Len(s))
      BY <1>2, CountGrows
    <3>. QED
      BY <1>3, <3>1, <3>2
  <2>. QED
    BY <2>1, <2>2, <2>3
<1>5. MAX_INTERFACES \in Nat /\ t_idx = UpToMax(c)
  BY <1>3, Limits
<1>6. number_interfaces' = UpToMax(Count(t, "i", Len(t)))
  BY <1>2, <1>4 DEF DevicesAfter
<1>7. ASSUME NEW p \in DOMAIN t, t[p].opt = "i", Count(t, "i", p) <= MAX_INTERFACES
      PROVE  /\ p \in 1..Len(s) /\ t[p] = s[p] /\ Count(t, "i", p) = Count(s, "i", p)
             /\ Count(s, "i", p) \in 1..MAX_INTERFACES /\ DeviceAfter(s, p)
  <2>1. p \in 1..Len(s) /\ t[p] = s[p]
    BY <1>2, <1>7
  <2>2. Count(t, "i", p) = Count(s, "i", p)
    BY <1>1, <1>2, <2>1, CountAppend
  <2>3. Count(s, "i", 0) = 0 /\ 0 \in Nat /\ p \in Nat /\ 0 < p /\ 0 <= p
    BY <2>1, CountType
  <2>4. Count(s, "i", 0) < Count(s, "i", p) /\ Count(s, "i", p) \in Nat
    BY <1>7, <2>1, <2>3, CountGrows, CountType
  <2>5. Count(s, "i", p) \in 1..MAX_INTERFACES
    BY <1>5, <1>7, <2>2, <2>3, <2>4
  <2>. QED
    BY <1>2, <1>7, <2>1, <2>2, <2>5 DEF DevicesAfter
<1>8. CASE t_idx = MAX_INTERFACES
  <2>1. UNCHANGED <<t_idx, if_devices>>
    BY <1>5, <1>8
  <2>2. c >= MAX_INTERFACES
    BY <1>4, <1>5, <1>8 DEF UpToMax
  <2>3. t_idx' = UpToMax(Count(t, "t", Len(t)))
    BY <1>2, <1>4, <1>5, <1>8, <2>1, <2>2 DEF UpToMax
  <2>4. ASSUME NEW p \in DOMAIN t, t[p].opt = "i", Count(t, "i", p) <= MAX_INTERFACES
        PROVE  DeviceAfter(t, p)'
    <3>1. p \in 1..Len(s) /\ Count(s, "i", p) \in 1..MAX_INTERFACES /\ DeviceAfter(s, p)
      BY <1>7, <2>4
    <3>2. Count(t, "t", Len(s) + 1) # Count(s, "i", p)
      BY <1>4, <1>5, <2>2, <3>1
    <3>. QED
      BY <1>1, <2>1, <3>1, <3>2, DeviceKept
  <2>5. DevicesAfter(t)' /\ SpareDevices'
    BY <1>6, <2>1, <2>4 DEF DevicesAfter, SpareDevices
  <2>. QED
    BY <1>1, <2>3, <2>5
<1>9. CASE t_idx < MAX_INTERFACES
  <2>1. c = t_idx /\ c < MAX_INTERFACES /\ c + 1 \in 1..MAX_INTERFACES
    BY <1>4, <1>5, <1>9 DEF UpToMax
  <2>2. /\ t_idx' = c + 1
        /\ if_devices' = [if_devices EXCEPT ![c + 1].template = parse_template(o.word)]
    <3>1. t_idx # MAX_INTERFACES
      BY <1>4, <1>5, <1>9 DEF UpToMax
    <3>2. /\ t_idx' = t_idx + 1
          /\ if_devices' = [if_devices EXCEPT ![t_idx + 1].template = parse_template(o.word)]
      BY <3>1
    <3>. QED
      BY <2>1, <3>2
  <2>3. /\ \A d \in 1..MAX_INTERFACES : d # c + 1 => if_devices'[d] = if_devices[d]
        /\ if_devices'[c + 1].template = parse_template(o.word)
        /\ \A d \in 1..MAX_INTERFACES : /\ if_devices'[d].type = if_devices[d].type
                                        /\ if_devices'[d].size = if_devices[d].size
                                        /\ if_devices'[d].addr = if_devices[d].addr
    BY <2>1, <2>2 DEF Device
  <2>4. t_idx' = UpToMax(Count(t, "t", Len(t)))
    BY <1>2, <1>4, <1>5, <2>1, <2>2 DEF UpToMax
  <2>5. ASSUME NEW p \in DOMAIN t, t[p].opt = "i", Count(t, "i", p) <= MAX_INTERFACES
        PROVE  DeviceAfter(t, p)'
    <3>1. /\ p \in 1..Len(s) /\ t[p] = s[p] /\ Count(t, "i", p) = Count(s, "i", p)
          /\ Count(s, "i", p) \in 1..MAX_INTERFACES /\ DeviceAfter(s, p)
      BY <1>7, <2>5
    <3>2. CASE Count(s, "i", p) # c + 1
      <4>1. if_devices'[Count(s, "i", p)] = if_devices[Count(s, "i", p)]
        BY <2>3, <3>1, <3>2
      <4>2. Count(t, "t", Len(s) + 1) # Count(s, "i", p)
        BY <1>4, <3>2
      <4>. QED
        BY <1>1, <3>1, <4>1, <4>2, DeviceKept
    <3>3. CASE Count(s, "i", p) = c + 1
      <4>. DEFINE Ts == {q \in DOMAIN t : q > p /\ t[q].opt = "t" /\ Count(t, "t", q) = c + 1}
      <4>1. Len(s) + 1 \in Ts
        BY <1>2, <1>4, <3>1
      <4>2. ASSUME NEW q \in Ts PROVE q = Len(s) + 1
        <5>1. q \in 1..(Len(s) + 1) /\ Count(t, "t", q) = c + 1
          BY <1>2
        <5>2. ~(Count(t, "t", q) <= c)
          BY <1>4, <5>1
        <5>. QED
          BY <1>2, <1>4, <5>1, <5>2
      <4>3. Ts # {} /\ \A q \in Ts : t[q] = o
        BY <1>2, <4>1, <4>2
      <4>4. SubSeq(t, 1, p) = SubSeq(s, 1, p)
        BY <1>1, <3>1
      <4>5. /\ if_devices[c + 1].type = DeviceType(s[p].word, "TYPE_UNKNOWN")
            /\ if_devices[c + 1].size = LastSet(SubSeq(s, 1, p), "N")
            /\ if_devices[c + 1].addr # NoAddress => c + 1 <= opened /\ s[p].word \in {"", "i"}
        BY <3>1, <3>3 DEF DeviceAfter
      <4>6. /\ if_devices'[c + 1].type = DeviceType(t[p].word, "TYPE_UNKNOWN")
            /\ if_devices'[c + 1].size = LastSet(SubSeq(t, 1, p), "N")
            /\ if_devices'[c + 1].template = parse_template(o.word)
            /\ if_devices'[c + 1].addr # NoAddress => c + 1 <= opened' /\ t[p].word \in {"", "i"}
        BY <2>1, <2>3, <3>1, <4>4, <4>5
      <4>7. Count(t, "i", p) = c + 1
        BY <3>1, <3>3
      <4>8. PICK T : T = Ts
        OBVIOUS
      <4>9. /\ T = {} => if_devices'[c + 1].template = Unset
            /\ \A q \in T : if_devices'[c + 1].template = parse_template(t[q].word)
        BY <4>3, <4>6, <4>8
      <4>. QED
        BY <4>6, <4>7, <4>8, <4>9 DEF DeviceAfter
    <3>. QED
      BY <3>2, <3>3
  <2>6. DevicesAfter(t)'
    BY <1>6, <2>5 DEF DevicesAfter
  <2>7. SpareDevices'
    <3>1. number_interfaces \in Nat
      BY <1>2, <1>5, CountType DEF DevicesAfter, UpToMax
    <3>2. ASSUME NEW d \in (number_interfaces + 1)..MAX_INTERFACES
          PROVE  if_devices'[d].type = "TYPE_UNKNOWN" /\ if_devices'[d].addr = NoAddress
      <4>1. d \in 1..MAX_INTERFACES
        BY <1>5, <3>1
      <4>. QED
        BY <2>3, <4>1 DEF SpareDevices
    <3>. QED
      BY <3>2 DEF SpareDevices
  <2>. QED
    BY <1>1, <2>4, <2>6, <2>7
<1>10. t_idx = MAX_INTERFACES \/ t_idx < MAX_INTERFACES
  BY <1>4, <1>5 DEF UpToMax
<1>. QED
  BY <1>8, <1>9, <1>10

-----------------------------------------------------------------------------
(* Sources being read                                                      *)

Source == [opts : Seq(Option), pos : Nat]

\* No more files are open than may be, and no source is read beyond its end.
GoodStack(st) ==
  /\ Len(st) \in 1..(MaxOpen + 1)
  /\ \A j \in 1..Len(st) : st[j].pos \in 1..(Len(st[j].opts) + 1)

\* R[j] are the options still to come from the j outermost sources.
Remaining(R, st) ==
  /\ R \in [0..Len(st) -> Seq(Option)]
  /\ R[0] = << >>
  /\ \A j \in 1..Len(st) :
       R[j] = ToGo(st[j].opts, Contents[MaxOpen + 1 - j], st[j].pos) \o R[j - 1]

\* The number of sources.
LEMMA Depth ==
  ASSUME NEW st, GoodStack(st), NEW n, n = Len(st)
  PROVE  /\ n \in 1..(MaxOpen + 1) /\ n \in Nat /\ n \in 1..Len(st) /\ n - 1 \in 0..n
         /\ MaxOpen \in Nat
<1>1. n \in 1..(MaxOpen + 1) /\ MaxOpen \in Nat
  BY Limits DEF GoodStack
<1>. QED
  BY <1>1

\* The sources behind the option that is read.
Behind(st) == [st EXCEPT ![Len(st)].pos = @ + 1]

\* What remains, R, begins with what is inserted for the option that is read.
BeginsWith(R, st, os, p) ==
  LET n == Len(st)
  IN  /\ Behind(st) \in Seq(Source) /\ GoodStack(Behind(st)) /\ Len(Behind(st)) = n
      /\ \E Q : /\ Remaining(Q, Behind(st))
                /\ R[n] = Inserted(os[p], Contents[MaxOpen + 1 - n]) \o Q[n]

\* Behind an option the same remains without what is inserted for it.
LEMMA RemainingNext ==
  ASSUME NEW st \in Seq(Source), GoodStack(st), NEW R, Remaining(R, st),
         NEW os, os = st[Len(st)].opts, NEW p, p = st[Len(st)].pos, p <= Len(os)
  PROVE  BeginsWith(R, st, os, p)
<1>1. PICK n, u : n = Len(st) /\ u = Behind(st)
  OBVIOUS
<1>2. n \in 1..(MaxOpen + 1) /\ n \in Nat /\ n \in 1..Len(st) /\ MaxOpen \in Nat
  BY <1>1, Depth
<1>3. os \in Seq(Option) /\ p \in Nat /\ p \in 1..Len(os) /\ p \in 1..(Len(os) + 1)
      /\ p + 1 \in 1..(Len(os) + 1)
  <2>1. st[n] \in Source
    BY <1>2
  <2>2. os \in Seq(Option) /\ p \in Nat
    BY <1>1, <2>1 DEF Source
  <2>3. p \in 1..(Len(os) + 1) /\ p <= Len(os)
    BY <1>1, <1>2 DEF GoodStack
  <2>. QED
    BY <2>2, <2>3
<1>4. /\ u \in Seq(Source) /\ Len(u) = n
      /\ u[n].opts = os /\ u[n].pos = p + 1
      /\ \A j \in 1..n : j # n => u[j] = st[j]
  <2>1. [st[n] EXCEPT !.pos = p + 1] \in Source
    <3>1. st[n] \in Source /\ p + 1 \in Nat
      BY <1>2, <1>3
    <3>. QED
      BY <3>1 DEF Source
  <2>2. u = [st EXCEPT ![n] = [st[n] EXCEPT !.pos = p + 1]]
    BY <1>1, <1>2 DEF Behind
  <2>3. st[n] \in Source
    BY <1>2
  <2>4. u[n] = [st[n] EXCEPT !.pos = p + 1]
    BY <1>2, <2>2
  <2>5. u[n].opts = os /\ u[n].pos = p + 1
    BY <1>1, <2>3, <2>4 DEF Source
  <2>6. u \in Seq(Source) /\ Len(u) = n /\ \A j \in 1..n : j # n => u[j] = st[j]
    BY <1>1, <1>2, <2>1, <2>2
  <2>. QED
    BY <2>5, <2>6
<1>5. GoodStack(u)
  BY <1>1, <1>2, <1>3, <1>4 DEF GoodStack
<1>6. PICK T : T = Contents[MaxOpen + 1 - n]
  OBVIOUS
<1>7. T \in Tables
  <2>1. MaxOpen + 1 - n \in 0..MaxOpen
    BY <1>2
  <2>. QED
    BY <1>6, <2>1, ContentsDef
<1>8. /\ ToGo(os, T, p + 1) \in Seq(Option)
      /\ ToGo(os, T, p) = Inserted(os[p], T) \o ToGo(os, T, p + 1)
  <2>1. p <= Len(os)
    BY <1>3
  <2>. QED
    BY <1>3, <1>7, <2>1, ToGoStep
<1>9. os[p] \in Option /\ Inserted(os[p], T) \in Seq(Option)
  BY <1>3, <1>7, InsertedType
<1>10. /\ R \in [0..n -> Seq(Option)] /\ R[0] = << >>
       /\ n - 1 \in 0..n /\ R[n - 1] \in Seq(Option)
       /\ R[n] = ToGo(os, T, p) \o R[n - 1]
       /\ \A j \in 1..n : R[j] = ToGo(st[j].opts, Contents[MaxOpen + 1 - j], st[j].pos) \o R[j - 1]
  <2>1. n - 1 \in 0..n
    BY <1>2
  <2>. QED
    BY <1>1, <1>2, <1>6, <2>1 DEF Remaining
<1>11. PICK x : x = ToGo(os, T, p + 1) \o R[n - 1]
  OBVIOUS
<1>12. x \in Seq(Option)
  <2>1. ToGo(os, T, p + 1) \in Seq(Option) /\ R[n - 1] \in Seq(Option)
    BY <1>8, <1>10
  <2>. QED
    BY <1>11, <2>1, ConcatProperties
<1>13. PICK Q : Q = [R EXCEPT ![n] = x]
  OBVIOUS
<1>14. /\ Q \in [0..n -> Seq(Option)] /\ Q[0] = << >> /\ Q[n] = x
       /\ \A j \in 0..n : j # n => Q[j] = R[j]
  <2>1. 0 \in 0..n /\ n \in 0..n /\ 0 # n
    BY <1>2
  <2>. QED
    BY <1>10, <1>12, <1>13, <2>1
<1>15. ASSUME NEW j \in 1..n
       PROVE  Q[j] = ToGo(u[j].opts, Contents[MaxOpen + 1 - j], u[j].pos) \o Q[j - 1]
  <2>1. j - 1 \in 0..n /\ j - 1 # n /\ j \in 0..n
    BY <1>2
  <2>2. Q[j - 1] = R[j - 1]
    BY <1>14, <2>1
  <2>3. CASE j = n
    BY <1>4, <1>6, <1>11, <1>14, <2>2, <2>3
  <2>4. CASE j # n
    BY <1>4, <1>10, <1>14, <2>1, <2>2, <2>4
  <2>. QED
    BY <2>3, <2>4
<1>16. Remaining(Q, u)
  BY <1>4, <1>14, <1>15 DEF Remaining
<1>17. R[n] = Inserted(os[p], T) \o Q[n]
  <2>1. PICK a, b, c \in Seq(Option) :
          a = Inserted(os[p], T) /\ b = ToGo(os, T, p + 1) /\ c = R[n - 1]
    BY <1>8, <1>9, <1>10
  <2>2. (a \o b) \o c = a \o (b \o c)
    OBVIOUS
  <2>. QED
    BY <1>8, <1>10, <1>11, <1>14, <2>1, <2>2
<1>. QED
  BY <1>1, <1>4, <1>5, <1>6, <1>16, <1>17 DEF BeginsWith

\* The sources with the file w opened, and what then remains.
WithFile(st, w) == Append(st, [opts |-> Files[w], pos |-> 1])
PutBefore(R, st, w) ==
  LET n == Len(st)
      u == WithFile(st, w)
  IN  /\ u \in Seq(Source) /\ GoodStack(u) /\ Len(u) = n + 1
      /\ w \in DOMAIN Contents[MaxOpen + 1 - n]
      /\ \E Q : Remaining(Q, u) /\ Q[n + 1] = Contents[MaxOpen + 1 - n][w] \o R[n]

\* A file that is opened puts its contents before what remains.
LEMMA RemainingOpen ==
  ASSUME NEW st \in Seq(Source), GoodStack(st), NEW R, Remaining(R, st),
         Len(st) <= MaxOpen, NEW w \in DOMAIN Files
  PROVE  PutBefore(R, st, w)
<1>0. PICK n, u : n = Len(st) /\ u = Append(st, [opts |-> Files[w], pos |-> 1])
  OBVIOUS
<1>1. n \in 1..(MaxOpen + 1) /\ n \in Nat /\ MaxOpen \in Nat /\ Files[w] \in Seq(Option)
  BY <1>0, Depth, Limits
<1>2. PICK e : e = [opts |-> Files[w], pos |-> 1]
  OBVIOUS
<1>3. e \in Source /\ e.opts = Files[w] /\ e.pos = 1
  BY <1>1, <1>2 DEF Source
<1>4. u \in Seq(Source) /\ Len(u) = n + 1 /\ u[n + 1] = e /\ \A j \in 1..n : u[j] = st[j]
  BY <1>0, <1>2, <1>3
<1>5. GoodStack(u)
  <2>1. n + 1 \in 1..(MaxOpen + 1)
    BY <1>0, <1>1
  <2>2. ASSUME NEW j \in 1..(n + 1) PROVE u[j].pos \in 1..(Len(u[j].opts) + 1)
    <3>1. CASE j = n + 1
      BY <1>1, <1>3, <1>4, <3>1
    <3>2. CASE j # n + 1
      <4>1. j \in 1..n
        BY <1>1, <3>2
      <4>. QED
        BY <1>0, <1>4, <4>1 DEF GoodStack
    <3>. QED
      BY <3>1, <3>2
  <2>. QED
    BY <1>4, <2>1, <2>2 DEF GoodStack
<1>6. PICK T, T1 : T = Contents[MaxOpen + 1 - n] /\ T1 = Contents[MaxOpen + 1 - (n + 1)]
  OBVIOUS
<1>7. T1 \in Tables /\ T = [f \in DOMAIN Files |-> WrittenOut(Files[f], T1)]
  <2>1. PICK m : m = MaxOpen + 1 - n
    OBVIOUS
  <2>2. m \in 1..MaxOpen /\ MaxOpen + 1 - (n + 1) = m - 1 /\ m - 1 \in 0..MaxOpen
    BY <1>0, <1>1, <2>1
  <2>. QED
    BY <1>6, <2>1, <2>2, ContentsDef
<1>8. w \in DOMAIN T /\ T[w] = ToGo(Files[w], T1, 1) /\ T[w] \in Seq(Option)
  <2>1. T[w] = WrittenOut(Files[w], T1) /\ w \in DOMAIN T
    BY <1>7
  <2>2. 1 \in 1..(Len(Files[w]) + 1)
    BY <1>1
  <2>3. ToGo(Files[w], T1, 1) = WrittenOut(Files[w], T1) /\ ToGo(Files[w], T1, 1) \in Seq(Option)
    BY <1>1, <1>7, <2>2, ToGoStep
  <2>. QED
    BY <2>1, <2>3
<1>9. /\ R \in [0..n -> Seq(Option)] /\ R[0] = << >>
      /\ \A j \in 1..n : R[j] = ToGo(st[j].opts, Contents[MaxOpen + 1 - j], st[j].pos) \o R[j - 1]
  BY <1>0 DEF Remaining
<1>10. PICK x : x = T[w] \o R[n]
  OBVIOUS
<1>11. n \in 0..n /\ R[n] \in Seq(Option) /\ x \in Seq(Option)
  <2>1. n \in 0..n
    BY <1>1
  <2>2. R[n] \in Seq(Option)
    BY <1>9, <2>1
  <2>. QED
    BY <1>8, <1>10, <2>1, <2>2
<1>12. PICK Q : Q = [j \in 0..(n + 1) |-> IF j <= n THEN R[j] ELSE x]
  OBVIOUS
<1>13. /\ Q \in [0..(n + 1) -> Seq(Option)] /\ Q[0] = << >> /\ Q[n + 1] = x
       /\ \A j \in 0..n : Q[j] = R[j]
  BY <1>1, <1>9, <1>11, <1>12
<1>14. ASSUME NEW j \in 1..(n + 1)
       PROVE  Q[j] = ToGo(u[j].opts, Contents[MaxOpen + 1 - j], u[j].pos) \o Q[j - 1]
  <2>1. CASE j = n + 1
    <3>1. j - 1 = n
      BY <1>1, <2>1
    <3>. QED
      BY <1>3, <1>4, <1>6, <1>8, <1>10, <1>11, <1>13, <2>1, <3>1
  <2>2. CASE j # n + 1
    <3>1. j \in 1..n /\ j \in 0..n /\ j - 1 \in 0..n
      BY <1>1, <2>2
    <3>. QED
      BY <1>4, <1>9, <1>13, <3>1
  <2>. QED
    BY <2>1, <2>2
<1>15. Remaining(Q, u)
  BY <1>4, <1>13, <1>14 DEF Remaining
<1>. QED
  BY <1>0, <1>4, <1>5, <1>6, <1>8, <1>10, <1>13, <1>15 DEF PutBefore, WithFile

\* At its end nothing remains of the innermost source.
LEMMA RemainingEnd ==
  ASSUME NEW st \in Seq(Source), GoodStack(st), NEW R, Remaining(R, st),
         NEW n, n = Len(st), ~(st[n].pos <= Len(st[n].opts))
  PROVE  R[n] = R[n - 1] /\ n - 1 \in 0..n /\ n \in 1..(MaxOpen + 1)
<1>1. n \in 1..(MaxOpen + 1) /\ n \in Nat /\ n \in 1..Len(st) /\ MaxOpen \in Nat /\ n - 1 \in 0..n
  BY Depth
<1>2. PICK os, p, T : os = st[n].opts /\ p = st[n].pos /\ T = Contents[MaxOpen + 1 - n]
  OBVIOUS
<1>3. os \in Seq(Option) /\ p \in Nat /\ p \in 1..(Len(os) + 1) /\ ~(p <= Len(os))
  <2>1. st[n] \in Source
    BY <1>1
  <2>2. os \in Seq(Option) /\ p \in Nat
    BY <1>2, <2>1 DEF Source
  <2>3. p \in 1..(Len(os) + 1)
    BY <1>1, <1>2 DEF GoodStack
  <2>. QED
    BY <1>2, <2>2, <2>3
<1>4. p = Len(os) + 1
  BY <1>3
<1>5. T \in Tables
  <2>1. MaxOpen + 1 - n \in 0..MaxOpen
    BY <1>1
  <2>. QED
    BY <1>2, <2>1, ContentsDef
<1>6. ToGo(os, T, p) = << >>
  BY <1>3, <1>4, <1>5, ToGoStep
<1>7. R[n] = << >> \o R[n - 1] /\ R[n - 1] \in Seq(Option)
  BY <1>1, <1>2, <1>6 DEF Remaining
<1>8. << >> \o R[n - 1] = R[n - 1]
  BY <1>7, ConcatEmptySeq
<1>. QED
  BY <1>1, <1>7, <1>8

\* What remains once the innermost source is closed.
LeftBehind(R, st) ==
  LET n == Len(st)
      u == Front(st)
  IN  /\ u \in Seq(Source) /\ GoodStack(u) /\ Len(u) = n - 1
      /\ \E Q : Remaining(Q, u) /\ Q[n - 1] = R[n - 1]

\* Closing it leaves what remains of the others.
LEMMA RemainingClose ==
  ASSUME NEW st \in Seq(Source), GoodStack(st), NEW R, Remaining(R, st), Len(st) > 1
  PROVE  LeftBehind(R, st)
<1>0. PICK n, u : n = Len(st) /\ u = Front(st)
  OBVIOUS
<1>1. n \in 1..(MaxOpen + 1) /\ n \in Nat /\ MaxOpen \in Nat /\ n > 1
  BY <1>0, Depth
<1>2. u = SubSeq(st, 1, n - 1)
  BY <1>0 DEF Front
<1>3. u \in Seq(Source) /\ Len(u) = n - 1 /\ \A j \in 1..(n - 1) : u[j] = st[j]
  BY <1>0, <1>1, <1>2
<1>4. n - 1 \in 1..(MaxOpen + 1) /\ \A j \in 1..(n - 1) : j \in 1..n
  BY <1>1
<1>5. GoodStack(u)
  BY <1>0, <1>3, <1>4 DEF GoodStack
<1>6. PICK Q : Q = [j \in 0..(n - 1) |-> R[j]]
  OBVIOUS
<1>7. \A j \in 0..(n - 1) : j \in 0..n /\ Q[j] = R[j]
  BY <1>1, <1>6
<1>8. /\ R \in [0..n -> Seq(Option)] /\ R[0] = << >>
      /\ \A j \in 1..n : R[j] = ToGo(st[j].opts, Contents[MaxOpen + 1 - j], st[j].pos) \o R[j - 1]
  BY <1>0 DEF Remaining
<1>9. Q \in [0..(n - 1) -> Seq(Option)] /\ Q[0] = << >> /\ Q[n - 1] = R[n - 1]
  <2>1. 0 \in 0..(n - 1) /\ n - 1 \in 0..(n - 1)
    BY <1>1
  <2>. QED
    BY <1>6, <1>7, <1>8, <2>1
<1>10. ASSUME NEW j \in 1..(n - 1)
       PROVE  Q[j] = ToGo(u[j].opts, Contents[MaxOpen + 1 - j], u[j].pos) \o Q[j - 1]
  <2>1. j \in 1..n /\ j \in 0..(n - 1) /\ j - 1 \in 0..(n - 1)
    BY <1>1
  <2>. QED
    BY <1>3, <1>7, <1>8, <2>1
<1>11. Remaining(Q, u)
  BY <1>3, <1>9, <1>10 DEF Remaining
<1>. QED
  BY <1>0, <1>3, <1>5, <1>9, <1>11 DEF LeftBehind

-----------------------------------------------------------------------------
(* The opt_* functions                                                     *)

\* log has the fields of logger_init.
LogTypes ==
  /\ log = [level |-> log.level, include |-> log.include, exclude |-> log.exclude,
            verbosity |-> log.verbosity, filter |-> log.filter]
  /\ log.level \in 0..LOG_N_LEVELS /\ log.verbosity \in 0..255

\* Types of what the options set.
OptTypes ==
  /\ value \in [Fields -> Int]
  /\ range \in Range32
  /\ templateID \in Templates /\ t_idx \in 0..MAX_INTERFACES
  /\ number_interfaces \in 0..MAX_INTERFACES
  /\ if_devices \in [1..MAX_INTERFACES -> Device]
  /\ hashAsPacketID \in BOOLEAN
  /\ LogTypes

\* An option that assigns nothing and leaves the fields alone.
LEMMA FieldsKept ==
  ASSUME NEW CONSTANT s \in Seq(Option), NEW CONSTANT o \in Option,
         FieldsAfter(s), status = "parsing", value' = value,
         o.opt \notin Numbers \cup {"4", "6", "u", "l", "L"}
  PROVE  FieldsAfter(Append(s, o))'
<1>1. DOMAIN Assignments(o) = {}
  BY AssignedType
<1>2. \A k \in Fields : value'[k] = IF k \in DOMAIN Assignments(o) THEN Assignments(o)[k]
                                    ELSE value[k]
  BY <1>1
<1>. QED
  BY <1>2, FieldsStep

\* The assigning options.
LEMMA AssignStep ==
  ASSUME OptTypes, status = "parsing", NEW CONSTANT s \in Seq(Option), NEW CONSTANT o \in Option,
         Processed(s), opt_assign(o)
  PROVE  OptTypes' /\ Processed(Append(s, o))' /\ number_interfaces' = number_interfaces
<1>1. /\ value' = [k \in Fields |-> IF k \in DOMAIN Assignments(o) THEN Assignments(o)[k]
                                    ELSE value[k]]
      /\ hashAsPacketID' = (hashAsPacketID /\ o.opt # "p")
      /\ UNCHANGED <<range, templateID, t_idx, if_devices, number_interfaces, log, opened>>
      /\ o.opt \in (Fields \cap Letters) \cup {"4", "6", "l", "L", "n", "y"}
  BY DEF opt_assign, Proceed, mainVars
<1>2. o.opt \notin {"m", "M", "r", "i", "t", "v"}
  BY <1>1 DEF Fields
<1>3. FieldsAfter(Append(s, o))'
  BY <1>1, FieldsStep DEF Processed
<1>4. RangeAfter(Append(s, o))'
  BY <1>1, <1>2, RangeKept DEF Processed
<1>5. /\ DevicesAfter(Append(s, o))' /\ SpareDevices'
      /\ t_idx' = UpToMax(Count(Append(s, o), "t", Len(Append(s, o))))
  BY <1>1, <1>2, DevicesKept DEF Processed
<1>6. value' \in [Fields -> Int]
  BY <1>1, AssignedType DEF OptTypes
<1>7. hashAsPacketID' \in BOOLEAN
  BY <1>1 DEF OptTypes
<1>8. OptTypes'
  BY <1>1, <1>6, <1>7 DEF OptTypes, LogTypes
<1>9. LogAfter(Append(s, o))'
  BY <1>1, <1>2, LogKept DEF Processed
<1>. QED
  BY <1>1, <1>3, <1>4, <1>5, <1>8, <1>9 DEF Processed

\* -m, -M and -r.
LEMMA RangeOptionStep ==
  ASSUME OptTypes, status = "parsing", NEW CONSTANT s \in Seq(Option), NEW CONSTANT o \in Option,
         Processed(s), opt_range(o)
  PROVE  OptTypes' /\ Processed(Append(s, o))' /\ number_interfaces' = number_interfaces
<1>1. /\ \/ o.opt = "m" /\ range' = set_sampling_lowerbound(range, o.num[1])
         \/ o.opt = "M" /\ range' = set_sampling_upperbound(range, o.num[1])
         \/ o.opt = "r" /\ range' = set_sampling_ratio(o.num[1])
      /\ UNCHANGED <<value, templateID, t_idx, if_devices, number_interfaces, hashAsPacketID,
                     log, opened>>
  BY DEF opt_range, Proceed, mainVars
<1>2. o.opt \in {"m", "M", "r"}
  BY <1>1
<1>3. o.opt \notin Numbers \cup {"4", "6", "u", "l", "L"} /\ o.opt \notin {"i", "t"}
  BY <1>2 DEF Numbers, Fields
<1>4. FieldsAfter(Append(s, o))'
  BY <1>1, <1>3, FieldsKept DEF Processed
<1>5. range' \in Range32 /\ RangeAfter(Append(s, o))'
  BY <1>1, RangeStep DEF Processed, OptTypes
<1>6. /\ DevicesAfter(Append(s, o))' /\ SpareDevices'
      /\ t_idx' = UpToMax(Count(Append(s, o), "t", Len(Append(s, o))))
  BY <1>1, <1>3, DevicesKept DEF Processed
<1>7. OptTypes'
  BY <1>1, <1>5 DEF OptTypes, LogTypes
<1>8. LogAfter(Append(s, o))'
  BY <1>1, <1>2, LogKept DEF Processed
<1>. QED
  BY <1>1, <1>4, <1>5, <1>6, <1>7, <1>8 DEF Processed

\* Options without effect.
LEMMA IgnoredStep ==
  ASSUME OptTypes, status = "parsing", NEW CONSTANT s \in Seq(Option), NEW CONSTANT o \in Option,
         Processed(s), o.opt \in NoKey \cup {"unknown"}, UNCHANGED <<optVars, opened>>
  PROVE  OptTypes' /\ Processed(Append(s, o))' /\ number_interfaces' = number_interfaces
<1>1. UNCHANGED <<value, range, templateID, t_idx, if_devices, number_interfaces, hashAsPacketID,
                  log, opened>>
  BY DEF optVars
<1>2. /\ o.opt \notin Numbers \cup {"4", "6", "u", "l", "L"}
      /\ o.opt \notin {"m", "M", "r"} /\ o.opt \notin {"i", "t", "v"}
  BY DEF Numbers, Fields, NoKey
<1>3. FieldsAfter(Append(s, o))'
  BY <1>1, <1>2, FieldsKept DEF Processed
<1>4. RangeAfter(Append(s, o))'
  BY <1>1, <1>2, RangeKept DEF Processed
<1>5. /\ DevicesAfter(Append(s, o))' /\ SpareDevices'
      /\ t_idx' = UpToMax(Count(Append(s, o), "t", Len(Append(s, o))))
  BY <1>1, <1>2, DevicesKept DEF Processed
<1>6. OptTypes'
  BY <1>1 DEF OptTypes, LogTypes
<1>7. LogAfter(Append(s, o))'
  BY <1>1, <1>2, LogKept DEF Processed
<1>. QED
  BY <1>1, <1>3, <1>4, <1>5, <1>6, <1>7 DEF Processed

\* -v changes the log only, keeps its form and adds what it asks for.
LEMMA VStep ==
  ASSUME OptTypes, status = "parsing", NEW CONSTANT s \in Seq(Option), NEW CONSTANT o \in Option,
         Processed(s), opt_v(o)
  PROVE  OptTypes' /\ Processed(Append(s, o))' /\ number_interfaces' = number_interfaces
<1>1. /\ o.opt = "v"
      /\ UNCHANGED <<value, range, templateID, t_idx, if_devices, number_interfaces,
                     hashAsPacketID, opened>>
  BY DEF opt_v, Proceed, mainVars
<1>2. /\ o.opt \notin Numbers \cup {"4", "6", "u", "l", "L"}
      /\ o.opt \notin {"m", "M", "r"} /\ o.opt \notin {"i", "t"}
  BY <1>1 DEF Numbers, Fields
<1>3. FieldsAfter(Append(s, o))'
  BY <1>1, <1>2, FieldsKept DEF Processed
<1>4. RangeAfter(Append(s, o))'
  BY <1>1, <1>2, RangeKept DEF Processed
<1>5. /\ DevicesAfter(Append(s, o))' /\ SpareDevices'
      /\ t_idx' = UpToMax(Count(Append(s, o), "t", Len(Append(s, o))))
  BY <1>1, <1>2, DevicesKept DEF Processed
<1>6. LogTypes' /\ LogAfter(Append(s, o))'
  <2>1. /\ Expressions[o.word].v \in Nat /\ Expressions[o.word].tokens \in Seq(Token)
        /\ o.num # << >> => o.num[1] \in Nat /\ o.word = ""
        /\ Expressions[""].tokens = << >>
    BY <1>1, VerboseParts
  <2>. DEFINE B == IF o.num # << >> THEN o.num[1] ELSE log.verbosity + 1 + Expressions[o.word].v
              V == B % 256
              F == IF o.num # << >> \/ (o.word = "" /\ ~InFile) THEN log.filter
                   ELSE Expressions[o.word].tokens
  <2>2. log' = logger_set_filter([log EXCEPT !.verbosity = V, !.level = logger_set_level(V),
                                             !.filter = F])
    BY DEF opt_v
  <2>3. PICK b, v, f : b = B /\ v = V /\ f = F
    OBVIOUS
  <2>4. v = b % 256
    BY <2>3
  <2>5. b \in Nat
    <3>1. PICK x, y : x = log.verbosity /\ y = Expressions[o.word].v
      OBVIOUS
    <3>2. x \in 0..255
      BY <3>1 DEF OptTypes, LogTypes
    <3>3. y \in Nat
      BY <2>1, <3>1
    <3>4. x + 1 + y \in Nat
      BY <3>2, <3>3
    <3>. QED
      BY <2>1, <2>3, <3>1, <3>4
  <2>6. LogAfter(s) /\ log.filter \in Seq(Token)
    BY DEF Processed, LogAfter
  <2>7. /\ f \in Seq(Token)
        /\ \/ f = Expressions[o.word].tokens
           \/ f = log.filter /\ Expressions[o.word].tokens = << >>
    BY <2>1, <2>3, <2>6
  <2>. HIDE DEF B, V, F
  <2>8. PICK l : l = logger_set_level(v)
    OBVIOUS
  <2>9. v \in 0..255 /\ l \in 0..LOG_N_LEVELS
    BY <2>4, <2>5, <2>8 DEF logger_set_level, LOG_N_LEVELS
  <2>10. PICK inc, exc, g : /\ inc = Texts(ToSet(f), FALSE) /\ exc = Texts(ToSet(f), TRUE)
                            /\ g = IF f = << >> THEN f ELSE <<Head(f)>>
    OBVIOUS
  <2>11. PICK a1, a2, a3, a4, a5 :
           /\ log = [level |-> a1, include |-> a2, exclude |-> a3, verbosity |-> a4, filter |-> a5]
           /\ log.include = a2 /\ log.exclude = a3
    BY DEF OptTypes, LogTypes
  <2>12. PICK m : m = [log EXCEPT !.verbosity = v, !.level = l, !.filter = f]
    OBVIOUS
  <2>13. m = [level |-> l, include |-> a2, exclude |-> a3, verbosity |-> v, filter |-> f]
    BY <2>11, <2>12
  <2>14. log' = [m EXCEPT !.include = @ \cup Texts(ToSet(m.filter), FALSE),
                          !.exclude = @ \cup Texts(ToSet(m.filter), TRUE),
                          !.filter  = IF @ = << >> THEN @ ELSE <<Head(@)>>]
    <3>1. log' = logger_set_filter(m)
      BY <2>2, <2>3, <2>8, <2>12
    <3>. QED
      BY <3>1 DEF logger_set_filter
  <2>15. m.filter = f /\ m.include = a2 /\ m.exclude = a3
    BY <2>13
  <2>16. log' = [m EXCEPT !.include = a2 \cup inc, !.exclude = a3 \cup exc, !.filter = g]
    BY <2>10, <2>14, <2>15
  <2>17. log' = [level |-> l, include |-> a2 \cup inc, exclude |-> a3 \cup exc,
                 verbosity |-> v, filter |-> g]
    BY <2>13, <2>16
  <2>18. LogTypes'
    BY <2>9, <2>17 DEF LogTypes
  <2>19. log' = [level |-> logger_set_level(v),
                 include |-> log.include \cup Texts(ToSet(f), FALSE),
                 exclude |-> log.exclude \cup Texts(ToSet(f), TRUE),
                 verbosity |-> v, filter |-> g]
    BY <2>8, <2>10, <2>11, <2>17
  <2>20. SetsLog(o, b, v, f, g)
    <3>1. b = IF o.num # << >> THEN o.num[1] ELSE log.verbosity + 1 + Expressions[o.word].v
      BY <2>3 DEF B
    <3>. QED
      BY <1>1, <2>4, <2>7, <2>10, <2>19, <3>1 DEF SetsLog
  <2>21. LogAfter(Append(s, o))'
    BY <2>6, <2>20, LogV
  <2>. QED
    BY <2>18, <2>21
<1>7. OptTypes'
  BY <1>1, <1>6 DEF OptTypes
<1>. QED
  BY <1>1, <1>3, <1>4, <1>5, <1>6, <1>7 DEF Processed

\* The type of a device's prefix is one of those listed.
LEMMA DeviceTypeType ==
  ASSUME NEW w, NEW old \in DeviceTypes
  PROVE  DeviceType(w, old) \in DeviceTypes
BY DEF DeviceType, DeviceTypes

\* -i.
LEMMA IStep ==
  ASSUME OptTypes, status = "parsing", NEW CONSTANT s \in Seq(Option), NEW CONSTANT o \in Option,
         Processed(s), opt_i(o)
  PROVE  /\ OptTypes' /\ Processed(Append(s, o))'
         /\ number_interfaces' \in {number_interfaces, number_interfaces + 1}
<1>1. /\ o.opt = "i"
      /\ \/ /\ number_interfaces = MAX_INTERFACES
            /\ UNCHANGED <<if_devices, number_interfaces>>
         \/ /\ number_interfaces < MAX_INTERFACES
            /\ number_interfaces' = number_interfaces + 1
            /\ if_devices' = [if_devices EXCEPT ![number_interfaces + 1] =
                                [type |-> DeviceType(o.word, @.type),
                                 size |-> value["N"], template |-> Unset, addr |-> @.addr]]
      /\ UNCHANGED <<value, range, templateID, t_idx, hashAsPacketID, log, opened>>
  BY DEF opt_i, Proceed, mainVars
<1>2. o.opt \notin Numbers \cup {"4", "6", "u", "l", "L"} /\ o.opt \notin {"m", "M", "r"}
  BY <1>1 DEF Numbers, Fields
<1>3. FieldsAfter(Append(s, o))'
  BY <1>1, <1>2, FieldsKept DEF Processed
<1>4. RangeAfter(Append(s, o))'
  BY <1>1, <1>2, RangeKept DEF Processed
<1>5. value["N"] = LastSet(s, "N") /\ value["N"] \in Int
  BY DEF Processed, FieldsAfter, Fields, OptTypes
<1>6. /\ DevicesAfter(Append(s, o))' /\ SpareDevices'
      /\ t_idx' = UpToMax(Count(Append(s, o), "t", Len(Append(s, o))))
  BY <1>1, <1>5, DevicesI DEF Processed, OptTypes
<1>7. /\ if_devices' \in [1..MAX_INTERFACES -> Device]
      /\ number_interfaces' \in 0..MAX_INTERFACES
      /\ number_interfaces' \in {number_interfaces, number_interfaces + 1}
  <2>1. /\ if_devices \in [1..MAX_INTERFACES -> Device] /\ number_interfaces \in 0..MAX_INTERFACES
        /\ MAX_INTERFACES \in Nat
    BY Limits DEF OptTypes
  <2>2. CASE UNCHANGED <<if_devices, number_interfaces>>
    BY <2>1, <2>2
  <2>3. CASE /\ number_interfaces < MAX_INTERFACES
             /\ number_interfaces' = number_interfaces + 1
             /\ if_devices' = [if_devices EXCEPT ![number_interfaces + 1] =
                                [type |-> DeviceType(o.word, @.type),
                                 size |-> value["N"], template |-> Unset, addr |-> @.addr]]
    <3>1. number_interfaces + 1 \in 1..MAX_INTERFACES
      BY <2>1, <2>3
    <3>2. PICK old : old = if_devices[number_interfaces + 1]
      OBVIOUS
    <3>3. old \in Device
      BY <2>1, <3>1, <3>2
    <3>4. PICK ty : ty = DeviceType(o.word, old.type)
      OBVIOUS
    <3>5. ty \in DeviceTypes
      BY <3>3, <3>4, DeviceTypeType DEF Device
    <3>6. [type |-> ty, size |-> value["N"], template |-> Unset, addr |-> old.addr] \in Device
      BY <1>5, <3>3, <3>5 DEF Device
    <3>7. if_devices' = [if_devices EXCEPT ![number_interfaces + 1] =
                           [type |-> ty, size |-> value["N"], template |-> Unset,
                            addr |-> old.addr]]
      BY <2>1, <2>3, <3>2, <3>4
    <3>8. if_devices' \in [1..MAX_INTERFACES -> Device]
      BY <2>1, <3>6, <3>7
    <3>. QED
      BY <2>1, <2>3, <3>8
  <2>. QED
    BY <1>1, <2>2, <2>3
<1>8. OptTypes'
  BY <1>1, <1>7 DEF OptTypes, LogTypes
<1>9. LogAfter(Append(s, o))'
  BY <1>1, LogKept DEF Processed
<1>. QED
  BY <1>3, <1>4, <1>6, <1>7, <1>8, <1>9 DEF Processed

\* -t.
LEMMA TStep ==
  ASSUME OptTypes, status = "parsing", NEW CONSTANT s \in Seq(Option), NEW CONSTANT o \in Option,
         Processed(s), opt_t(o)
  PROVE  OptTypes' /\ Processed(Append(s, o))' /\ number_interfaces' = number_interfaces
<1>1. /\ o.opt = "t"
      /\ templateID' = IF parse_template(o.word) = Unset THEN templateID ELSE parse_template(o.word)
      /\ \/ t_idx = MAX_INTERFACES /\ UNCHANGED <<t_idx, if_devices>>
         \/ /\ t_idx < MAX_INTERFACES
            /\ t_idx' = t_idx + 1
            /\ if_devices' = [if_devices EXCEPT ![t_idx + 1].template = parse_template(o.word)]
      /\ UNCHANGED <<value, range, number_interfaces, hashAsPacketID, log, opened>>
  BY DEF opt_t, Proceed, mainVars
<1>2. o.opt \notin Numbers \cup {"4", "6", "u", "l", "L"} /\ o.opt \notin {"m", "M", "r"}
  BY <1>1 DEF Numbers, Fields
<1>3. FieldsAfter(Append(s, o))'
  BY <1>1, <1>2, FieldsKept DEF Processed
<1>4. RangeAfter(Append(s, o))'
  BY <1>1, <1>2, RangeKept DEF Processed
<1>5. /\ DevicesAfter(Append(s, o))' /\ SpareDevices'
      /\ t_idx' = UpToMax(Count(Append(s, o), "t", Len(Append(s, o))))
  BY <1>1, DevicesT DEF Processed, OptTypes
<1>6. parse_template(o.word) \in Templates \cup {Unset}
  BY DEF parse_template
<1>7. templateID' \in Templates
  BY <1>1, <1>6 DEF OptTypes
<1>8. t_idx' \in 0..MAX_INTERFACES /\ if_devices' \in [1..MAX_INTERFACES -> Device]
  <2>1. /\ if_devices \in [1..MAX_INTERFACES -> Device] /\ t_idx \in 0..MAX_INTERFACES
        /\ MAX_INTERFACES \in Nat
    BY Limits DEF OptTypes
  <2>2. CASE t_idx < MAX_INTERFACES
    <3>1. t_idx + 1 \in 1..MAX_INTERFACES /\ t_idx # MAX_INTERFACES
      BY <2>1, <2>2
    <3>2. PICK old : old = if_devices[t_idx + 1]
      OBVIOUS
    <3>3. old \in Device
      BY <2>1, <3>1, <3>2
    <3>4. PICK new : new = [old EXCEPT !.template = parse_template(o.word)]
      OBVIOUS
    <3>5. new \in Device
      BY <1>6, <3>3, <3>4 DEF Device
    <3>6. if_devices' = [if_devices EXCEPT ![t_idx + 1] = new] /\ t_idx' = t_idx + 1
      BY <1>1, <2>1, <3>1, <3>2, <3>4
    <3>. QED
      BY <2>1, <3>1, <3>5, <3>6
  <2>3. CASE ~(t_idx < MAX_INTERFACES)
    BY <1>1, <2>1, <2>3
  <2>. QED
    BY <2>2, <2>3
<1>9. OptTypes'
  BY <1>1, <1>7, <1>8 DEF OptTypes, LogTypes
<1>10. LogAfter(Append(s, o))'
  BY <1>1, LogKept DEF Processed
<1>. QED
  BY <1>1, <1>3, <1>4, <1>5, <1>9, <1>10 DEF Processed

-----------------------------------------------------------------------------
(* The inductive invariant                                                 *)

\* While options are read, the state is what some options s ask for, and s and
\* what remains of the sources are the expanded command line.
ParsingInv ==
  status = "parsing" =>
    /\ opened = 0
    /\ \E s \in Seq(Option) : \E R :
         /\ Remaining(R, stack)
         /\ s \o R[Len(stack)] = Expand(cmdline)
         /\ Processed(s)

\* Afterwards it is what the whole expanded command line asks for.
ParsedInv == Parsed => \E e \in Seq(Option) : e = Expand(cmdline) /\ Processed(e)

OptionsInv == TypeOK /\ LogTypes /\ GoodStack(stack) /\ ParsingInv /\ ParsedInv

\* The types of the state that is not set by options.
LEMMA TypeParts ==
  TypeOK /\ LogTypes <=>
    /\ OptTypes
    /\ cmdline \in CommandLines
    /\ stack \in Seq(Source)
    /\ status \in {"parsing", "parsed", "opening", "opened", "ready", "crash",
                   "exit 0", "exit 1", "exit 2", "exit -1"}
    /\ opened \in 0..number_interfaces
    /\ probe_name \in {"none", "given", "hostname", "empty"}
BY DEF TypeOK, OptTypes, LogTypes, Source

\* What remains at the start is the expanded command line.
LEMMA RemainingInit ==
  ASSUME NEW c \in Seq(Option), NEW st, st = <<[opts |-> c, pos |-> 1]>>
  PROVE  /\ st \in Seq(Source) /\ GoodStack(st) /\ Len(st) = 1
         /\ \E R : Remaining(R, st) /\ R[1] = Expand(c) /\ R[1] \in Seq(Option)
<1>1. PICK e : e = [opts |-> c, pos |-> 1]
  OBVIOUS
<1>2. e \in Source /\ e.opts = c /\ e.pos = 1
  BY <1>1 DEF Source
<1>3. st \in Seq(Source) /\ Len(st) = 1 /\ st[1] = e
  BY <1>1, <1>2
<1>4. MaxOpen \in Nat /\ 1 \in 1..(MaxOpen + 1) /\ MaxOpen + 1 - 1 = MaxOpen /\ MaxOpen \in 0..MaxOpen
  BY Limits
<1>5. 1 \in 1..(Len(c) + 1)
  OBVIOUS
<1>6. GoodStack(st)
  BY <1>2, <1>3, <1>4, <1>5 DEF GoodStack
<1>7. PICK T : T = Contents[MaxOpen]
  OBVIOUS
<1>8. T \in Tables
  BY <1>4, <1>7, ContentsDef
<1>9. ToGo(c, T, 1) = Expand(c) /\ ToGo(c, T, 1) \in Seq(Option)
  BY <1>5, <1>7, <1>8, ToGoStep DEF Expand
<1>10. ToGo(c, T, 1) \o << >> = ToGo(c, T, 1) /\ << >> \in Seq(Option)
  BY <1>9, ConcatEmptySeq, EmptySeq
<1>11. PICK R : R = [j \in 0..1 |-> IF j = 0 THEN << >> ELSE ToGo(c, T, 1)]
  OBVIOUS
<1>12. R \in [0..1 -> Seq(Option)] /\ R[0] = << >> /\ R[1] = ToGo(c, T, 1)
  BY <1>9, <1>10, <1>11
<1>13. ASSUME NEW j \in 1..1
       PROVE  R[j] = ToGo(st[j].opts, Contents[MaxOpen + 1 - j], st[j].pos) \o R[j - 1]
  <2>1. j = 1 /\ j - 1 = 0
    OBVIOUS
  <2>. QED
    BY <1>2, <1>3, <1>4, <1>7, <1>10, <1>12, <2>1
<1>14. Remaining(R, st)
  BY <1>3, <1>12, <1>13 DEF Remaining
<1>. QED
  BY <1>3, <1>6, <1>9, <1>12, <1>14

\* The defaults are numbers.
LEMMA DefaultsType == set_defaults_options \in [Fields -> Int]
BY DEF set_defaults_options

\* The initial state is what no option asks for.
LEMMA OptionsInit == Init => OptionsInv
<1>. SUFFICES ASSUME Init PROVE OptionsInv
  OBVIOUS
<1>1. /\ cmdline \in CommandLines /\ stack = <<[opts |-> cmdline, pos |-> 1]>>
      /\ status = "parsing" /\ value = set_defaults_options /\ range = DefaultRange(DEFAULT_MAX)
      /\ templateID = "min" /\ t_idx = 0 /\ number_interfaces = 0
      /\ if_devices = [i \in 1..MAX_INTERFACES |-> NoDevice]
      /\ hashAsPacketID = TRUE /\ log = logger_init
      /\ opened = 0 /\ probe_name = "none"
  BY DEF Init
<1>2. cmdline \in Seq(Option)
  <2>1. CommandLines \subseteq Seq(Option)
    BY OptionsAssumption, Zenon
  <2>. QED
    BY <1>1, <2>1
<1>3. MAX_INTERFACES \in Nat
  BY Limits
<1>4. range \in Range32 /\ range.min <= range.max
  <2>1. DEFAULT_MAX \in RANGE_MIN..UINT32_MAX
    BY OptionsAssumption, Zenon
  <2>. QED
    BY <1>1, <2>1, SelectionAssumption DEF DefaultRange, Range32, UInt32
<1>5. OptTypes
  <2>1. NoDevice \in Device
    BY DEF NoDevice, Device, DeviceTypes
  <2>2. LogTypes
    BY <1>1 DEF LogTypes, logger_init, LOGGER_LEVEL_WARN, LOG_N_LEVELS
  <2>3. if_devices \in [1..MAX_INTERFACES -> Device]
    BY <1>1, <2>1
  <2>. QED
    BY <1>1, <1>3, <1>4, <2>2, <2>3, DefaultsType DEF OptTypes, Templates
<1>6. stack \in Seq(Source) /\ GoodStack(stack) /\ Len(stack) = 1
  BY <1>1, <1>2, RemainingInit
<1>7. PICK R : Remaining(R, stack) /\ R[1] = Expand(cmdline) /\ R[1] \in Seq(Option)
  BY <1>1, <1>2, RemainingInit
<1>8. << >> \o R[1] = Expand(cmdline) /\ << >> \in Seq(Option)
  BY <1>7, ConcatEmptySeq, EmptySeq
<1>9. PICK e : e = << >>
  OBVIOUS
<1>10. e \in Seq(Option) /\ DOMAIN e = {} /\ Len(e) = 0
  BY <1>9
<1>11. FieldsAfter(e)
  BY <1>1, <1>10 DEF FieldsAfter, LastSet
<1>12. RangeAfter(e)
  BY <1>4, <1>10 DEF RangeAfter
<1>13. Count(e, "i", Len(e)) = 0 /\ Count(e, "t", Len(e)) = 0
  BY <1>10, CountType
<1>14. UpToMax(0) = 0
  BY <1>3 DEF UpToMax
<1>15. DevicesAfter(e)
  BY <1>1, <1>10, <1>13, <1>14 DEF DevicesAfter
<1>16. SpareDevices
  BY <1>1 DEF SpareDevices, NoDevice
<1>17. Processed(e)
  <2>1. LogAfter(e)
    BY <1>1, <1>9, LogInit
  <2>. QED
    BY <1>1, <1>11, <1>12, <1>13, <1>14, <1>15, <1>16, <2>1 DEF Processed
<1>18. ParsingInv
  <2>1. e \o R[Len(stack)] = Expand(cmdline)
    BY <1>6, <1>8, <1>9
  <2>. QED
    BY <1>1, <1>7, <1>10, <1>17, <2>1 DEF ParsingInv
<1>19. ParsedInv
  BY <1>1 DEF ParsedInv, Parsed
<1>20. TypeOK /\ LogTypes
  <2>1. opened \in 0..number_interfaces
    BY <1>1
  <2>. QED
    BY <1>1, <1>5, <1>6, <2>1, TypeParts
<1>. QED
  BY <1>6, <1>18, <1>19, <1>20 DEF OptionsInv

\* Which opt_* function is called for the option read: in a file, one without a
\* key is unknown.
LEMMA OptionCases ==
  ASSUME NEW CONSTANT o \in Option, o = Top.opts[Top.pos], ProcessOption
  PROVE  \/ opt_assign(o) \/ opt_range(o) \/ opt_v(o) \/ opt_i(o) \/ opt_t(o) \/ opt_c(o)
         \/ Proceed /\ UNCHANGED optVars /\ o.opt \in NoKey \cup {"unknown"}
         \/ \E code \in {"exit 0", "exit 1", "exit -1"} : Exit(code)
<1>1. CASE ~(InFile /\ o.opt \in NoKey)
  <2>1. Current = o
    BY <1>1 DEF Current
  <2>2. \/ opt_assign(o) \/ opt_range(o) \/ opt_v(o) \/ opt_i(o) \/ opt_t(o) \/ opt_c(o)
        \/ opt_unknown_parameter(o) \/ opt_exit(o)
    BY <2>1 DEF ProcessOption
  <2>3. ASSUME opt_unknown_parameter(o)
        PROVE  (Proceed /\ UNCHANGED optVars /\ o.opt = "unknown") \/ Exit("exit -1")
    BY <2>3 DEF opt_unknown_parameter
  <2>4. ASSUME opt_exit(o) PROVE Exit("exit 0") \/ Exit("exit 1")
    BY <2>4 DEF opt_exit
  <2>. QED
    BY <2>2, <2>3, <2>4
<1>2. CASE InFile /\ o.opt \in NoKey
  <2>1. PICK c : c = [o EXCEPT !.opt = "unknown"]
    OBVIOUS
  <2>2. Current = c
    BY <1>2, <2>1 DEF Current
  <2>3. c.opt = "unknown"
    BY <2>1 DEF Option
  <2>4. \/ opt_assign(c) \/ opt_range(c) \/ opt_v(c) \/ opt_i(c) \/ opt_t(c) \/ opt_c(c)
        \/ opt_unknown_parameter(c) \/ opt_exit(c)
    BY <2>2 DEF ProcessOption
  <2>5. ~opt_assign(c) /\ ~opt_range(c)
    BY <2>3 DEF opt_assign, opt_range, Fields
  <2>6. ~opt_v(c) /\ ~opt_i(c) /\ ~opt_t(c) /\ ~opt_c(c) /\ ~opt_exit(c)
    BY <2>3 DEF opt_v, opt_i, opt_t, opt_c, opt_exit
  <2>7. opt_unknown_parameter(c)
    BY <2>4, <2>5, <2>6
  <2>. QED
    BY <1>2, <2>7 DEF opt_unknown_parameter
<1>. QED
  BY <1>1, <1>2

\* The option read, where it comes from and what the sources are behind it.
LEMMA Reading ==
  ASSUME stack \in Seq(Source), GoodStack(stack), HasOption
  PROVE  /\ Top = stack[Len(stack)] /\ Top.pos <= Len(Top.opts) /\ Top.opts[Top.pos] \in Option
         /\ Advanced = Behind(stack)
         /\ status = "parsing"
<1>1. Len(stack) \in 1..Len(stack)
  BY Depth
<1>2. stack[Len(stack)] \in Source /\ Top = stack[Len(stack)]
  BY <1>1 DEF Top
<1>3. Top.opts \in Seq(Option) /\ Top.pos \in Nat /\ Top.pos <= Len(Top.opts) /\ status = "parsing"
  BY <1>2 DEF Source, HasOption
<1>4. Top.pos \in 1..(Len(Top.opts) + 1)
  BY <1>1, <1>2 DEF GoodStack
<1>5. PICK os, p : os = Top.opts /\ p = Top.pos
  OBVIOUS
<1>6. p \in 1..Len(os) /\ os \in Seq(Option)
  BY <1>3, <1>4, <1>5
<1>7. os[p] \in Option
  BY <1>6
<1>. QED
  BY <1>2, <1>3, <1>5, <1>7 DEF Advanced, Behind

\* Leaving the parser by an exit.
LEMMA ExitStep ==
  ASSUME OptionsInv, NEW code \in {"exit 0", "exit 1", "exit 2", "exit -1", "crash"}, Exit(code)
  PROVE  OptionsInv'
<1>1. /\ status' = code
      /\ UNCHANGED <<cmdline, stack, value, range, templateID, t_idx, if_devices,
                     number_interfaces, hashAsPacketID, log, opened, probe_name>>
  BY DEF Exit, optVars, mainVars
<1>2. TypeOK' /\ LogTypes'
  BY <1>1 DEF OptionsInv, TypeOK, LogTypes
<1>3. GoodStack(stack)'
  BY <1>1 DEF OptionsInv, GoodStack
<1>4. ParsingInv' /\ ParsedInv'
  BY <1>1 DEF ParsingInv, ParsedInv, Parsed
<1>. QED
  BY <1>2, <1>3, <1>4 DEF OptionsInv

\* An option other than -c: processed, and no longer to come.
LEMMA ProceedStep ==
  ASSUME OptionsInv, HasOption, NEW CONSTANT o \in Option, o = Top.opts[Top.pos], o.opt # "c",
         Proceed, OptTypes',
         number_interfaces' \in {number_interfaces, number_interfaces + 1},
         \A s \in Seq(Option) : Processed(s) => Processed(Append(s, o))'
  PROVE  OptionsInv'
<1>1. /\ stack' = Advanced /\ cmdline' = cmdline /\ status' = status /\ opened' = opened
      /\ probe_name' = probe_name
  BY DEF Proceed, mainVars
<1>2. /\ OptTypes /\ cmdline \in CommandLines /\ stack \in Seq(Source) /\ GoodStack(stack)
      /\ opened \in 0..number_interfaces /\ probe_name \in {"none", "given", "hostname", "empty"}
  BY TypeParts DEF OptionsInv
<1>3. /\ Top = stack[Len(stack)] /\ Top.pos <= Len(Top.opts)
      /\ stack' = Behind(stack) /\ status = "parsing"
  BY <1>1, <1>2, Reading
<1>4. opened = 0 /\ \E s \in Seq(Option) : \E R : /\ Remaining(R, stack)
                                                  /\ s \o R[Len(stack)] = Expand(cmdline)
                                                  /\ Processed(s)
  BY <1>3 DEF OptionsInv, ParsingInv
<1>5. PICK s \in Seq(Option) : \E R : /\ Remaining(R, stack)
                                      /\ s \o R[Len(stack)] = Expand(cmdline)
                                      /\ Processed(s)
  BY <1>4
<1>6. PICK R : Remaining(R, stack) /\ s \o R[Len(stack)] = Expand(cmdline) /\ Processed(s)
  BY <1>5
<1>7. PICK n, st, u : n = Len(stack) /\ st = stack /\ u = stack'
  OBVIOUS
<1>8. /\ u \in Seq(Source) /\ GoodStack(u) /\ Len(u) = n
      /\ \E Q : /\ Remaining(Q, u)
                /\ R[n] = Inserted(st[n].opts[st[n].pos], Contents[MaxOpen + 1 - n]) \o Q[n]
  <2>1. /\ st \in Seq(Source) /\ GoodStack(st) /\ Remaining(R, st) /\ n = Len(st)
        /\ st[n].pos <= Len(st[n].opts) /\ u = Behind(st)
    BY <1>2, <1>3, <1>6, <1>7
  <2>2. PICK os, p : os = st[n].opts /\ p = st[n].pos
    OBVIOUS
  <2>3. BeginsWith(R, st, os, p)
    BY <2>1, <2>2, RemainingNext
  <2>. QED
    BY <2>1, <2>2, <2>3 DEF BeginsWith
<1>9. PICK Q : /\ Remaining(Q, u)
               /\ R[n] = Inserted(st[n].opts[st[n].pos], Contents[MaxOpen + 1 - n]) \o Q[n]
  BY <1>8
<1>10. R[n] = <<o>> \o Q[n]
  <2>1. st[n].opts[st[n].pos] = o
    BY <1>3, <1>7
  <2>2. Inserted(o, Contents[MaxOpen + 1 - n]) = <<o>>
    BY DEF Inserted
  <2>. QED
    BY <1>9, <2>1, <2>2
<1>11. n \in 0..n /\ n \in 1..(MaxOpen + 1)
  BY <1>8, Depth
<1>12. Q[n] \in Seq(Option)
  BY <1>8, <1>9, <1>11 DEF Remaining
<1>13. PICK t : t = Append(s, o)
  OBVIOUS
<1>14. t \in Seq(Option) /\ t \o Q[n] = Expand(cmdline)
  <2>1. PICK q : q = Q[n]
    OBVIOUS
  <2>2. q \in Seq(Option) /\ <<o>> \in Seq(Option)
    BY <1>12, <2>1
  <2>3. Append(s, o) \o q = s \o (<<o>> \o q)
    BY <2>2
  <2>. QED
    BY <1>6, <1>7, <1>10, <1>13, <2>1, <2>3
<1>15. Processed(t)'
  BY <1>6, <1>13
<1>16. Expand(cmdline') = Expand(cmdline)
  BY <1>1
<1>17. ParsingInv'
  <2>1. Remaining(Q, stack') /\ t \o Q[Len(stack')] = Expand(cmdline')
    BY <1>7, <1>8, <1>9, <1>14, <1>16
  <2>. QED
    BY <1>1, <1>4, <1>14, <1>15, <2>1 DEF ParsingInv
<1>18. ParsedInv'
  BY <1>1, <1>3 DEF ParsedInv, Parsed
<1>19. TypeOK' /\ LogTypes'
  <2>1. opened' \in 0..number_interfaces'
    BY <1>1, <1>2, <1>4, Limits DEF OptTypes
  <2>2. stack' \in Seq(Source) /\ cmdline' \in CommandLines /\ status' = "parsing"
    BY <1>1, <1>2, <1>3, <1>7, <1>8
  <2>. QED
    BY <1>1, <1>2, <2>1, <2>2 DEF TypeOK, OptTypes, LogTypes, Source
<1>20. GoodStack(stack)'
  BY <1>7, <1>8 DEF GoodStack
<1>. QED
  BY <1>17, <1>18, <1>19, <1>20 DEF OptionsInv

\* The devices stay what the options ask for while they do not change.
LEMMA DevicesSame ==
  ASSUME NEW CONSTANT s, DevicesAfter(s), SpareDevices,
         UNCHANGED <<if_devices, number_interfaces, opened>>
  PROVE  DevicesAfter(s)' /\ SpareDevices'
<1>1. if_devices' = if_devices /\ number_interfaces' = number_interfaces /\ opened' = opened
  OBVIOUS
<1>2. ASSUME NEW CONSTANT p \in DOMAIN s, s[p].opt = "i", Count(s, "i", p) <= MAX_INTERFACES
      PROVE  DeviceAfter(s, p)'
  <2>1. DeviceAfter(s, p)
    BY <1>2 DEF DevicesAfter
  <2>. QED
    BY <1>1, <2>1 DEF DeviceAfter
<1>3. DevicesAfter(s)'
  BY <1>1, <1>2 DEF DevicesAfter
<1>4. SpareDevices'
  BY <1>1 DEF SpareDevices
<1>. QED
  BY <1>3, <1>4

\* What is processed stays so while nothing that the options set changes.
LEMMA ProcessedKept ==
  ASSUME NEW CONSTANT s, Processed(s), UNCHANGED <<optVars, opened>>,
         status \in {"opened", "ready"} => status' \in {"opened", "ready"}
  PROVE  Processed(s)'
<1>1. UNCHANGED <<value, range, t_idx, if_devices, number_interfaces, log, opened>>
  BY DEF optVars
<1>2. FieldsAfter(s)'
  BY <1>1 DEF Processed, FieldsAfter
<1>3. RangeAfter(s)'
  BY <1>1 DEF Processed, RangeAfter
<1>4. DevicesAfter(s)' /\ SpareDevices'
  BY <1>1, DevicesSame DEF Processed
<1>5. LogAfter(s)'
  BY <1>1 DEF Processed, LogAfter
<1>. QED
  BY <1>1, <1>2, <1>3, <1>4, <1>5 DEF Processed

\* Opening the file of -c: its contents are to come next.
LEMMA OpenStep ==
  ASSUME OptionsInv, HasOption, NEW CONSTANT o \in Option, o = Top.opts[Top.pos], o.opt = "c",
         o.word \in DOMAIN Files, Len(stack) <= MaxOpen, stack' = WithFile(Advanced, o.word),
         UNCHANGED <<cmdline, status, optVars, mainVars>>
  PROVE  OptionsInv'
<1>1. /\ UNCHANGED <<cmdline, status, value, range, templateID, t_idx, if_devices,
                     number_interfaces, hashAsPacketID, log, opened, probe_name>>
      /\ UNCHANGED <<optVars, opened>>
  BY DEF optVars, mainVars
<1>2. /\ OptTypes /\ cmdline \in CommandLines /\ stack \in Seq(Source) /\ GoodStack(stack)
      /\ opened \in 0..number_interfaces /\ probe_name \in {"none", "given", "hostname", "empty"}
  BY TypeParts DEF OptionsInv
<1>3. /\ Top = stack[Len(stack)] /\ Top.pos <= Len(Top.opts)
      /\ Advanced = Behind(stack) /\ status = "parsing"
  BY <1>2, Reading
<1>4. opened = 0 /\ \E s \in Seq(Option) : \E R : /\ Remaining(R, stack)
                                                  /\ s \o R[Len(stack)] = Expand(cmdline)
                                                  /\ Processed(s)
  BY <1>3 DEF OptionsInv, ParsingInv
<1>5. PICK s \in Seq(Option) : \E R : /\ Remaining(R, stack)
                                      /\ s \o R[Len(stack)] = Expand(cmdline)
                                      /\ Processed(s)
  BY <1>4
<1>6. PICK R : Remaining(R, stack) /\ s \o R[Len(stack)] = Expand(cmdline) /\ Processed(s)
  BY <1>5
<1>7. PICK n, st, b, os, p : /\ n = Len(stack) /\ st = stack /\ b = Behind(stack)
                             /\ os = stack[Len(stack)].opts /\ p = stack[Len(stack)].pos
  OBVIOUS
<1>8. BeginsWith(R, st, os, p)
  BY <1>2, <1>3, <1>6, <1>7, RemainingNext
<1>9. /\ b \in Seq(Source) /\ GoodStack(b) /\ Len(b) = n
      /\ \E Q : Remaining(Q, b) /\ R[n] = Inserted(o, Contents[MaxOpen + 1 - n]) \o Q[n]
  BY <1>3, <1>7, <1>8 DEF BeginsWith
<1>10. PICK P : Remaining(P, b) /\ R[n] = Inserted(o, Contents[MaxOpen + 1 - n]) \o P[n]
  BY <1>9
<1>11. PICK w : w = o.word
  OBVIOUS
<1>12. PutBefore(P, b, w)
  BY <1>7, <1>9, <1>10, <1>11, RemainingOpen
<1>13. /\ stack' \in Seq(Source) /\ GoodStack(stack') /\ Len(stack') = n + 1
       /\ w \in DOMAIN Contents[MaxOpen + 1 - n]
       /\ \E Q : Remaining(Q, stack') /\ Q[n + 1] = Contents[MaxOpen + 1 - n][w] \o P[n]
  BY <1>3, <1>7, <1>9, <1>11, <1>12 DEF PutBefore
<1>14. Inserted(o, Contents[MaxOpen + 1 - n]) = Contents[MaxOpen + 1 - n][w]
  BY <1>11, <1>13 DEF Inserted
<1>15. PICK Q : Remaining(Q, stack') /\ Q[n + 1] = R[n]
  BY <1>10, <1>13, <1>14
<1>16. Processed(s)'
  BY <1>1, <1>3, <1>6, ProcessedKept
<1>17. ParsingInv'
  <2>1. s \o Q[Len(stack')] = Expand(cmdline')
    BY <1>1, <1>6, <1>7, <1>13, <1>15
  <2>. QED
    BY <1>1, <1>4, <1>15, <1>16, <2>1 DEF ParsingInv
<1>18. ParsedInv'
  BY <1>1, <1>3 DEF ParsedInv, Parsed
<1>19. TypeOK' /\ LogTypes'
  BY <1>1, <1>2, <1>3, <1>13 DEF TypeOK, OptTypes, LogTypes, Source
<1>20. GoodStack(stack)'
  BY <1>13 DEF GoodStack
<1>. QED
  BY <1>17, <1>18, <1>19, <1>20 DEF OptionsInv

\* The end of a file or of the command line.
LEMMA EndStep ==
  ASSUME OptionsInv, EndOfSource
  PROVE  OptionsInv'
<1>1. /\ UNCHANGED <<cmdline, value, range, templateID, t_idx, if_devices,
                     number_interfaces, hashAsPacketID, log, opened, probe_name>>
      /\ UNCHANGED <<optVars, opened>>
      /\ status = "parsing" /\ ~HasOption
  BY DEF EndOfSource, optVars, mainVars
<1>2. /\ OptTypes /\ cmdline \in CommandLines /\ stack \in Seq(Source) /\ GoodStack(stack)
      /\ opened \in 0..number_interfaces /\ probe_name \in {"none", "given", "hostname", "empty"}
  BY TypeParts DEF OptionsInv
<1>3. ~(stack[Len(stack)].pos <= Len(stack[Len(stack)].opts))
  BY <1>1 DEF HasOption, Top
<1>4. opened = 0 /\ \E s \in Seq(Option) : \E R : /\ Remaining(R, stack)
                                                  /\ s \o R[Len(stack)] = Expand(cmdline)
                                                  /\ Processed(s)
  BY <1>1 DEF OptionsInv, ParsingInv
<1>5. PICK s \in Seq(Option) : \E R : /\ Remaining(R, stack)
                                      /\ s \o R[Len(stack)] = Expand(cmdline)
                                      /\ Processed(s)
  BY <1>4
<1>6. PICK R : Remaining(R, stack) /\ s \o R[Len(stack)] = Expand(cmdline) /\ Processed(s)
  BY <1>5
<1>7. PICK n, st : n = Len(stack) /\ st = stack
  OBVIOUS
<1>8. R[n] = R[n - 1] /\ n - 1 \in 0..n /\ n \in 1..(MaxOpen + 1)
  BY <1>2, <1>3, <1>6, <1>7, RemainingEnd
<1>9. CASE InFile
  <2>1. n > 1 /\ stack' = Front(st) /\ status' = "parsing"
    BY <1>1, <1>7, <1>9 DEF EndOfSource, InFile
  <2>2. LeftBehind(R, st)
    BY <1>2, <1>6, <1>7, <2>1, RemainingClose
  <2>3. /\ stack' \in Seq(Source) /\ GoodStack(stack') /\ Len(stack') = n - 1
        /\ \E Q : Remaining(Q, stack') /\ Q[n - 1] = R[n - 1]
    BY <1>7, <2>1, <2>2 DEF LeftBehind
  <2>4. PICK Q : Remaining(Q, stack') /\ Q[n - 1] = R[n - 1]
    BY <2>3
  <2>5. Processed(s)'
    BY <1>1, <1>6, ProcessedKept
  <2>6. ParsingInv'
    <3>1. s \o Q[Len(stack')] = Expand(cmdline')
      BY <1>1, <1>6, <1>7, <1>8, <2>3, <2>4
    <3>. QED
      BY <1>1, <1>4, <2>4, <2>5, <3>1 DEF ParsingInv
  <2>7. ParsedInv'
    BY <2>1 DEF ParsedInv, Parsed
  <2>8. TypeOK' /\ LogTypes'
    BY <1>1, <1>2, <2>1, <2>3 DEF TypeOK, OptTypes, LogTypes, Source
  <2>9. GoodStack(stack)'
    BY <2>3 DEF GoodStack
  <2>. QED
    BY <2>6, <2>7, <2>8, <2>9 DEF OptionsInv
<1>10. CASE ~InFile
  <2>1. n = 1 /\ stack' = stack /\ status' = "parsed"
    BY <1>7, <1>8, <1>10, Limits DEF EndOfSource, InFile
  <2>2. R[n] = << >>
    BY <1>6, <1>8, <2>1 DEF Remaining
  <2>3. s = Expand(cmdline)
    <3>1. s \o << >> = s
      BY ConcatEmptySeq
    <3>. QED
      BY <1>6, <1>7, <2>2, <3>1
  <2>4. Processed(s)'
    BY <1>1, <1>6, ProcessedKept
  <2>5. ParsedInv'
    BY <1>1, <2>3, <2>4 DEF ParsedInv
  <2>6. ParsingInv'
    BY <2>1 DEF ParsingInv
  <2>7. TypeOK' /\ LogTypes'
    BY <1>1, <1>2, <2>1 DEF TypeOK, OptTypes, LogTypes, Source
  <2>8. GoodStack(stack)'
    BY <1>2, <2>1 DEF GoodStack
  <2>. QED
    BY <2>5, <2>6, <2>7, <2>8 DEF OptionsInv
<1>. QED
  BY <1>9, <1>10

\* One option, whichever it is.
LEMMA ProcessStep ==
  ASSUME OptionsInv, ProcessOption
  PROVE  OptionsInv'
<1>1. /\ OptTypes /\ stack \in Seq(Source) /\ GoodStack(stack) /\ HasOption
      /\ number_interfaces \in 0..MAX_INTERFACES
  BY TypeParts DEF OptionsInv, ProcessOption, OptTypes
<1>2. Top.opts[Top.pos] \in Option /\ status = "parsing"
  BY <1>1, Reading
<1>3. PICK o \in Option : o = Top.opts[Top.pos]
  BY <1>2
<1>4. \/ opt_assign(o) \/ opt_range(o) \/ opt_v(o) \/ opt_i(o) \/ opt_t(o) \/ opt_c(o)
      \/ Proceed /\ UNCHANGED optVars /\ o.opt \in NoKey \cup {"unknown"}
      \/ \E code \in {"exit 0", "exit 1", "exit -1"} : Exit(code)
  BY <1>3, OptionCases
<1>5. PICK s0 \in Seq(Option) : Processed(s0)
  BY <1>2 DEF OptionsInv, ParsingInv
<1>6. CASE opt_assign(o)
  <2>1. \A s \in Seq(Option) :
          Processed(s) => /\ OptTypes' /\ Processed(Append(s, o))'
                          /\ number_interfaces' = number_interfaces
    BY <1>1, <1>2, <1>6, AssignStep
  <2>2. o.opt # "c" /\ Proceed
    BY <1>6 DEF opt_assign, Fields
  <2>. QED
    BY <1>1, <1>3, <1>5, <2>1, <2>2, ProceedStep
<1>7. CASE opt_range(o)
  <2>1. \A s \in Seq(Option) :
          Processed(s) => /\ OptTypes' /\ Processed(Append(s, o))'
                          /\ number_interfaces' = number_interfaces
    BY <1>1, <1>2, <1>7, RangeOptionStep
  <2>2. o.opt # "c" /\ Proceed
    BY <1>7 DEF opt_range
  <2>. QED
    BY <1>1, <1>3, <1>5, <2>1, <2>2, ProceedStep
<1>8. CASE opt_v(o)
  <2>1. \A s \in Seq(Option) :
          Processed(s) => /\ OptTypes' /\ Processed(Append(s, o))'
                          /\ number_interfaces' = number_interfaces
    BY <1>1, <1>2, <1>8, VStep
  <2>2. o.opt # "c" /\ Proceed
    BY <1>8 DEF opt_v
  <2>. QED
    BY <1>1, <1>3, <1>5, <2>1, <2>2, ProceedStep
<1>9. CASE opt_i(o)
  <2>1. \A s \in Seq(Option) :
          Processed(s) => /\ OptTypes' /\ Processed(Append(s, o))'
                          /\ number_interfaces' \in {number_interfaces, number_interfaces + 1}
    BY <1>1, <1>2, <1>9, IStep
  <2>2. o.opt # "c" /\ Proceed
    BY <1>9 DEF opt_i
  <2>. QED
    BY <1>1, <1>3, <1>5, <2>1, <2>2, ProceedStep
<1>10. CASE opt_t(o)
  <2>1. \A s \in Seq(Option) :
          Processed(s) => /\ OptTypes' /\ Processed(Append(s, o))'
                          /\ number_interfaces' = number_interfaces
    BY <1>1, <1>2, <1>10, TStep
  <2>2. o.opt # "c" /\ Proceed
    BY <1>10 DEF opt_t
  <2>. QED
    BY <1>1, <1>3, <1>5, <2>1, <2>2, ProceedStep
<1>11. CASE opt_c(o)
  <2>1. o.opt = "c"
    BY <1>11 DEF opt_c
  <2>2. \/ /\ o.word \in DOMAIN Files /\ Len(stack) <= MaxOpen
           /\ stack' = WithFile(Advanced, o.word)
           /\ UNCHANGED <<cmdline, status, optVars, mainVars>>
        \/ Exit("exit 1")
    BY <1>11 DEF opt_c, WithFile
  <2>. QED
    BY <1>1, <1>3, <2>1, <2>2, OpenStep, ExitStep
<1>12. CASE Proceed /\ UNCHANGED optVars /\ o.opt \in NoKey \cup {"unknown"}
  <2>1. UNCHANGED <<optVars, opened>> /\ o.opt # "c" /\ o.opt \in NoKey \cup {"unknown"}
    BY <1>12 DEF Proceed, mainVars, NoKey
  <2>2. \A s \in Seq(Option) :
          Processed(s) => /\ OptTypes' /\ Processed(Append(s, o))'
                          /\ number_interfaces' = number_interfaces
    BY <1>1, <1>2, <2>1, IgnoredStep
  <2>. QED
    BY <1>1, <1>3, <1>5, <1>12, <2>1, <2>2, ProceedStep
<1>13. CASE \E code \in {"exit 0", "exit 1", "exit -1"} : Exit(code)
  BY <1>13, ExitStep
<1>. QED
  BY <1>4, <1>6, <1>7, <1>8, <1>9, <1>10, <1>11, <1>12, <1>13

-----------------------------------------------------------------------------
(* main, behind the options                                                *)

\* A step of main that changes nothing the options set.
LEMMA MainStep ==
  ASSUME OptionsInv, UNCHANGED <<cmdline, stack, optVars, opened>>, Parsed,
         status' \in {"opening", "opened", "ready", "exit 1"},
         status \in {"opened", "ready"} => status' \in {"opened", "ready", "exit 1"},
         probe_name' \in {"none", "given", "hostname", "empty"}
  PROVE  OptionsInv'
<1>1. UNCHANGED <<cmdline, stack, value, range, templateID, t_idx, if_devices,
                  number_interfaces, hashAsPacketID, log, opened>>
  BY DEF optVars
<1>2. TypeOK' /\ LogTypes'
  BY <1>1 DEF OptionsInv, TypeOK, LogTypes
<1>3. GoodStack(stack)'
  BY <1>1 DEF OptionsInv, GoodStack
<1>4. ParsingInv'
  BY DEF ParsingInv
<1>5. PICK e \in Seq(Option) : e = Expand(cmdline) /\ Processed(e)
  BY DEF OptionsInv, ParsedInv
<1>6. ParsedInv'
  <2>1. CASE status' = "exit 1"
    BY <2>1 DEF ParsedInv, Parsed
  <2>2. CASE status' # "exit 1"
    <3>1. Processed(e)'
      BY <1>5, <2>2, ProcessedKept
    <3>. QED
      BY <1>1, <1>5, <3>1 DEF ParsedInv
  <2>. QED
    BY <2>1, <2>2
<1>. QED
  BY <1>2, <1>3, <1>4, <1>6 DEF OptionsInv

\* The address of the device opened is set: it is the next one, and one that an
\* option with the prefix of a live interface gave.
LEMMA DevicesOpened ==
  ASSUME OptTypes, NEW CONSTANT s \in Seq(Option), DevicesAfter(s), SpareDevices,
         opened \in 0..number_interfaces, opened < number_interfaces,
         NEW CONSTANT a \in getIPv4AddressFromDevice,
         opened' = opened + 1, number_interfaces' = number_interfaces,
         \/ /\ Opens = "TYPE_PCAP" /\ if_devices' = [if_devices EXCEPT ![opened'].addr = a]
         \/ if_devices' = if_devices
  PROVE  /\ if_devices' \in [1..MAX_INTERFACES -> Device] /\ opened' \in 0..number_interfaces'
         /\ DevicesAfter(s)' /\ SpareDevices'
<1>1. /\ number_interfaces \in 0..MAX_INTERFACES /\ MAX_INTERFACES \in Nat
      /\ if_devices \in [1..MAX_INTERFACES -> Device]
      /\ opened + 1 \in 1..MAX_INTERFACES /\ opened' = opened + 1
      /\ opened' \in 0..number_interfaces'
  BY Limits DEF OptTypes
<1>2. PICK k, old : k = opened + 1 /\ old = if_devices[k]
  OBVIOUS
<1>3. old \in Device /\ k \in 1..MAX_INTERFACES /\ k \in 1..number_interfaces
  BY <1>1, <1>2
<1>4. PICK new : new = [old EXCEPT !.addr = a]
  OBVIOUS
<1>5. /\ new \in Device /\ new.type = old.type /\ new.size = old.size
      /\ new.template = old.template
  BY <1>3, <1>4 DEF Device, getIPv4AddressFromDevice
<1>6. /\ if_devices' \in [1..MAX_INTERFACES -> Device]
      /\ \A d \in 1..MAX_INTERFACES :
           /\ if_devices'[d].type = if_devices[d].type
           /\ if_devices'[d].size = if_devices[d].size
           /\ if_devices'[d].template = if_devices[d].template
           /\ \/ if_devices'[d].addr = if_devices[d].addr
              \/ d = k /\ if_devices[d].type = "TYPE_PCAP"
  <2>1. CASE Opens = "TYPE_PCAP" /\ if_devices' = [if_devices EXCEPT ![opened'].addr = a]
    <3>1. if_devices' = [if_devices EXCEPT ![k] = new] /\ old.type = "TYPE_PCAP"
      BY <1>1, <1>2, <1>4, <2>1 DEF Opens
    <3>. QED
      BY <1>1, <1>2, <1>3, <1>5, <3>1
  <2>2. CASE if_devices' = if_devices
    BY <1>1, <2>2
  <2>. QED
    BY <2>1, <2>2
<1>7. SpareDevices'
  <2>1. ASSUME NEW d \in (number_interfaces + 1)..MAX_INTERFACES
        PROVE  if_devices'[d].type = "TYPE_UNKNOWN" /\ if_devices'[d].addr = NoAddress
    <3>1. d \in 1..MAX_INTERFACES /\ d # k
      BY <1>1, <1>3
    <3>2. if_devices[d].type = "TYPE_UNKNOWN" /\ if_devices[d].addr = NoAddress
      BY DEF SpareDevices
    <3>. QED
      BY <1>6, <3>1, <3>2
  <2>. QED
    BY <2>1 DEF SpareDevices
<1>8. ASSUME NEW CONSTANT p \in DOMAIN s, s[p].opt = "i", Count(s, "i", p) <= MAX_INTERFACES
      PROVE  DeviceAfter(s, p)'
  <2>1. PICK c : c = Count(s, "i", p)
    OBVIOUS
  <2>2. DeviceAfter(s, p)
    BY <1>8 DEF DevicesAfter
  <2>3. c \in 1..MAX_INTERFACES
    <3>1. c \in Nat /\ c >= 1
      BY <1>8, <2>1, CountGrows, CountType
    <3>. QED
      BY <1>1, <1>8, <2>1, <3>1
  <2>4. /\ if_devices'[c].type = if_devices[c].type
        /\ if_devices'[c].size = if_devices[c].size
        /\ if_devices'[c].template = if_devices[c].template
        /\ \/ if_devices'[c].addr = if_devices[c].addr
           \/ c = k /\ if_devices[c].type = "TYPE_PCAP"
    BY <1>6, <2>3
  <2>5. if_devices[c].type = DeviceType(s[p].word, "TYPE_UNKNOWN")
    BY <2>1, <2>2 DEF DeviceAfter
  <2>6. if_devices[c].type = "TYPE_PCAP" => s[p].word \in {"", "i"}
    BY <2>5 DEF DeviceType
  <2>7. if_devices'[c].addr # NoAddress => c <= opened' /\ s[p].word \in {"", "i"}
    <3>1. if_devices[c].addr # NoAddress => c <= opened /\ s[p].word \in {"", "i"}
      BY <2>1, <2>2 DEF DeviceAfter
    <3>2. c <= opened => c <= opened'
      BY <1>1, <2>3
    <3>3. c = k => c <= opened'
      BY <1>1, <1>2, <1>3
    <3>. QED
      BY <2>4, <2>6, <3>1, <3>2, <3>3
  <2>. QED
    BY <2>1, <2>2, <2>4, <2>7 DEF DeviceAfter
<1>9. DevicesAfter(s)'
  BY <1>8 DEF DevicesAfter
<1>. QED
  BY <1>1, <1>6, <1>7, <1>9

\* Opening a device.
LEMMA OpenDeviceStep ==
  ASSUME OptionsInv, NEW CONSTANT a \in getIPv4AddressFromDevice, open_device(a)
  PROVE  OptionsInv'
<1>1. /\ UNCHANGED <<cmdline, stack, status, value, range, templateID, t_idx,
                     number_interfaces, hashAsPacketID, log, probe_name>>
      /\ status = "opening" /\ opened < number_interfaces /\ opened' = opened + 1
      /\ \/ /\ Opens = "TYPE_PCAP" /\ if_devices' = [if_devices EXCEPT ![opened'].addr = a]
         \/ if_devices' = if_devices
  BY DEF open_device, Opening
<1>2. OptTypes /\ opened \in 0..number_interfaces
  BY TypeParts DEF OptionsInv
<1>3. PICK e \in Seq(Option) : e = Expand(cmdline) /\ Processed(e)
  BY <1>1 DEF OptionsInv, ParsedInv, Parsed
<1>4. /\ if_devices' \in [1..MAX_INTERFACES -> Device] /\ opened' \in 0..number_interfaces'
      /\ DevicesAfter(e)' /\ SpareDevices'
  BY <1>1, <1>2, <1>3, DevicesOpened DEF Processed
<1>5. FieldsAfter(e)'
  BY <1>1, <1>3 DEF Processed, FieldsAfter
<1>6. RangeAfter(e)'
  BY <1>1, <1>3 DEF Processed, RangeAfter
<1>7. Processed(e)'
  <2>1. LogAfter(e)'
    BY <1>1, <1>3 DEF Processed, LogAfter
  <2>. QED
    BY <1>1, <1>3, <1>4, <1>5, <1>6, <2>1 DEF Processed
<1>8. ParsedInv' /\ ParsingInv'
  BY <1>1, <1>3, <1>7 DEF ParsedInv, ParsingInv
<1>9. TypeOK' /\ LogTypes'
  BY <1>1, <1>4 DEF OptionsInv, TypeOK, LogTypes
<1>10. GoodStack(stack)'
  BY <1>1 DEF OptionsInv, GoodStack
<1>. QED
  BY <1>8, <1>9, <1>10 DEF OptionsInv

\* An address is a number in host byte order.
LEMMA HostOrder ==
  ASSUME NEW a \in Addresses \cup {NoAddress}
  PROVE  ntohl(a) \in Int
<1>1. Addresses \subseteq [1..4 -> 0..255]
  BY OptionsAssumption, Zenon
<1>2. a[1] \in Int /\ a[2] \in Int /\ a[3] \in Int /\ a[4] \in Int
  BY <1>1 DEF NoAddress
<1>3. PICK b1, b2, b3, b4 \in Int : b1 = a[1] /\ b2 = a[2] /\ b3 = a[3] /\ b4 = a[4]
  BY <1>2
<1>4. ((b1 * 256 + b2) * 256 + b3) * 256 + b4 \in Int
  OBVIOUS
<1>. QED
  BY <1>3, <1>4 DEF ntohl

\* Completing the observation domain.
LEMMA DomainStep ==
  ASSUME OptionsInv, CompleteDomain
  PROVE  OptionsInv'
<1>1. /\ UNCHANGED <<cmdline, stack, range, templateID, t_idx, if_devices, number_interfaces,
                     hashAsPacketID, log, opened, probe_name>>
      /\ status = "opening" /\ status' = "opened"
  BY DEF CompleteDomain, mainVars
<1>2. OptTypes /\ opened \in 0..number_interfaces
  BY TypeParts DEF OptionsInv
<1>3. PICK e \in Seq(Option) : e = Expand(cmdline) /\ Processed(e)
  BY <1>1 DEF OptionsInv, ParsedInv, Parsed
<1>4. /\ value \in [Fields -> Int] /\ "o" \in Fields
      /\ if_devices \in [1..MAX_INTERFACES -> Device]
      /\ number_interfaces \in 0..MAX_INTERFACES /\ MAX_INTERFACES \in Nat
  BY <1>2, Limits DEF OptTypes, Fields
<1>5. \A k \in Fields : value[k] = LastSet(e, k)
  BY <1>1, <1>3 DEF Processed, FieldsAfter
<1>6. value' \in [Fields -> Int] /\ FieldsAfter(e)'
  <2>1. CASE number_interfaces > 0 /\ value["o"] = 0
    <3>1. PICK x : x = ntohl(if_devices[1].addr)
      OBVIOUS
    <3>2. x \in Int
      <4>1. if_devices[1] \in Device
        BY <1>4, <2>1
      <4>2. if_devices[1].addr \in Addresses \cup {NoAddress}
        BY <4>1 DEF Device
      <4>. QED
        BY <3>1, <4>2, HostOrder
    <3>3. value' = [value EXCEPT !["o"] = x]
      BY <2>1, <3>1 DEF CompleteDomain
    <3>4. /\ value' \in [Fields -> Int] /\ value'["o"] = x
          /\ \A k \in Fields : k # "o" => value'[k] = value[k]
      BY <1>4, <3>2, <3>3
    <3>5. LastSet(e, "o") = 0
      BY <1>4, <1>5, <2>1
    <3>6. \A k \in Fields : \/ value'[k] = LastSet(e, k)
                            \/ /\ k = "o" /\ LastSet(e, k) = 0 /\ number_interfaces' > 0
                               /\ value'[k] = ntohl(if_devices'[1].addr)
      BY <1>1, <1>5, <2>1, <3>1, <3>4, <3>5
    <3>. QED
      BY <1>1, <3>4, <3>6 DEF FieldsAfter
  <2>2. CASE ~(number_interfaces > 0 /\ value["o"] = 0)
    <3>1. value' = value
      BY <2>2 DEF CompleteDomain
    <3>. QED
      BY <1>4, <1>5, <3>1 DEF FieldsAfter
  <2>. QED
    BY <2>1, <2>2
<1>7. RangeAfter(e)'
  BY <1>1, <1>3 DEF Processed, RangeAfter
<1>8. DevicesAfter(e)' /\ SpareDevices'
  BY <1>1, <1>3, DevicesSame DEF Processed
<1>9. Processed(e)'
  <2>1. LogAfter(e)'
    BY <1>1, <1>3 DEF Processed, LogAfter
  <2>. QED
    BY <1>1, <1>3, <1>6, <1>7, <1>8, <2>1 DEF Processed
<1>10. ParsedInv' /\ ParsingInv'
  BY <1>1, <1>3, <1>9 DEF ParsedInv, ParsingInv
<1>11. TypeOK' /\ LogTypes'
  BY <1>1, <1>6 DEF OptionsInv, TypeOK, LogTypes
<1>12. GoodStack(stack)'
  BY <1>1 DEF OptionsInv, GoodStack
<1>. QED
  BY <1>10, <1>11, <1>12 DEF OptionsInv

-----------------------------------------------------------------------------
(* Theorems                                                                *)

\* Whatever has been read of the command line and of nested files, the state is
\* what the options read so far ask for, and those and the ones still to come
\* are the expanded command line; main then keeps what the options asked for.
THEOREM OptionsInvariant == Spec => []OptionsInv
<1>1. ASSUME OptionsInv, [Next]_vars PROVE OptionsInv'
  <2>1. CASE ProcessOption
    BY <1>1, <2>1, ProcessStep
  <2>2. CASE EndOfSource
    BY <1>1, <2>2, EndStep
  <2>3. ASSUME NEW n \in HostNameLengths, CompleteProbeName(n) PROVE OptionsInv'
    <3>1. /\ UNCHANGED <<cmdline, stack, optVars, opened>> /\ Parsed
          /\ status = "parsed" /\ status' = "opening"
      BY <2>3 DEF CompleteProbeName, Parsed
    <3>2. probe_name' \in {"none", "given", "hostname", "empty"}
      BY <2>3 DEF CompleteProbeName
    <3>. QED
      BY <1>1, <3>1, <3>2, MainStep
  <2>4. ASSUME NEW a \in getIPv4AddressFromDevice, open_device(a) PROVE OptionsInv'
    BY <1>1, <2>4, OpenDeviceStep
  <2>5. CASE OpenFails
    <3>1. \E code \in {"exit 1", "exit 2", "crash"} : Exit(code)
      BY <2>5 DEF OpenFails
    <3>. QED
      BY <1>1, <3>1, ExitStep
  <2>6. CASE CompleteDomain
    BY <1>1, <2>6, DomainStep
  <2>7. ASSUME NEW ok \in BOOLEAN, libipfix_init(ok) PROVE OptionsInv'
    <3>1. /\ UNCHANGED <<cmdline, stack, optVars, opened>> /\ Parsed
          /\ status = "opened" /\ status' \in {"ready", "exit 1"} /\ probe_name' = probe_name
      BY <2>7 DEF libipfix_init, Parsed, mainVars
    <3>2. probe_name' \in {"none", "given", "hostname", "empty"}
      BY <1>1, <3>1 DEF OptionsInv, TypeOK
    <3>. QED
      BY <1>1, <3>1, <3>2, MainStep
  <2>8. CASE UNCHANGED vars
    <3>1. UNCHANGED <<cmdline, stack, status, value, range, templateID, t_idx, if_devices,
                      number_interfaces, hashAsPacketID, log, opened, probe_name>>
      BY <2>8 DEF vars, optVars, mainVars
    <3>2. TypeOK' /\ LogTypes' /\ GoodStack(stack)'
      BY <1>1, <3>1 DEF OptionsInv, TypeOK, LogTypes, GoodStack
    <3>3. UNCHANGED <<optVars, opened>>
      BY <3>1 DEF optVars
    <3>4. \A s \in Seq(Option) : Processed(s) => Processed(s)'
      BY <3>1, <3>3, ProcessedKept
    <3>5. ParsingInv'
      BY <1>1, <3>1, <3>4 DEF OptionsInv, ParsingInv
    <3>6. ParsedInv'
      BY <1>1, <3>1, <3>4 DEF OptionsInv, ParsedInv, Parsed
    <3>. QED
      BY <3>2, <3>5, <3>6 DEF OptionsInv
  <2>. QED
    BY <1>1, <2>1, <2>2, <2>3, <2>4, <2>5, <2>6, <2>7, <2>8 DEF Next
<1>. QED
  BY <1>1, OptionsInit, PTL DEF Spec

\* The startup state keeps its types.
THEOREM OptionsTypes == Spec => []TypeOK
<1>1. OptionsInv => TypeOK
  BY DEF OptionsInv
<1>. QED
  BY <1>1, OptionsInvariant, PTL

\* The manual's "last comes last serves" holds for all command lines, files and
\* depths of nesting: a field has the value of the last option that sets it, and
\* the last of -m, -M and -r is honoured with a range that is not inverted.
THEOREM LastComesLast == Spec => []PrecedenceByOrder
<1>1. OptionsInv => PrecedenceByOrder
  BY DEF OptionsInv, ParsedInv, PrecedenceByOrder, Processed
<1>. QED
  BY <1>1, OptionsInvariant, PTL

\* The devices are those of all -i in order, each with the hash buffer of the -N
\* before it and the template of the -t with its number if that comes after it;
\* only a live interface that was opened has an address.
THEOREM DevicesInOrder == Spec => []DevicesAsGiven
<1>1. OptionsInv => DevicesAsGiven
  BY DEF OptionsInv, ParsedInv, DevicesAsGiven, Processed
<1>. QED
  BY <1>1, OptionsInvariant, PTL

\* For all options -v with expressions of the manual's form, on the command line
\* and in files: expressions match as documented, repeated parsing of a string that
\* strtok has cut adds nothing that was not said, and the level is the one asked
\* for, counted from 0 in a byte.
THEOREM MessagesAsAsked == Spec => []LogAsAsked
<1>1. OptionsInv => LogAsAsked
  <2>. SUFFICES ASSUME OptionsInv, Parsed,
                       \A t \in Said(Expand(cmdline)) : Documented(t.text)
                PROVE  MessagesAfter(Expand(cmdline))
    BY DEF LogAsAsked
  <2>1. PICK e \in Seq(Option) : e = Expand(cmdline) /\ Processed(e)
    BY DEF OptionsInv, ParsedInv
  <2>2. LogAfter(e) /\ \A t \in Said(e) : Documented(t.text)
    BY <2>1 DEF Processed
  <2>3. MessagesAfter(e)
    BY <2>2, LogMeans
  <2>. QED
    BY <2>1, <2>3
<1>. QED
  BY <1>1, OptionsInvariant, PTL
=============================================================================
