-------------------------- MODULE RangeSelectProofs --------------------------
(***************************************************************************)
(* Proofs about RangeSelect, for offset lists of every length, packets and *)
(* buffers of every size: the parsed ranges are the documented ones, and   *)
(* the copy is the longest prefix of the selection that fits.              *)
(***************************************************************************)
EXTENDS RangeSelect, SequenceLemmas

-----------------------------------------------------------------------------
(* The sections of a packet                                                *)

range_select == [offset : Nat, length : Nat]
Positions == 0..(packetLength - 1)
Parts == [i \in DOMAIN rSel |-> Section(rSel[i])]

\* A range selects bytes of the packet section, as many as Wanted says.
LEMMA SectionInside ==
  ASSUME NEW r \in range_select, packetLength \in Nat, reverse \in BOOLEAN
  PROVE  /\ Section(r) \in Seq(Positions)
         /\ Len(Section(r)) \in Nat
         /\ OutOfRange(r) => Len(Section(r)) = 0
         /\ ~OutOfRange(r) => Len(Section(r)) = Wanted(r)
         /\ \A j \in 1..Len(Section(r)) : Section(r)[j] = Start(r) + j - 1
<1>1. r.offset \in Nat /\ r.length \in Nat
  BY DEF range_select
<1>2. PICK n : n = IF OutOfRange(r) THEN 0 ELSE Wanted(r)
  OBVIOUS
<1>3. n \in Nat /\ Start(r) \in Int
  BY <1>1, <1>2 DEF Wanted, OutOfRange, Min2, Start
<1>4. \A j \in 1..n : Start(r) + j - 1 \in Positions
  BY <1>1, <1>2 DEF Wanted, OutOfRange, Min2, Start, Positions
<1>5. Section(r) = [j \in 1..n |-> Start(r) + j - 1]
  BY <1>2 DEF Section
<1>6. Section(r) \in [1..n -> Positions]
  BY <1>4, <1>5
<1>7. Section(r) \in Seq(Positions) /\ Len(Section(r)) = n
  BY <1>3, <1>6
<1>. QED
  BY <1>2, <1>3, <1>5, <1>7

\* The sections of all ranges, in the order of the list.
LEMMA PartsTyped ==
  ASSUME rSel \in Seq(range_select), packetLength \in Nat, reverse \in BOOLEAN
  PROVE  /\ Parts \in Seq(Seq(Positions)) /\ Len(Parts) = Len(rSel)
         /\ \A i \in 1..Len(rSel) : Parts[i] = Section(rSel[i])
<1>1. DOMAIN rSel = 1..Len(rSel) /\ Len(rSel) \in Nat
  OBVIOUS
<1>2. \A i \in 1..Len(rSel) : Section(rSel[i]) \in Seq(Positions)
  BY SectionInside
<1>3. Parts \in [1..Len(rSel) -> Seq(Positions)]
  BY <1>1, <1>2 DEF Parts
<1>. QED
  BY <1>1, <1>3 DEF Parts

-----------------------------------------------------------------------------
(* The inductive invariant                                                 *)

\* The types, with the positions copied inside the packet section.
Types ==
  /\ stage \in {"item", "modifier", "copy", "done"}
  /\ typed \in Seq(Items) /\ modifiers \in 0..MaxModifiers /\ rSel \in Seq(range_select)
  /\ packetLength \in Lengths \cup {0} /\ size \in BufferSizes \cup {0}
  /\ reverse \in BOOLEAN
  /\ k \in Nat /\ bLen \in Nat
  /\ written \in Seq(Positions)

\* The range that parseRange makes of an item of the manual's form.
ParsedAs(r, it) ==
  CASE it.sep = "empty"       -> r.offset = 0 /\ r.length = 0
    [] it.sep = NoModifier    -> r.offset = it.from /\ r.length = 1
    [] it.sep = "-"           -> r.offset = it.from /\ r.length = AtLeastZero(it.to - it.from + 1)
    [] it.sep \in {":", "+"}  -> r.offset = it.from /\ r.length = it.to
    [] it.sep = "<"           -> r.offset = it.from /\ r.length = AtLeastZero(it.to - it.from)
    [] it.sep = ">"           -> r.offset = it.from + 1 /\ r.length = AtLeastZero(it.to - it.from)
    [] it.sep = "^"           -> r.offset = it.from + 1 /\ r.length = AtLeastZero(it.to - (it.from + 1))
    [] it.sep = "undocumented" -> TRUE

ItemsParsed ==
  /\ Len(typed) = Len(rSel)
  /\ \A i \in 1..Len(rSel) : ParsedAs(rSel[i], typed[i])

\* Only the first item is looked for in an empty list.
ParserAt == stage # "item" => Len(rSel) > 0

\* While there is room, whole sections were copied; at the end the last one may be cut.
Copied(f) ==
  IF stage = "copy" THEN written = f[k - 1]
  ELSE /\ Len(written) <= Len(f[k])
       /\ \A x \in 1..Len(written) : written[x] = f[k][x]
       /\ bLen > 0 => Len(written) = Len(f[k])

CopyAt ==
  stage \in {"copy", "done"} =>
    /\ k \in 1..Len(rSel)
    /\ Len(written) + bLen = size
    /\ stage = "copy" => bLen > 0
    /\ stage = "done" => bLen = 0 \/ k = Len(rSel)
    /\ \A f : Joins(f, Parts, Positions) => Copied(f)

\* What every step of parser and copy preserves.
Inv == Types /\ ItemsParsed /\ ParserAt /\ CopyAt

\* What is typed and what arrives are natural numbers; a buffer has room.
LEMMA NumbersAreNat ==
  /\ \A v \in Numbers \cup {0} : v \in Nat
  /\ \A l \in Lengths \cup {0} : l \in Nat
  /\ \A z \in BufferSizes : z \in Nat /\ z > 0
BY RangeAssumption

\* The invariant holds before anything is parsed.
LEMMA InvInit == Init => Inv
<1>. SUFFICES ASSUME Init PROVE Inv
  OBVIOUS
<1>1. /\ stage = "item" /\ typed = << >> /\ modifiers = 0 /\ rSel = << >>
      /\ packetLength = 0 /\ size = 0
      /\ reverse = FALSE /\ k = 1 /\ bLen = 0 /\ written = << >>
  BY DEF Init
<1>2. << >> \in Seq(Positions) /\ << >> \in Seq(range_select) /\ << >> \in Seq(Items)
  BY EmptySeq, Zenon
<1>3. Types
  <2>1. modifiers \in 0..MaxModifiers
    BY <1>1, RangeAssumption
  <2>. QED
    BY <1>1, <1>2, <2>1 DEF Types
<1>. QED
  BY <1>1, <1>3 DEF Inv, ItemsParsed, ParserAt, CopyAt

\* A new item and its range are appended together.
LEMMA ItemStep ==
  ASSUME Inv, NEW v \in Numbers \cup {0}, NEW e \in BOOLEAN, ParseItem(v, e)
  PROVE  Inv'
<1>1. PICK r, it : /\ r = [offset |-> v, length |-> IF e THEN 0 ELSE 1]
                   /\ it = [from |-> v, sep |-> IF e THEN "empty" ELSE NoModifier, to |-> 0]
  OBVIOUS
<1>2. /\ stage = "item" /\ (e => v = 0) /\ rSel' = Append(rSel, r) /\ typed' = Append(typed, it)
      /\ stage' = "modifier" /\ modifiers' = 0
      /\ UNCHANGED <<packetLength, size, reverse, k, bLen, written>>
  BY <1>1 DEF ParseItem, copyVars
<1>3. r \in range_select /\ it \in Items /\ ParsedAs(r, it)
  <2>1. v \in Nat
    BY NumbersAreNat
  <2>2. r \in range_select
    BY <1>1, <2>1 DEF range_select
  <2>3. it \in Items
    BY <1>1 DEF Items
  <2>4. ParsedAs(r, it)
    BY <1>1, <1>2 DEF ParsedAs, NoModifier
  <2>. QED
    BY <1>1, <2>2, <2>3, <2>4
<1>4. rSel \in Seq(range_select) /\ typed \in Seq(Items) /\ Len(typed) = Len(rSel)
  BY DEF Inv, Types, ItemsParsed
<1>5. /\ rSel' \in Seq(range_select) /\ typed' \in Seq(Items)
      /\ Len(rSel') = Len(rSel) + 1 /\ Len(typed') = Len(rSel) + 1
      /\ rSel'[Len(rSel) + 1] = r /\ typed'[Len(rSel) + 1] = it
      /\ \A i \in 1..Len(rSel) : rSel'[i] = rSel[i] /\ typed'[i] = typed[i]
  BY <1>2, <1>3, <1>4
<1>6. Types'
  BY <1>2, <1>5, RangeAssumption DEF Inv, Types, Positions
<1>7. ItemsParsed'
  <2>1. ASSUME NEW i \in 1..(Len(rSel) + 1) PROVE ParsedAs(rSel'[i], typed'[i])
    <3>1. CASE i = Len(rSel) + 1
      BY <1>3, <1>5, <3>1
    <3>2. CASE i # Len(rSel) + 1
      <4>1. i \in 1..Len(rSel)
        BY <1>4, <3>2
      <4>. QED
        BY <1>5, <4>1 DEF Inv, ItemsParsed
    <3>. QED
      BY <3>1, <3>2
  <2>. QED
    BY <1>5, <2>1 DEF ItemsParsed
<1>8. ParserAt' /\ CopyAt'
  BY <1>2, <1>3, <1>4, <1>5 DEF ParserAt, CopyAt
<1>. QED
  BY <1>6, <1>7, <1>8 DEF Inv

\* Offset and length a modifier gives to element q, the length before it is cut at 0.
OffsetTyped(q, sep) == IF sep \in {">", "^"} THEN q.offset + 1 ELSE q.offset
LengthTyped(q, sep, v) ==
  CASE sep = "-" -> v - q.offset + 1
    [] sep \in {":", "+"} -> v
    [] sep = "<" -> v - q.offset
    [] sep = ">" -> v - q.offset
    [] sep = "^" -> v - (q.offset + 1)
Element(q, sep, v) ==
  LET m == Modified(q, sep, v) IN [m EXCEPT !.length = AtLeastZero(m.length)]

\* A modifier applied to any element makes an element: what Modified computes.
LEMMA ModifiedRange ==
  ASSUME NEW q \in range_select, NEW sep \in Separators, NEW v \in Nat
  PROVE  /\ Element(q, sep, v) \in range_select
         /\ Element(q, sep, v).offset = OffsetTyped(q, sep)
         /\ Element(q, sep, v).length = AtLeastZero(LengthTyped(q, sep, v))
<1>1. PICK m, r : /\ m = Modified(q, sep, v) /\ r = Element(q, sep, v)
                  /\ r = [m EXCEPT !.length = AtLeastZero(m.length)]
  BY DEF Element
<1>2. /\ m.offset = OffsetTyped(q, sep)
      /\ m.length = LengthTyped(q, sep, v)
      /\ m = [offset |-> m.offset, length |-> m.length]
  BY <1>1 DEF Modified, LengthTyped, OffsetTyped, Separators, range_select
<1>3. m.offset \in Nat /\ m.length \in Int
  BY <1>2 DEF LengthTyped, OffsetTyped, Separators, range_select
<1>4. r.offset = m.offset /\ r.length = AtLeastZero(m.length) /\ r \in range_select
  <2>1. PICK a \in Nat, b \in Int : a = m.offset /\ b = m.length
    BY <1>3
  <2>2. m = [offset |-> a, length |-> b]
    BY <1>2, <2>1
  <2>3. r = [offset |-> a, length |-> AtLeastZero(b)]
    BY <1>1, <2>1, <2>2, Zenon
  <2>4. AtLeastZero(b) \in Nat
    BY DEF AtLeastZero
  <2>. QED
    BY <2>1, <2>3, <2>4 DEF range_select
<1>. QED
  BY <1>1, <1>2, <1>4, Zenon

\* A modifier changes the last item and its range.
LEMMA ModifierStep ==
  ASSUME Inv, NEW sep \in Separators, NEW v \in Numbers \cup {0}, ParseModifier(sep, v)
  PROVE  Inv'
<1>1. PICK n, q, m, r, it :
        /\ n = Len(rSel) /\ q = Unmodified(n, sep, v) /\ m = Modified(q, sep, v)
        /\ r = [m EXCEPT !.length = AtLeastZero(m.length)]
        /\ it = [typed[n] EXCEPT !.sep = IF typed[n].sep = NoModifier THEN sep
                                         ELSE "undocumented", !.to = v]
  OBVIOUS
<1>2. rSel \in Seq(range_select) /\ typed \in Seq(Items) /\ Len(typed) = Len(rSel)
  BY DEF Inv, Types, ItemsParsed
<1>3. stage = "modifier" /\ n \in 1..Len(rSel)
  BY <1>1, <1>2 DEF Inv, ParserAt, ParseModifier
<1>4. /\ rSel' = [rSel EXCEPT ![n] = r] /\ stage' = stage /\ modifiers' \in 0..MaxModifiers
      /\ UNCHANGED <<packetLength, size, reverse, k, bLen, written>>
  BY <1>1, RangeAssumption DEF ParseModifier, copyVars, Inv, Types
<1>5. typed' = [typed EXCEPT ![n] = it]
  BY <1>1, <1>2, <1>3 DEF ParseModifier, Items
<1>6. /\ rSel[n] \in range_select /\ typed[n] \in Items /\ ParsedAs(rSel[n], typed[n])
      /\ typed[n].from \in Nat /\ v \in Nat
  <2>1. rSel[n] \in range_select /\ typed[n] \in Items /\ ParsedAs(rSel[n], typed[n])
    BY <1>2, <1>3 DEF Inv, ItemsParsed
  <2>2. typed[n].from \in Nat /\ v \in Nat
    BY <2>1, NumbersAreNat DEF Items
  <2>. QED
    BY <2>1, <2>2
<1>7. q \in range_select /\ (typed[n].sep # "empty" => q = rSel[n])
  BY <1>1, <1>6 DEF Unmodified, range_select
<1>8. /\ it \in Items /\ it.from = typed[n].from /\ it.to = v
      /\ it.sep = (IF typed[n].sep = NoModifier THEN sep ELSE "undocumented")
  BY <1>1, <1>6 DEF Items
<1>9. /\ r \in range_select
      /\ r.offset = OffsetTyped(q, sep)
      /\ r.length = AtLeastZero(LengthTyped(q, sep, v))
  <2>1. r = Element(q, sep, v)
    BY <1>1 DEF Element
  <2>. QED
    BY <1>6, <1>7, <2>1, ModifiedRange, Zenon
<1>10. ParsedAs(r, it)
  <2>1. CASE typed[n].sep # NoModifier
    BY <1>8, <2>1 DEF ParsedAs, NoModifier
  <2>2. CASE typed[n].sep = NoModifier
    <3>1. it.sep = sep /\ q.offset = it.from
      <4>1. rSel[n].offset = typed[n].from
        BY <1>6, <2>2 DEF ParsedAs, NoModifier
      <4>2. typed[n].sep # "empty"
        BY <2>2 DEF NoModifier
      <4>. QED
        BY <1>7, <1>8, <2>2, <4>1, <4>2
    <3>2. AtLeastZero(v) = v
      BY <1>6 DEF AtLeastZero
    <3>3. CASE sep = "-"
      BY <1>8, <1>9, <3>1, <3>3 DEF ParsedAs, NoModifier, LengthTyped, OffsetTyped
    <3>4. CASE sep \in {":", "+"}
      BY <1>8, <1>9, <3>1, <3>2, <3>4 DEF ParsedAs, NoModifier, LengthTyped, OffsetTyped
    <3>5. CASE sep = "<"
      BY <1>8, <1>9, <3>1, <3>5 DEF ParsedAs, NoModifier, LengthTyped, OffsetTyped
    <3>6. CASE sep = ">"
      BY <1>8, <1>9, <3>1, <3>6 DEF ParsedAs, NoModifier, LengthTyped, OffsetTyped
    <3>7. CASE sep = "^"
      BY <1>8, <1>9, <3>1, <3>7 DEF ParsedAs, NoModifier, LengthTyped, OffsetTyped
    <3>. QED
      BY <3>3, <3>4, <3>5, <3>6, <3>7 DEF Separators
  <2>. QED
    BY <2>1, <2>2
<1>11. /\ rSel' \in Seq(range_select) /\ typed' \in Seq(Items)
       /\ Len(rSel') = Len(rSel) /\ Len(typed') = Len(rSel)
       /\ rSel'[n] = r /\ typed'[n] = it
       /\ \A i \in 1..Len(rSel) : i # n => rSel'[i] = rSel[i] /\ typed'[i] = typed[i]
  BY <1>2, <1>3, <1>4, <1>5, <1>8, <1>9
<1>12. Types'
  BY <1>4, <1>11 DEF Inv, Types, Positions
<1>13. ItemsParsed'
  BY <1>10, <1>11 DEF Inv, ItemsParsed
<1>14. ParserAt' /\ CopyAt'
  BY <1>1, <1>3, <1>4, <1>11 DEF Inv, ParserAt, CopyAt
<1>. QED
  BY <1>12, <1>13, <1>14 DEF Inv

\* A comma changes neither items nor ranges.
LEMMA CommaStep ==
  ASSUME Inv, ParseComma
  PROVE  Inv'
<1>1. /\ stage' = "item"
      /\ UNCHANGED <<typed, modifiers, rSel, packetLength, size, reverse, k, bLen, written>>
  BY DEF ParseComma, parseVars, copyVars
<1>. QED
  BY <1>1 DEF Inv, Types, Positions, ItemsParsed, ParserAt, CopyAt

\* The copy starts at the first range with an empty buffer.
LEMMA BeginStep ==
  ASSUME Inv, NEW len \in Lengths, NEW sz \in BufferSizes, NEW rev \in BOOLEAN,
         CopyBegin(len, sz, rev)
  PROVE  Inv'
<1>1. /\ stage = "modifier" /\ stage' = "copy"
      /\ packetLength' = len /\ size' = sz /\ reverse' = rev
      /\ k' = 1 /\ bLen' = sz /\ written' = << >>
      /\ typed' = typed /\ modifiers' = modifiers /\ rSel' = rSel
  BY DEF CopyBegin, parseVars
<1>2. sz \in Nat /\ sz > 0 /\ len \in Nat
  BY NumbersAreNat
<1>3. rSel \in Seq(range_select) /\ Len(rSel) > 0
  BY <1>1 DEF Inv, Types, ParserAt
<1>4. Types'
  <2>1. << >> \in Seq(Positions')
    BY EmptySeq, Zenon
  <2>. QED
    BY <1>1, <1>2, <2>1 DEF Inv, Types
<1>5. ItemsParsed' /\ ParserAt'
  BY <1>1, <1>3 DEF Inv, ItemsParsed, ParserAt
<1>6. \A f : Joins(f, Parts, Positions)' => Copied(f)'
  BY <1>1 DEF Joins, Copied
<1>7. CopyAt'
  <2>1. k' \in 1..Len(rSel') /\ Len(written') + bLen' = size' /\ bLen' > 0
    BY <1>1, <1>2, <1>3
  <2>. QED
    BY <1>1, <1>6, <2>1 DEF CopyAt
<1>. QED
  BY <1>4, <1>5, <1>7 DEF Inv

\* A range is copied whole if the room is not used up, and cut otherwise.
LEMMA CopyStep ==
  ASSUME Inv, CopyRange
  PROVE  Inv'
<1>1. PICK r, w, P :
        /\ r = rSel[k] /\ P = Section(r)
        /\ w = IF OutOfRange(r) THEN 0 ELSE Min2(Wanted(r), bLen)
  OBVIOUS
<1>2. /\ stage = "copy" /\ bLen' = bLen - w
      /\ written' = written \o [i \in 1..w |-> Start(r) + i - 1]
      /\ IF 0 < bLen - w /\ k < Len(rSel) THEN k' = k + 1 /\ stage' = stage
                                           ELSE stage' = "done" /\ k' = k
      /\ typed' = typed /\ modifiers' = modifiers /\ rSel' = rSel
      /\ packetLength' = packetLength /\ size' = size /\ reverse' = reverse
  BY <1>1 DEF CopyRange, parseVars
<1>3. /\ rSel \in Seq(range_select) /\ reverse \in BOOLEAN /\ written \in Seq(Positions)
      /\ k \in 1..Len(rSel) /\ bLen \in Nat /\ bLen > 0 /\ Len(written) + bLen = size
  BY <1>2 DEF Inv, Types, CopyAt
<1>4. packetLength \in Nat /\ r \in range_select
  BY <1>1, <1>3, NumbersAreNat DEF Inv, Types
<1>5. /\ P \in Seq(Positions) /\ Len(P) \in Nat
      /\ (OutOfRange(r) => Len(P) = 0) /\ (~OutOfRange(r) => Len(P) = Wanted(r))
      /\ \A j \in 1..Len(P) : P[j] = Start(r) + j - 1
  BY <1>1, <1>3, <1>4, SectionInside
<1>6. w \in Nat /\ w <= Len(P) /\ w <= bLen /\ (w < bLen => w = Len(P))
  BY <1>1, <1>3, <1>5 DEF Min2
<1>7. PICK q : q = [i \in 1..w |-> P[i]]
  OBVIOUS
<1>8. q \in Seq(Positions) /\ Len(q) = w
  <2>1. \A i \in 1..w : P[i] \in Positions
    BY <1>5, <1>6
  <2>2. q \in [1..w -> Positions]
    BY <1>7, <2>1
  <2>. QED
    BY <1>6, <2>2
<1>9. written' = written \o q
  <2>1. [i \in 1..w |-> Start(r) + i - 1] = q
    BY <1>5, <1>6, <1>7
  <2>. QED
    BY <1>2, <2>1
<1>10. /\ written' \in Seq(Positions) /\ Len(written') = Len(written) + w
       /\ \A x \in 1..Len(written) : written'[x] = written[x]
       /\ \A x \in 1..w : written'[Len(written) + x] = q[x]
  <2>1. PICK a, S : a = written /\ S = Positions
    OBVIOUS
  <2>2. a \in Seq(S) /\ q \in Seq(S) /\ Len(a) \in Nat
    BY <1>3, <1>8, <2>1
  <2>3. /\ a \o q \in Seq(S) /\ Len(a \o q) = Len(a) + Len(q)
        /\ \A x \in 1..(Len(a) + Len(q)) :
             (a \o q)[x] = IF x <= Len(a) THEN a[x] ELSE q[x - Len(a)]
    BY <2>2, ConcatProperties, Zenon
  <2>4. \A x \in 1..Len(a) : (a \o q)[x] = a[x]
    BY <1>6, <1>8, <2>2, <2>3
  <2>5. ASSUME NEW x \in 1..w PROVE (a \o q)[Len(a) + x] = q[x]
    <3>1. /\ Len(a) + x \in 1..(Len(a) + Len(q)) /\ ~(Len(a) + x <= Len(a))
          /\ (Len(a) + x) - Len(a) = x
      BY <1>6, <1>8, <2>2
    <3>. QED
      BY <2>3, <3>1
  <2>. QED
    BY <1>8, <1>9, <2>1, <2>3, <2>4, <2>5
<1>11. Positions' = Positions /\ Parts' = Parts
  BY <1>2 DEF Positions, Parts, Section, OutOfRange, Wanted, Start
<1>12. Types'
  BY <1>2, <1>3, <1>6, <1>10, <1>11 DEF Inv, Types
<1>13. ItemsParsed' /\ ParserAt'
  BY <1>2, <1>3 DEF Inv, ItemsParsed, ParserAt
<1>14. ASSUME NEW f, Joins(f, Parts, Positions)
       PROVE  /\ Len(written') <= Len(f[k])
              /\ \A x \in 1..Len(written') : written'[x] = f[k][x]
              /\ bLen' > 0 => written' = f[k]
  <2>1. written = f[k - 1]
    BY <1>2, <1>14 DEF Inv, CopyAt, Copied
  <2>2. Parts[k] = P /\ Len(Parts) = Len(rSel)
    BY <1>1, <1>3, <1>4, PartsTyped
  <2>3. f[k] = written \o P
    BY <1>3, <1>14, <2>1, <2>2 DEF Joins
  <2>4. PICK g : g = f[k]
    OBVIOUS
  <2>5. /\ g \in Seq(Positions) /\ Len(g) = Len(written) + Len(P)
        /\ \A x \in 1..Len(written) : g[x] = written[x]
        /\ \A x \in 1..Len(P) : g[Len(written) + x] = P[x]
    BY <1>3, <1>5, <2>3, <2>4
  <2>6. Len(written) \in Nat
    BY <1>3
  <2>7. Len(written') <= Len(g)
    BY <1>5, <1>6, <1>10, <2>5, <2>6
  <2>8. ASSUME NEW x \in 1..Len(written') PROVE written'[x] = g[x]
    <3>1. CASE x <= Len(written)
      <4>1. x \in 1..Len(written)
        BY <1>10, <2>6, <3>1
      <4>. QED
        BY <1>10, <2>5, <4>1
    <3>2. CASE ~(x <= Len(written))
      <4>1. PICK y \in 1..w : x = Len(written) + y
        <5>1. x - Len(written) \in 1..w /\ x = Len(written) + (x - Len(written))
          BY <1>6, <1>10, <2>6, <3>2
        <5>. QED
          BY <5>1
      <4>2. y \in 1..Len(P) /\ q[y] = P[y]
        BY <1>5, <1>6, <1>7
      <4>. QED
        BY <1>10, <2>5, <4>1, <4>2
    <3>. QED
      BY <3>1, <3>2
  <2>9. ASSUME bLen' > 0 PROVE written' = g
    <3>1. w = Len(P)
      BY <1>2, <1>3, <1>6, <2>9
    <3>2. Len(written') = Len(g)
      BY <1>10, <2>5, <3>1
    <3>. QED
      BY <1>10, <2>5, <2>8, <3>2
  <2>. QED
    BY <2>4, <2>7, <2>8, <2>9
<1>15. CopyAt'
  <2>1. k' \in 1..Len(rSel') /\ Len(written') + bLen' = size'
    BY <1>2, <1>3, <1>6, <1>10
  <2>2. /\ stage' = "copy" => bLen' > 0 /\ k' = k + 1
        /\ stage' = "done" => (bLen' = 0 \/ k' = Len(rSel')) /\ k' = k
        /\ stage' \in {"copy", "done"}
    BY <1>2, <1>3, <1>6
  <2>3. ASSUME NEW f, Joins(f, Parts, Positions)' PROVE Copied(f)'
    <3>1. Joins(f, Parts, Positions)
      BY <1>11, <2>3 DEF Joins
    <3>2. stage' = "copy" => written' = f[k' - 1]
      BY <1>3, <1>14, <2>2, <3>1
    <3>3. stage' # "copy" => /\ Len(written') <= Len(f[k'])
                             /\ \A x \in 1..Len(written') : written'[x] = f[k'][x]
                             /\ bLen' > 0 => Len(written') = Len(f[k'])
      BY <1>14, <2>2, <3>1
    <3>. QED
      BY <3>2, <3>3 DEF Copied
  <2>. QED
    BY <2>1, <2>2, <2>3 DEF CopyAt
<1>. QED
  BY <1>12, <1>13, <1>15 DEF Inv

\* Every step of parser and copy preserves the invariant.
LEMMA InvStep == Inv /\ [Next]_vars => Inv'
<1>. SUFFICES ASSUME Inv, [Next]_vars PROVE Inv'
  OBVIOUS
<1>1. CASE UNCHANGED vars
  <2>1. UNCHANGED <<stage, typed, modifiers, rSel, packetLength, size, reverse, k, bLen, written>>
    BY <1>1 DEF vars, parseVars, copyVars
  <2>2. Positions' = Positions /\ Parts' = Parts
    BY <2>1 DEF Positions, Parts, Section, OutOfRange, Wanted, Start
  <2>3. \A f : Joins(f, Parts, Positions)' => Joins(f, Parts, Positions)
    BY <2>2 DEF Joins
  <2>4. \A f : Copied(f) => Copied(f)'
    BY <2>1 DEF Copied
  <2>5. CopyAt'
    BY <2>1, <2>3, <2>4 DEF Inv, CopyAt
  <2>. QED
    BY <2>1, <2>2, <2>5 DEF Inv, Types, ItemsParsed, ParserAt
<1>. QED
  BY <1>1, ItemStep, ModifierStep, CommaStep, BeginStep, CopyStep DEF Next

\* The invariant holds in every reachable state.
LEMMA Invariant == Spec => []Inv
BY InvInit, InvStep, PTL DEF Spec

-----------------------------------------------------------------------------
(* The theorems                                                            *)

\* parseRange and the copy keep their types: no length becomes negative and the room
\* left in the buffer never does, whatever was typed.
THEOREM RangeTypes == Spec => []TypeOK
<1>1. Inv => TypeOK
  <2>. SUFFICES ASSUME Inv PROVE TypeOK
    OBVIOUS
  <2>1. written \in Seq(Nat)
    <3>1. written \in Seq(Positions) /\ Positions \subseteq Nat
      BY NumbersAreNat DEF Inv, Types, Positions
    <3>2. PICK S, w : S = Positions /\ w = written
      OBVIOUS
    <3>3. w \in Seq(S) /\ S \subseteq Nat
      BY <3>1, <3>2
    <3>4. w \in Seq(Nat)
      <4>1. Len(w) \in Nat /\ w \in [1..Len(w) -> S]
        BY <3>3
      <4>2. w \in [1..Len(w) -> Nat]
        BY <3>3, <4>1
      <4>. QED
        BY <4>1, <4>2
    <3>. QED
      BY <3>2, <3>4
  <2>. QED
    BY <2>1 DEF Inv, Types, TypeOK, range_select
<1>. QED
  BY <1>1, Invariant, PTL

\* parseRange turns every item of the manual's form that selects bytes of the section
\* into those bytes, in offset lists of any length, with any numbers, and whatever
\* undocumented items stand between.
THEOREM ParsedAsDocumented == Spec => []RangesAsDocumented
<1>1. Inv => RangesAsDocumented
  <2>. SUFFICES ASSUME Inv, NEW n \in Lengths, NEW i \in DOMAIN rSel,
                       Documented(typed[i], n) # {}
                PROVE  Parsed(rSel[i], n) = Documented(typed[i], n)
    BY DEF RangesAsDocumented
  <2>1. PICK r, it : r = rSel[i] /\ it = typed[i]
    OBVIOUS
  <2>2. r \in range_select /\ it \in Items /\ ParsedAs(r, it)
    <3>1. i \in 1..Len(rSel) /\ i \in 1..Len(typed)
      BY DEF Inv, Types, ItemsParsed
    <3>. QED
      BY <2>1, <3>1 DEF Inv, Types, ItemsParsed
  <2>3. /\ it.from \in Nat /\ it.to \in Nat /\ n \in Nat
        /\ it.sep \in Separators \cup {NoModifier, "empty", "undocumented"}
    BY <2>2, NumbersAreNat DEF Items
  <2>4. PICK a \in Nat, b \in Nat : a = it.from /\ b = it.to
    BY <2>3
  <2>. DEFINE Typed(span) == Documented(it, n) = {p \in span : p < n}
              Got(o, l)   == r.offset = o /\ r.length = l
  <2>5. CASE it.sep = "empty"
    <3>1. Typed(0..(n - 1)) /\ Got(0, 0)
      BY <2>2, <2>5 DEF Documented, ParsedAs, NoModifier
    <3>. QED
      BY <2>1, <2>3, <3>1 DEF Parsed
  <2>6. CASE it.sep = NoModifier
    <3>1. Typed({a}) /\ Got(a, 1)
      BY <2>2, <2>4, <2>6 DEF Documented, ParsedAs, NoModifier
    <3>. QED
      BY <2>1, <2>3, <3>1 DEF Parsed
  <2>7. CASE it.sep = "-"
    <3>1. Typed(a..b) /\ Got(a, AtLeastZero(b - a + 1))
      BY <2>2, <2>4, <2>7 DEF Documented, ParsedAs, NoModifier
    <3>2. a <= b
      BY <2>1, <2>3, <3>1
    <3>. QED
      BY <2>1, <2>3, <3>1, <3>2 DEF Parsed, AtLeastZero
  <2>8. CASE it.sep \in {":", "+"}
    <3>1. Typed(a..(a + b - 1)) /\ Got(a, b)
      BY <2>2, <2>4, <2>8 DEF Documented, ParsedAs, NoModifier
    <3>2. b > 0
      BY <2>1, <2>3, <3>1
    <3>. QED
      BY <2>1, <2>3, <3>1, <3>2 DEF Parsed
  <2>9. CASE it.sep = "<"
    <3>1. Typed(a..(b - 1)) /\ Got(a, AtLeastZero(b - a))
      BY <2>2, <2>4, <2>9 DEF Documented, ParsedAs, NoModifier
    <3>2. a < b
      BY <2>1, <2>3, <3>1
    <3>. QED
      BY <2>1, <2>3, <3>1, <3>2 DEF Parsed, AtLeastZero
  <2>10. CASE it.sep = ">"
    <3>1. Typed((a + 1)..b) /\ Got(a + 1, AtLeastZero(b - a))
      BY <2>2, <2>4, <2>10 DEF Documented, ParsedAs, NoModifier
    <3>2. a < b
      BY <2>1, <2>3, <3>1
    <3>. QED
      BY <2>1, <2>3, <3>1, <3>2 DEF Parsed, AtLeastZero
  <2>11. CASE it.sep = "^"
    <3>1. Typed((a + 1)..(b - 1)) /\ Got(a + 1, AtLeastZero(b - (a + 1)))
      BY <2>2, <2>4, <2>11 DEF Documented, ParsedAs, NoModifier
    <3>2. a + 1 < b
      BY <2>1, <2>3, <3>1
    <3>. QED
      BY <2>1, <2>3, <3>1, <3>2 DEF Parsed, AtLeastZero
  <2>12. it.sep # "undocumented"
    BY <2>1 DEF Documented, NoModifier
  <2>. QED
    BY <2>3, <2>5, <2>6, <2>7, <2>8, <2>9, <2>10, <2>11, <2>12 DEF Separators
<1>. QED
  BY <1>1, Invariant, PTL

\* copyFields_Select and copyFields_Select_reverse read bytes of the packet section only.
THEOREM CopyStaysInside == Spec => []InsidePacket
<1>1. Inv => InsidePacket
  <2>. SUFFICES ASSUME Inv, NEW i \in DOMAIN written PROVE written[i] \in Positions
    BY DEF InsidePacket, Positions
  <2>. QED
    BY DEF Inv, Types
<1>. QED
  BY <1>1, Invariant, PTL

\* Both copies write the sections of the ranges one after another and stop exactly
\* when the list or the room ends: the hash input is a function of the selection.
THEOREM CopyIsSelection == Spec => []CopiesSelection
<1>1. Inv => CopiesSelection
  <2>. SUFFICES ASSUME Inv, stage \in {"copy", "done"}
                PROVE  /\ IsPrefix(written, Sections)
                       /\ Len(written) + bLen = size
                       /\ stage = "done" => Len(written) = Min2(size, Len(Sections))
    BY DEF CopiesSelection
  <2>1. /\ rSel \in Seq(range_select) /\ reverse \in BOOLEAN /\ packetLength \in Nat
        /\ k \in 1..Len(rSel) /\ bLen \in Nat /\ written \in Seq(Positions)
        /\ Len(written) + bLen = size
        /\ stage = "done" => bLen = 0 \/ k = Len(rSel)
    BY NumbersAreNat DEF Inv, Types, CopyAt
  <2>2. Parts \in Seq(Seq(Positions)) /\ Len(Parts) = Len(rSel)
    BY <2>1, PartsTyped
  <2>3. PICK f : Joins(f, Parts, Positions)
    BY <2>2, JoinExists, Zenon
  <2>4. Sections = f[Len(rSel)]
    <3>1. FlattenSeq(Parts) = f[Len(Parts)]
      BY <2>2, <2>3, FlattenJoins, Zenon
    <3>. QED
      BY <2>2, <3>1 DEF Sections, Parts
  <2>5. PICK j \in 0..Len(rSel) : j = IF stage = "copy" THEN k - 1 ELSE k
    BY <2>1
  <2>6. /\ Sections \in Seq(Positions)
        /\ Len(f[j]) \in Nat /\ Len(f[j]) <= Len(Sections)
        /\ \A x \in 1..Len(f[j]) : f[j][x] = Sections[x]
    <3>1. /\ f[j] \in Seq(Positions) /\ f[Len(Parts)] \in Seq(Positions)
          /\ Len(f[j]) <= Len(f[Len(Parts)])
          /\ \A x \in 1..Len(f[j]) : f[j][x] = f[Len(Parts)][x]
      BY <2>2, <2>3, JoinsGrow
    <3>. QED
      BY <2>2, <2>4, <3>1
  <2>7. Copied(f)
    BY <2>3 DEF Inv, CopyAt
  <2>8. Len(written) <= Len(f[j]) /\ \A x \in 1..Len(written) : written[x] = f[j][x]
    BY <2>1, <2>5, <2>7 DEF Copied
  <2>9. Len(written) \in Nat /\ Len(Sections) \in Nat /\ Len(written) <= Len(Sections)
    BY <2>1, <2>6, <2>8
  <2>10. \A x \in 1..Len(written) : written[x] = Sections[x]
    BY <2>6, <2>8, <2>9
  <2>11. SubSeq(written, 1, Len(written)) = SubSeq(Sections, 1, Len(written))
    BY <2>1, <2>6, <2>9, <2>10
  <2>12. IsPrefix(written, Sections)
    BY <2>9, <2>11 DEF IsPrefix
  <2>13. ASSUME stage = "done" PROVE Len(written) = Min2(size, Len(Sections))
    <3>1. CASE bLen = 0
      BY <2>1, <2>9, <3>1 DEF Min2
    <3>2. CASE bLen # 0
      <4>1. k = Len(rSel) /\ bLen > 0 /\ stage # "copy"
        BY <2>1, <2>13, <3>2
      <4>2. Len(written) = Len(Sections)
        BY <2>4, <2>7, <4>1 DEF Copied
      <4>. QED
        BY <2>1, <2>9, <4>1, <4>2 DEF Min2
    <3>. QED
      BY <3>1, <3>2
  <2>. QED
    BY <2>1, <2>12, <2>13
<1>. QED
  BY <1>1, Invariant, PTL
=============================================================================
