----------------------------- MODULE RangeSelect -----------------------------
(***************************************************************************)
(* Byte selection of the hash input (-S): parseRange builds a list of      *)
(* ranges from the typed offset list, copyFields_Select and                *)
(* copyFields_Select_reverse copy those bytes of a packet section into the *)
(* hash buffer.  Bytes are represented by their positions.                 *)
(***************************************************************************)
EXTENDS Integers, Sequences, SequencesExt

CONSTANTS
  Numbers,    \* offsets and lengths a user may type
  MaxItems,   \* bound: items of the offset list
  MaxModifiers,  \* bound: range modifiers of one item
  Lengths,    \* lengths of the packet section
  BufferSizes \* hash_buffer.size

ASSUME RangeAssumption ==
  /\ Numbers \subseteq Nat
  /\ MaxItems \in Nat /\ MaxModifiers \in Nat
  /\ Lengths \subseteq Nat
  /\ BufferSizes \subseteq Nat \ {0}

VARIABLES
  stage,         \* "item" or "modifier" while parsing; "copy"; "done"
  typed,         \* history: the items as typed
  modifiers,     \* history: range modifiers of the last item
  rSel,          \* the list of range_select
  packetLength, size, reverse,  \* arguments of the copy
  k,             \* the range the copy is at
  bLen,          \* room left in the buffer
  written        \* positions copied so far

parseVars == <<typed, modifiers, rSel>>
copyVars == <<packetLength, size, reverse, k, bLen, written>>
vars == <<stage, parseVars, copyVars>>

Separators == {"-", ":", "+", "<", ">", "^"}
NoModifier == "none"
\* An item as typed: a number, one modifier with its number, nothing at all, or
\* what the manual does not have: several modifiers, or one without an offset.
Items == [from : Numbers \cup {0},
          sep : Separators \cup {NoModifier, "empty", "undocumented"},
          to : Numbers \cup {0}]

AtLeastZero(n) == IF n < 0 THEN 0 ELSE n
Min2(a, b) == IF a < b THEN a ELSE b

-----------------------------------------------------------------------------
\* parseRange, start of an item: a new list element.  Nothing typed selects from
\* offset 0 to the end (length 0), a number one byte.
ParseItem(value, empty) ==
  /\ stage = "item"
  /\ empty => value = 0
  /\ rSel' = Append(rSel, [offset |-> value, length |-> IF empty THEN 0 ELSE 1])
  /\ typed' = Append(typed, [from |-> value, sep |-> IF empty THEN "empty" ELSE NoModifier,
                             to |-> 0])
  /\ modifiers' = 0
  /\ stage' = "modifier"
  /\ UNCHANGED copyVars

\* Faulty variant: "<" keeps the right border.
Modified_Inclusive(r, sep, value) ==
  CASE sep \in {"-", "<"} -> [r EXCEPT !.length = value - r.offset + 1]
    [] sep \in {":", "+"} -> [r EXCEPT !.length = value]
    [] sep = ">" -> [r EXCEPT !.length = value - r.offset, !.offset = r.offset + 1]
    [] sep = "^" -> [r EXCEPT !.length = value - (r.offset + 1), !.offset = r.offset + 1]

\* The element after a range modifier and its number.
Modified(r, sep, value) ==
  CASE sep = "-" -> [r EXCEPT !.length = value - r.offset + 1]
    [] sep \in {":", "+"} -> [r EXCEPT !.length = value]
    [] sep = "<" -> [r EXCEPT !.length = value - r.offset]
    [] sep = ">" -> [r EXCEPT !.length = value - r.offset, !.offset = r.offset + 1]
    [] sep = "^" -> [r EXCEPT !.length = value - (r.offset + 1), !.offset = r.offset + 1]

\* The element the modifier applies to.  atoi reads "+4" as 4: an item of which
\* nothing was typed before the "+" has the length for its offset, too.
Unmodified(n, sep, value) ==
  IF sep = "+" /\ typed[n].sep = "empty" THEN [rSel[n] EXCEPT !.offset = value] ELSE rSel[n]

\* A modifier and its number, 0 if none is typed.  A negative length becomes 0.
\* Further modifiers apply to what the ones before have made of the element.
ParseModifier(sep, value) ==
  LET n == Len(rSel)
      r == Modified(Unmodified(n, sep, value), sep, value)
  IN  /\ stage = "modifier" /\ modifiers < MaxModifiers
      /\ rSel' = [rSel EXCEPT ![n] = [r EXCEPT !.length = AtLeastZero(r.length)]]
      /\ typed' = [typed EXCEPT
                     ![n].sep = IF typed[n].sep = NoModifier THEN sep ELSE "undocumented",
                     ![n].to = value]
      /\ modifiers' = modifiers + 1
      /\ UNCHANGED <<stage, copyVars>>

ParseComma ==
  /\ stage = "modifier" /\ Len(rSel) < MaxItems
  /\ stage' = "item"
  /\ UNCHANGED <<parseVars, copyVars>>

\* The end of the list; a packet arrives.
CopyBegin(len, sz, rev) ==
  /\ stage = "modifier"
  /\ stage' = "copy"
  /\ packetLength' = len /\ size' = sz /\ reverse' = rev
  /\ k' = 1 /\ bLen' = sz /\ written' = << >>
  /\ UNCHANGED parseVars

\* Faulty variant: a typed length is not cut at the end of the packet.
Wanted_Uncut(r) ==
  IF r.length = 0 THEN IF reverse THEN r.offset ELSE packetLength - r.offset ELSE r.length

\* How many bytes range r contributes, before the buffer limits it.
Wanted(r) ==
  LET most == IF reverse THEN r.offset ELSE packetLength - r.offset
  IN  IF r.length = 0 THEN most ELSE Min2(most, r.length)

OutOfRange(r) ==
  IF reverse THEN packetLength < r.offset ELSE packetLength - r.offset <= 0

\* Where the copy of range r starts.
Start(r) == IF reverse THEN packetLength - r.offset ELSE r.offset

\* Faulty variant: the room left is not reduced.
CopyRange_KeepsRoom ==
  LET r     == rSel[k]
      write == IF OutOfRange(r) THEN 0 ELSE Min2(Wanted(r), bLen)
  IN  /\ stage = "copy"
      /\ written' = written \o [i \in 1..write |-> Start(r) + i - 1]
      /\ IF k < Len(rSel) THEN k' = k + 1 /\ UNCHANGED stage
                          ELSE stage' = "done" /\ UNCHANGED k
      /\ UNCHANGED <<parseVars, packetLength, size, reverse, bLen>>

\* One iteration of copyFields_Select or copyFields_Select_reverse.
CopyRange ==
  LET r     == rSel[k]
      write == IF OutOfRange(r) THEN 0 ELSE Min2(Wanted(r), bLen)
  IN  /\ stage = "copy"
      /\ written' = written \o [i \in 1..write |-> Start(r) + i - 1]
      /\ bLen' = bLen - write
      /\ IF 0 < bLen - write /\ k < Len(rSel)
         THEN k' = k + 1 /\ UNCHANGED stage
         ELSE stage' = "done" /\ UNCHANGED k
      /\ UNCHANGED <<parseVars, packetLength, size, reverse>>

Init ==
  /\ stage = "item"
  /\ typed = << >> /\ modifiers = 0 /\ rSel = << >>
  /\ packetLength = 0 /\ size = 0 /\ reverse = FALSE
  /\ k = 1 /\ bLen = 0 /\ written = << >>

Next ==
  \/ \E v \in Numbers \cup {0}, e \in BOOLEAN : ParseItem(v, e)
  \/ \E s \in Separators, v \in Numbers \cup {0} : ParseModifier(s, v)
  \/ ParseComma
  \/ \E len \in Lengths, sz \in BufferSizes, rev \in BOOLEAN : CopyBegin(len, sz, rev)
  \/ CopyRange

Spec == Init /\ [][Next]_vars

-----------------------------------------------------------------------------
(* Properties                                                              *)

\* Types of the parser's and the copy's state.
TypeOK ==
  /\ stage \in {"item", "modifier", "copy", "done"}
  /\ typed \in Seq(Items) /\ modifiers \in 0..MaxModifiers
  /\ rSel \in Seq([offset : Nat, length : Nat])
  /\ packetLength \in Lengths \cup {0} /\ size \in BufferSizes \cup {0}
  /\ reverse \in BOOLEAN
  /\ k \in Nat /\ bLen \in Nat
  /\ written \in Seq(Nat)

\* Positions an item stands for according to the manual (doc/impd4e.1) in a
\* section of n bytes; none for what the manual does not have.
Documented(it, n) ==
  LET a == it.from
      b == it.to
      span == CASE it.sep = "empty"      -> 0..(n - 1)
                [] it.sep = NoModifier   -> {a}
                [] it.sep = "-"          -> a..b
                [] it.sep = "^"          -> (a + 1)..(b - 1)
                [] it.sep = "<"          -> a..(b - 1)
                [] it.sep = ">"          -> (a + 1)..b
                [] it.sep \in {"+", ":"} -> a..(a + b - 1)
                [] it.sep = "undocumented" -> {}
  IN  {p \in span : p < n}

\* Positions the parsed range stands for when it is copied forwards.
Parsed(r, n) ==
  {p \in 0..(n - 1) : r.offset <= p /\ (r.length = 0 \/ p < r.offset + r.length)}

\* An item of the manual's form that selects something in the section is parsed as
\* documented.  Nothing is said of a range without bytes (5-3 or 4+0), whose
\* length 0 the copy takes for "to the end", nor of undocumented items.
RangesAsDocumented ==
  \A n \in Lengths, i \in DOMAIN rSel :
    Documented(typed[i], n) # {}
      => Parsed(rSel[i], n) = Documented(typed[i], n)

\* Reference for a finished copy: the sections of the ranges one after another.
Section(r) == [j \in 1..(IF OutOfRange(r) THEN 0 ELSE Wanted(r)) |-> Start(r) + j - 1]
Sections == FlattenSeq([i \in DOMAIN rSel |-> Section(rSel[i])])

\* The copy is the longest prefix of the selection that fits, so the hash depends
\* on the selection alone, and the room left is what was not written.
CopiesSelection ==
  stage \in {"copy", "done"} =>
    /\ IsPrefix(written, Sections)
    /\ Len(written) + bLen = size
    /\ stage = "done" => Len(written) = Min2(size, Len(Sections))

\* Both directions copy bytes of the packet section only.
InsidePacket == \A i \in DOMAIN written : written[i] \in 0..(packetLength - 1)
=============================================================================
