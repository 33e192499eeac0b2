------------------------------ MODULE MCOptions ------------------------------
(***************************************************************************)
(* Small instances of Options: all command lines of up to four options     *)
(* from a set that has every kind of option.                               *)
(***************************************************************************)
EXTENDS Options

O(c, n, w) == [opt |-> c, num |-> n, word |-> w]

\* main.conf has an unknown key and includes more.conf; loop.conf includes itself.
MCFiles ==
  [f \in {"main.conf", "more.conf", "loop.conf"} |->
     CASE f = "main.conf" -> <<O("N", <<60>>, ""), O("i", << >>, "p"), O("y", << >>, ""),
                               O("c", << >>, "more.conf"), O("l", <<1, 2, 5>>, "")>>
       [] f = "more.conf" -> <<O("t", << >>, "ts"), O("M", <<3>>, ""), O("v", << >>, "ab,-*b")>>
       [] f = "loop.conf" -> <<O("i", << >>, "i"), O("c", << >>, "loop.conf")>>]

\* Arguments of -v, here in the form the user writes them.
MCExpressions ==
  LET Plus(f) == [minus |-> FALSE, text |-> f]
      Minus(f) == [minus |-> TRUE, text |-> f]
  IN  [w \in {"", "v", "v*,-ab", "*b*", "a*,b", "ab,-*b", "-*a"} |->
         CASE w = ""       -> [v |-> 0, tokens |-> << >>]
           [] w = "v"      -> [v |-> 1, tokens |-> << >>]
           [] w = "v*,-ab" -> [v |-> 1, tokens |-> <<Plus(<<"*">>), Minus(<<"a", "b">>)>>]
           [] w = "*b*"    -> [v |-> 0, tokens |-> <<Plus(<<"*", "b", "*">>)>>]
           [] w = "a*,b"   -> [v |-> 0, tokens |-> <<Plus(<<"a", "*">>), Plus(<<"b">>)>>]
           [] w = "ab,-*b" -> [v |-> 0, tokens |-> <<Plus(<<"a", "b">>), Minus(<<"*", "b">>)>>]
           [] w = "-*a"    -> [v |-> 0, tokens |-> <<Minus(<<"*", "a">>)>>]]

MCAddresses == {<<10, 0, 0, 1>>}
MCFunctionNames == BoundedSeq({"a", "b"}, 3) \ {<< >>}

DeviceOptions == {O("i", << >>, "i"), O("i", << >>, "q"), O("t", << >>, "lp"),
                  O("t", << >>, "bad"), O("N", <<100>>, "")}
RangeOptions  == {O("m", <<9>>, ""), O("r", <<30>>, ""), O("G", <<7>>, "")}
FileOptions   == {O("c", << >>, f) : f \in {"main.conf", "loop.conf", "none"}}
LogOptions    == {O("v", << >>, w) : w \in DOMAIN MCExpressions}
                   \cup {O("v", <<n>>, "") : n \in {0, 3, 7}}
OtherOptions  == {O("p", <<1>>, ""), O("h", << >>, ""), O("P", <<-1>>, ""),
                  O("o", <<7>>, ""), O("i", << >>, "s"), O("i", << >>, "u"),
                  O("L", <<3>>, ""), O("unknown", << >>, ""), O("4", << >>, ""),
                  O("d", <<1>>, "")}

MCCommandLines ==
  BoundedSeq(DeviceOptions \cup FileOptions \cup RangeOptions, 4)
    \cup BoundedSeq(LogOptions \cup {O("c", << >>, "main.conf")}, 3)
    \cup BoundedSeq(OtherOptions \cup FileOptions, 2)
=============================================================================
