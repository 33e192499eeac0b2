------------------------------- MODULE Logger -------------------------------
(***************************************************************************)
(* The logger (logger.c): a level and two lists of expressions decide      *)
(* which functions' messages are written.  The lists only grow, and the    *)
(* string they are parsed from is cut by strtok at its first comma.        *)
(*                                                                         *)
(* An expression and a function's name are sequences of characters; a      *)
(* filter string is a sequence of tokens [minus, text].  Of the lists the  *)
(* members matter and not their order, so they are sets.                   *)
(***************************************************************************)
EXTENDS Integers, Sequences, SequencesExt

LOG_N_LEVELS == 6
LOGGER_LEVEL_WARN == 2

-----------------------------------------------------------------------------
(* is_logging                                                              *)

Asterix == "*"

Agree(f, s, n) == n <= Len(s) /\ \A j \in 1..n : f[j] = s[j]

\* Number of characters that f and s have in common from the start.
CommonStart(f, s) ==
  CHOOSE n \in 0..Len(f) : Agree(f, s, n) /\ \A m \in 0..Len(f) : Agree(f, s, m) => m <= n

\* Faulty variant: the end of the expression ends the comparison.
MatchesAt_NoEnd(f, s, k) ==
  LET t == SubSeq(s, k + 1, Len(s))
      i == CommonStart(f, t)
  IN  i = Len(f) \/ f[i + 1] = Asterix

\* The comparison with s from its k-th character on: it must reach an asterix,
\* or the ends of both.
MatchesAt(f, s, k) ==
  LET t == SubSeq(s, k + 1, Len(s))
      i == CommonStart(f, t)
  IN  \/ i < Len(f) /\ f[i + 1] = Asterix
      \/ i = Len(f) /\ i = Len(t)

\* An expression that begins with an asterix may match from any character on.
matches(f, s) ==
  \/ f = <<Asterix>>
  \/ IF f # << >> /\ f[1] = Asterix
     THEN \E k \in 0..Len(s) - 1 : MatchesAt(Tail(f), s, k)
     ELSE MatchesAt(f, s, 0)

is_filter(list, s) == \E f \in list : matches(f, s)

is_logging(log, s) ==
  /\ log.include = {} \/ is_filter(log.include, s)
  /\ ~is_filter(log.exclude, s)

\* Whether the function named s gets a message of this level written.
logger(log, level, s) == level <= log.level /\ is_logging(log, s)

-----------------------------------------------------------------------------
(* Operations                                                              *)

logger_set_level(level) == IF level > LOG_N_LEVELS THEN LOG_N_LEVELS - 1 ELSE level

Texts(tokens, minus) == {t.text : t \in {x \in tokens : x.minus = minus}}

\* The log with the tokens of its filter string added to the lists; of the string
\* only the first token is left.
logger_set_filter(log) ==
  LET tokens == ToSet(log.filter)
  IN  [log EXCEPT !.include = @ \cup Texts(tokens, FALSE),
                  !.exclude = @ \cup Texts(tokens, TRUE),
                  !.filter  = IF @ = << >> THEN @ ELSE <<Head(@)>>]

\* main's logger_init(LOGGER_LEVEL_WARN), with the defaults of -v.
logger_init == [level |-> LOGGER_LEVEL_WARN, include |-> {}, exclude |-> {},
                verbosity |-> 0, filter |-> << >>]

-----------------------------------------------------------------------------
(* Reference                                                               *)

\* "* matches anything; can be combined at start/end of expressions"
\* (doc/impd4e.1): an expression that has it nowhere else.
Documented(f) == \A i \in DOMAIN f : f[i] = Asterix => i \in {1, Len(f)}

\* Such an expression matches s if its text is the part of s from i to j, where
\* only an asterix lets the part begin later or end sooner than s does.
AsDocumented(f, s) ==
  LET open == f # << >> /\ f[1] = Asterix
      ends == f # << >> /\ f[Len(f)] = Asterix
      text == SubSeq(f, IF open THEN 2 ELSE 1, IF ends THEN Len(f) - 1 ELSE Len(f))
  IN  \E i, j \in 0..Len(s) :
        /\ text = SubSeq(s, i + 1, j)
        /\ open \/ i = 0
        /\ ends \/ j = Len(s)
=============================================================================
