------------------------------ MODULE Selection ------------------------------
(***************************************************************************)
(* The hash selection range of the probe: options_t.sel_range_min and      *)
(* sel_range_max, and the three functions of settings.c that change them.  *)
(* A packet is selected when its hash lies in the range, borders included. *)
(***************************************************************************)
EXTENDS Integers

CONSTANTS
  UINT32_MAX,  \* largest value of a uint32_t; scaled down for model checking
  RANGE_MIN    \* the literal 0x19999999: the upper end of the first 10% slice

ASSUME SelectionAssumption ==
  /\ UINT32_MAX \in Nat
  /\ RANGE_MIN \in 0..UINT32_MAX

\* The values of a uint32_t and how many there are.
UInt32 == 0..UINT32_MAX
U32    == UINT32_MAX + 1

\* The pair (sel_range_min, sel_range_max).
Range32 == [min : UInt32, max : UInt32]

\* set_defaults_options: the range starts as the second 10% slice.
DefaultRange(top) == [min |-> RANGE_MIN, max |-> top]

-----------------------------------------------------------------------------
\* strtoll yields a signed 64-bit value; both setters saturate it to uint32_t.
Saturate(value) ==
  IF value > UINT32_MAX THEN UINT32_MAX
  ELSE IF value < 0 THEN 0 ELSE value

\* Faulty variant: the upper bound stays where it is.
set_sampling_lowerbound_NoDrag(r, value) == [min |-> Saturate(value), max |-> r.max]

\* -m: the lower bound is set and drags the upper bound up when it passes it.
set_sampling_lowerbound(r, value) ==
  LET lo == Saturate(value)
  IN  [min |-> lo, max |-> IF r.max < lo THEN lo ELSE r.max]

\* Faulty variant: a lower bound in the way is reset instead of dragged.
set_sampling_upperbound_Reset(r, value) ==
  LET hi == Saturate(value)
  IN  [min |-> IF hi < r.min THEN 0 ELSE r.min, max |-> hi]

\* -M: the upper bound is set and drags the lower bound down.
set_sampling_upperbound(r, value) ==
  LET hi == Saturate(value)
  IN  [min |-> IF hi < r.min THEN hi ELSE r.min, max |-> hi]

\* -r: share is UINT32_MAX / 100 * ratio after its conversion to uint32_t, so
\* every uint32_t is possible (an out-of-range double converts to any of them).
\* The sum is a uint32_t addition.
set_sampling_ratio(share) ==
  IF UINT32_MAX - share > RANGE_MIN
  THEN [min |-> RANGE_MIN, max |-> (share + RANGE_MIN) % U32]
  ELSE [min |-> UINT32_MAX - share, max |-> UINT32_MAX]

\* handle_ip_packet's test of the hash id.
InRange(r, hash_id) == r.min <= hash_id /\ r.max >= hash_id
=============================================================================
