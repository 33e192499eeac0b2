------------------------------ MODULE MCConfig ------------------------------
(***************************************************************************)
(* Small instance of RuntimeConfig: a 0..49 hash space with the default    *)
(* range 5..10, inputs on both sides of every clamp and of the 90% switch. *)
(***************************************************************************)
EXTENDS RuntimeConfig

MCBounds == {-1, 0, 3, 30, 49, 60}
MCShares == {0, 1, 25, 43, 44, 45, 49}
MCStartIntervals == {[t \in Timers |-> n] : n \in 0..1}
MCTimeouts == [c \in {"I", "J", "K"} |-> {-1, 0, 2}]
=============================================================================
