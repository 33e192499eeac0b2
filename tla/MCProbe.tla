------------------------------- MODULE MCProbe -------------------------------
(***************************************************************************)
(* Small instances of Probe.                                               *)
(***************************************************************************)
EXTENDS Probe

\* -I and -K both on or both off; -G 0, a timer that fires once.
OnOrOff == {[pktid |-> n, sampling |-> n, stats |-> 1, location |-> 0] : n \in 0..1}
\* I arms and stops the packet timer, K stops the interface-statistics timer.
MCTimeouts == [I |-> {0, 1}, J |-> {}, K |-> {0}]
None == {}
=============================================================================
