----------------------------- MODULE Accounting -----------------------------
(***************************************************************************)
(* What the metering probe promises about its packet accounting: every     *)
(* packet a device sees is counted once, and a report brings what has been *)
(* handed to the exporter for a device up to what the device has seen.     *)
(* No report is partial, none repeats packets of an earlier one.           *)
(***************************************************************************)
EXTENDS Naturals

CONSTANT Devices

VARIABLES
  observed,  \* packets each device has seen
  reported   \* packets covered by the device's reports so far

accVars == <<observed, reported>>

Init ==
  /\ observed = [d \in Devices |-> 0]
  /\ reported = [d \in Devices |-> 0]

Observe(d) ==
  /\ observed' = [observed EXCEPT ![d] = @ + 1]
  /\ UNCHANGED reported

\* One report may cover several devices.
Report(S) ==
  /\ reported' = [d \in Devices |-> IF d \in S THEN observed[d] ELSE reported[d]]
  /\ UNCHANGED observed

Next ==
  \/ \E d \in Devices : Observe(d)
  \/ \E S \in SUBSET Devices : Report(S)

Spec == Init /\ [][Next]_accVars
=============================================================================
