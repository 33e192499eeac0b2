------------------------------- MODULE Dispatch -------------------------------
(***************************************************************************)
(* What packet_watcher_cb and a dispatch function promise of one device,   *)
(* whatever its type: packets reach handle_packet only inside a callback   *)
(* of an open device, at most PCAP_DISPATCH_PACKET_COUNT of them per       *)
(* callback, and a device whose dispatch function has failed never         *)
(* delivers again.  Capture implements it for every device type; the       *)
(* guards of Probe's Received and DispatchBegin are taken from it.         *)
(***************************************************************************)
EXTENDS Integers

CONSTANT PCAP_DISPATCH_PACKET_COUNT

VARIABLES
  device,  \* "closed", "open" or, when it will never be read again, "dead"
  left,    \* packets this callback may still deliver, -1 outside a callback
  count    \* packets delivered to handle_packet

vars == <<device, left, count>>

Open ==
  /\ device = "closed"
  /\ device' \in {"open", "dead"}
  /\ UNCHANGED <<left, count>>

Begin ==
  /\ device = "open" /\ left = -1
  /\ left' = PCAP_DISPATCH_PACKET_COUNT
  /\ UNCHANGED <<device, count>>

Packet ==
  /\ left > 0
  /\ left' = left - 1
  /\ count' = count + 1
  /\ UNCHANGED device

Return ==
  /\ left >= 0
  /\ left' = -1
  /\ UNCHANGED <<device, count>>

Error ==
  /\ left > 0
  /\ left' = -1
  /\ device' = "dead"
  /\ UNCHANGED count

Init ==
  /\ device \in {"closed", "open"}
  /\ left = -1
  /\ count = 0

Next == Open \/ Begin \/ Packet \/ Return \/ Error

Spec == Init /\ [][Next]_vars
===============================================================================
