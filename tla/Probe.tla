-------------------------------- MODULE Probe --------------------------------
(***************************************************************************)
(* The metering process of impd4e: one libev loop that runs the packet     *)
(* watcher of every device, the four export timers, the user's commands    *)
(* and the interrupt signal, around the record cache of libipfix.          *)
(*                                                                         *)
(* Callbacks are atomic with respect to each other (the loop is single     *)
(* threaded).  A packet callback is split into one step per packet that    *)
(* dispatch() delivers, so the properties also hold inside a batch.        *)
(*                                                                         *)
(* libipfix is external: an export adds a record to its cache or fails; a  *)
(* flush sends the cache, or fails and keeps or loses it.                  *)
(***************************************************************************)
EXTENDS RuntimeConfig, FiniteSets

CONSTANTS
  Hashes,              \* hash ids that packets may have
  ExportPacketCount,   \* g_options.export_packet_count (-e)
  PCAP_DISPATCH_PACKET_COUNT,  \* packets per callback
  MaxPackets,          \* bound: packets each device ever sees
  NoDevice             \* no dispatch() is running

ASSUME ProbeAssumption ==
  /\ Hashes \subseteq UInt32
  /\ ExportPacketCount \in UInt32
  /\ PCAP_DISPATCH_PACKET_COUNT \in Nat \ {0}
  /\ MaxPackets \in Nat
  /\ NoDevice \notin Devices

VARIABLES
  status,    \* "running"; "unlooping" after SIGINT; "shutdown"; "exited"
  cur,       \* the device whose dispatch() is running, or NoDevice
  left,      \* packets dispatch() may still deliver in this callback
  watcher,   \* device has an active packet watcher
  \* device_dev_t
  sampling_size, sampling_delta_count, totalpacketcount,
  export_packet_count, packets_dropped,
  \* libipfix and the collector, per device: packet records (pkts) and the
  \* sums of the interface-statistics records (size, delta)
  cache, collector, lost,
  \* history, read by properties only
  selected,  \* packets whose hash was in the range
  wraps,     \* how often sampling_size has overflowed
  failed     \* some export or flush has failed

devVars  == <<sampling_size, sampling_delta_count, totalpacketcount,
              export_packet_count, packets_dropped>>
ipfixVars == <<cache, collector, lost, failed>>
histVars == <<selected, wraps>>
vars == <<cfgVars, status, cur, left, watcher, devVars, ipfixVars, histVars>>

-----------------------------------------------------------------------------
\* Contents of a cache, per device.
Content == [pkts : Nat, size : Nat, delta : Nat]
Nothing == [d \in Devices |-> [pkts |-> 0, size |-> 0, delta |-> 0]]
Plus(a, b) == [d \in Devices |-> [pkts  |-> a[d].pkts + b[d].pkts,
                                  size  |-> a[d].size + b[d].size,
                                  delta |-> a[d].delta + b[d].delta]]

\* ipfix_export_flush when the cache holds c.  "kept" and "lost" return -1,
\* which every caller only logs.  ok is the result of the export before it.
FlushOutcomes == {"sent", "kept", "lost"}
Flush(c, ok, out) ==
  /\ cache'     = IF out = "kept" THEN c ELSE Nothing
  /\ collector' = IF out = "sent" THEN Plus(collector, c) ELSE collector
  /\ lost'      = IF out = "lost" THEN Plus(lost, c) ELSE lost
  /\ failed'    = (failed \/ ~ok \/ out # "sent")

\* No flush: the cache becomes c; ok is the result of ipfix_export_array.
Cache(c, ok) ==
  /\ cache' = c
  /\ failed' = (failed \/ ~ok)
  /\ UNCHANGED <<collector, lost>>

\* The loop calls callbacks one at a time, also those pending after ev_unloop.
Idle == status \in {"running", "unlooping"} /\ cur = NoDevice

-----------------------------------------------------------------------------
(* packet_handler.c                                                        *)

\* packet_watcher_cb calls dispatch.
DispatchBegin(d) ==
  /\ Idle /\ watcher[d]
  /\ cur' = d
  /\ left' = PCAP_DISPATCH_PACKET_COUNT
  /\ UNCHANGED <<cfgVars, status, watcher, devVars, ipfixVars, histVars>>

\* dispatch returns the number of packets it has delivered.
DispatchReturn ==
  /\ cur # NoDevice
  /\ cur' = NoDevice
  /\ left' = 0
  /\ UNCHANGED <<cfgVars, status, watcher, devVars, ipfixVars, histVars>>

\* dispatch fails, possibly after some packets: the watcher is deregistered.
DispatchError ==
  /\ cur # NoDevice /\ left > 0
  /\ watcher' = [watcher EXCEPT ![cur] = FALSE]
  /\ cur' = NoDevice
  /\ left' = 0
  /\ UNCHANGED <<cfgVars, status, devVars, ipfixVars, histVars>>

\* handle_packet's own part: both counters, for every packet.
Received ==
  /\ cur # NoDevice /\ left > 0
  /\ totalpacketcount[cur] < MaxPackets
  /\ left' = left - 1
  /\ sampling_delta_count' = [sampling_delta_count EXCEPT ![cur] = @ + 1]
  /\ totalpacketcount' = [totalpacketcount EXCEPT ![cur] = @ + 1]
  /\ UNCHANGED <<cfgVars, status, cur, watcher>>

\* Not IP (handle_default_packet), or IP without any byte of the selection.
HandleUnhashed ==
  /\ Received
  /\ UNCHANGED <<sampling_size, export_packet_count, packets_dropped,
                 ipfixVars, selected, wraps>>

\* handle_ip_packet, hash outside the range.
HandleDropped(h) ==
  /\ Received
  /\ ~InRange(range, h)
  /\ packets_dropped' = [packets_dropped EXCEPT ![cur] = (@ + 1) % U32]
  /\ UNCHANGED <<sampling_size, export_packet_count, ipfixVars, selected, wraps>>

\* handle_ip_packet, hash in the range: both 32-bit counters are incremented.
Selected(h) ==
  /\ Received
  /\ InRange(range, h)
  /\ sampling_size' = [sampling_size EXCEPT ![cur] = (@ + 1) % U32]
  /\ selected' = [selected EXCEPT ![cur] = @ + 1]
  /\ wraps' = [wraps EXCEPT ![cur] = IF sampling_size[cur] = UINT32_MAX THEN @ + 1 ELSE @]

\* Faulty variant: a counter that does not wrap.
Counted_Wide == export_packet_count[cur] + 1

Counted == (export_packet_count[cur] + 1) % U32

\* ... and -I 0 returns before anything is exported.
HandleSelectedOnly(h) ==
  /\ Selected(h)
  /\ interval["pktid"] = 0
  /\ export_packet_count' = [export_packet_count EXCEPT ![cur] = Counted]
  /\ UNCHANGED <<packets_dropped, ipfixVars>>

\* The cache after the packet record of cur.
WithRecord(ok) == IF ok THEN [cache EXCEPT ![cur].pkts = @ + 1] ELSE cache

\* Faulty variant: the cache is flushed one record too late.
HandleExported_Late(h) ==
  /\ Selected(h)
  /\ interval["pktid"] > 0
  /\ packets_dropped' = [packets_dropped EXCEPT ![cur] = 0]
  /\ \E ok \in BOOLEAN :
       \/ /\ Counted <= ExportPacketCount
          /\ export_packet_count' = [export_packet_count EXCEPT ![cur] = Counted]
          /\ Cache(WithRecord(ok), ok)
       \/ /\ Counted > ExportPacketCount
          /\ export_packet_count' = [export_packet_count EXCEPT ![cur] = 0]
          /\ \E out \in FlushOutcomes : Flush(WithRecord(ok), ok, out)

\* ... or a record is exported and the cache flushed at the -e threshold.
HandleExported(h) ==
  /\ Selected(h)
  /\ interval["pktid"] > 0
  /\ packets_dropped' = [packets_dropped EXCEPT ![cur] = 0]
  /\ \E ok \in BOOLEAN :
       \/ /\ Counted < ExportPacketCount
          /\ export_packet_count' = [export_packet_count EXCEPT ![cur] = Counted]
          /\ Cache(WithRecord(ok), ok)
       \/ /\ Counted >= ExportPacketCount
          /\ export_packet_count' = [export_packet_count EXCEPT ![cur] = 0]
          /\ \E out \in FlushOutcomes : Flush(WithRecord(ok), ok, out)

HandlePacket ==
  \/ HandleUnhashed
  \/ \E h \in Hashes : HandleDropped(h) \/ HandleSelectedOnly(h) \/ HandleExported(h)

-----------------------------------------------------------------------------
(* export_handler.c                                                        *)

\* libev calls the callback of an active timer; a one-shot timer stops.
Expire(t) ==
  /\ Idle /\ timer[t].active
  /\ timer' = [timer EXCEPT ![t] = TimerExpired(@)]
  /\ UNCHANGED <<interval, range, templateID, template_id, filter, rsp,
                 status, cur, left, watcher, totalpacketcount,
                 export_packet_count, packets_dropped, selected, wraps>>

\* Faulty variant: the timer does not flush.
export_timer_pktid_cb_NoFlush ==
  /\ Expire("pktid")
  /\ UNCHANGED <<ipfixVars, sampling_size, sampling_delta_count>>

\* Flushes without touching the devices' export_packet_count.
export_timer_pktid_cb ==
  /\ Expire("pktid")
  /\ \E out \in FlushOutcomes : Flush(cache, TRUE, out)
  /\ UNCHANGED <<sampling_size, sampling_delta_count>>

\* export_data_interface_stats for the devices S whose export succeeds: the
\* counters are cached as one record and reset.
WithStats(S) ==
  [d \in Devices |->
     IF d \in S THEN [pkts  |-> cache[d].pkts,
                     size  |-> cache[d].size + sampling_size[d],
                     delta |-> cache[d].delta + sampling_delta_count[d]]
     ELSE cache[d]]

\* Faulty variants: counters are reset although their export failed; only one of
\* the two counters is reset.
ResetSampling_All(S) ==
  /\ sampling_size' = [d \in Devices |-> 0]
  /\ sampling_delta_count' = [d \in Devices |-> 0]
ResetSampling_DeltaOnly(S) ==
  /\ sampling_delta_count' = [d \in Devices |-> IF d \in S THEN 0 ELSE sampling_delta_count[d]]
  /\ UNCHANGED sampling_size

ResetSampling(S) ==
  /\ sampling_size' = [d \in Devices |-> IF d \in S THEN 0 ELSE sampling_size[d]]
  /\ sampling_delta_count' = [d \in Devices |-> IF d \in S THEN 0 ELSE sampling_delta_count[d]]

\* Faulty variant: devices without selected packets are skipped.
export_timer_sampling_cb_OnlySelected ==
  LET Busy == {d \in Devices : sampling_size[d] > 0}
  IN  /\ Expire("sampling")
      /\ \E S \in SUBSET Busy, out \in FlushOutcomes :
           /\ ResetSampling(S)
           /\ Flush(WithStats(S), S = Busy, out)

export_timer_sampling_cb ==
  /\ Expire("sampling")
  /\ \E S \in SUBSET Devices, out \in FlushOutcomes :
       /\ ResetSampling(S)
       /\ Flush(WithStats(S), S = Devices, out)

\* A probe statistics or location record, followed by a flush if it succeeds.
\* The record itself is not counted.
ExportAndFlush ==
  \/ Cache(cache, FALSE)
  \/ \E out \in FlushOutcomes : Flush(cache, TRUE, out)

export_timer_stats_cb ==
  /\ Expire("stats") /\ ExportAndFlush
  /\ UNCHANGED <<sampling_size, sampling_delta_count>>

export_timer_location_cb ==
  /\ Expire("location") /\ ExportAndFlush
  /\ UNCHANGED <<sampling_size, sampling_delta_count>>

-----------------------------------------------------------------------------
(* config_handler.c, ev_handler.c and main.c                               *)

Command ==
  /\ Idle
  /\ user_input_cb
  /\ UNCHANGED <<status, cur, left, watcher, devVars, ipfixVars, histVars>>

\* "exit" or "quit": exit(0) inside the callback, the cache dies with it.
UserExit ==
  /\ Idle
  /\ status' = "exited"
  /\ lost' = Plus(lost, cache)
  /\ cache' = Nothing
  /\ UNCHANGED <<cfgVars, cur, left, watcher, devVars, collector, failed, histVars>>

\* ev_unloop: callbacks already pending still run before the loop returns.
sigint_cb ==
  /\ Idle /\ status = "running"
  /\ status' = "unlooping"
  /\ UNCHANGED <<cfgVars, cur, left, watcher, devVars, ipfixVars, histVars>>

\* Faulty variants: closing without a flush; waiting until no device is watched.
impd4e_shutdown_NoFlush ==
  /\ Idle /\ status = "unlooping"
  /\ status' = "shutdown"
  /\ lost' = Plus(lost, cache)
  /\ cache' = Nothing
  /\ UNCHANGED <<cfgVars, cur, left, watcher, devVars, collector, failed, histVars>>
impd4e_shutdown_Waits ==
  /\ Idle /\ status = "unlooping"
  /\ \A d \in Devices : ~watcher[d]
  /\ status' = "shutdown"
  /\ \E out \in {"sent", "lost"} : Flush(cache, TRUE, out)
  /\ UNCHANGED <<cfgVars, cur, left, watcher, devVars, histVars>>

\* The loop has returned: flush, then close and clean up libipfix, after which
\* nothing can stay in its cache.
impd4e_shutdown ==
  /\ Idle /\ status = "unlooping"
  /\ status' = "shutdown"
  /\ \E out \in {"sent", "lost"} : Flush(cache, TRUE, out)
  /\ UNCHANGED <<cfgVars, cur, left, watcher, devVars, histVars>>

-----------------------------------------------------------------------------
Init ==
  /\ ConfigInit
  /\ status = "running"
  /\ cur = NoDevice
  /\ left = 0
  /\ watcher = [d \in Devices |-> TRUE]
  /\ sampling_size = [d \in Devices |-> 0]
  /\ sampling_delta_count = [d \in Devices |-> 0]
  /\ totalpacketcount = [d \in Devices |-> 0]
  /\ export_packet_count = [d \in Devices |-> 0]
  /\ packets_dropped = [d \in Devices |-> 0]
  /\ cache = Nothing /\ collector = Nothing /\ lost = Nothing
  /\ selected = [d \in Devices |-> 0]
  /\ wraps = [d \in Devices |-> 0]
  /\ failed = FALSE

Next ==
  \/ \E d \in Devices : DispatchBegin(d)
  \/ DispatchReturn
  \/ DispatchError
  \/ HandlePacket
  \/ export_timer_pktid_cb
  \/ export_timer_sampling_cb
  \/ export_timer_stats_cb
  \/ export_timer_location_cb
  \/ Command
  \/ UserExit
  \/ sigint_cb
  \/ impd4e_shutdown

Spec == Init /\ [][Next]_vars

\* A callback returns.  libev reifies expired timers in every iteration, so a
\* timer that stays active is served although packet callbacks come between;
\* and it leaves the loop after the callbacks that were pending at ev_unloop.
\* No failure is forced: a timer with nothing to send may go on without effect.
Fairness ==
  /\ WF_vars(DispatchReturn)
  /\ SF_vars(export_timer_pktid_cb /\ failed' = failed)
  /\ SF_vars(export_timer_sampling_cb /\ failed' = failed)
  /\ SF_vars(impd4e_shutdown)

FairSpec == Spec /\ Fairness

-----------------------------------------------------------------------------
(* Properties                                                              *)

\* Types of the whole state.
TypeOK ==
  /\ ConfigTypeOK
  /\ status \in {"running", "unlooping", "shutdown", "exited"}
  /\ cur \in Devices \cup {NoDevice}
  /\ left \in 0..PCAP_DISPATCH_PACKET_COUNT
  /\ watcher \in [Devices -> BOOLEAN]
  /\ sampling_size \in [Devices -> UInt32]
  /\ sampling_delta_count \in [Devices -> Nat]
  /\ totalpacketcount \in [Devices -> Nat]
  /\ export_packet_count \in [Devices -> UInt32]
  /\ packets_dropped \in [Devices -> UInt32]
  /\ cache \in [Devices -> Content]
  /\ collector \in [Devices -> Content]
  /\ lost \in [Devices -> Content]
  /\ selected \in [Devices -> Nat]
  /\ wraps \in [Devices -> Nat]
  /\ failed \in BOOLEAN

\* What has left device d for libipfix, wherever it is now.
HandedOver(d) == [pkts  |-> cache[d].pkts + collector[d].pkts + lost[d].pkts,
                  size  |-> cache[d].size + collector[d].size + lost[d].size,
                  delta |-> cache[d].delta + collector[d].delta + lost[d].delta]

\* Every packet is in exactly one interface-statistics record or still in the
\* device's counter, through failed exports, flushes and shutdown: the counters
\* are reset only when their values were accepted (export_data_interface_stats).
DeltaConserved ==
  \A d \in Devices : HandedOver(d).delta + sampling_delta_count[d] = totalpacketcount[d]

\* The same for selected packets, up to the overflow of the 32-bit counter.
SizeConserved ==
  \A d \in Devices :
    HandedOver(d).size + sampling_size[d] + wraps[d] * U32 = selected[d]

\* A statistics record never claims more selected than seen packets.
SampleWithinDelta ==
  \A d \in Devices : sampling_size[d] <= sampling_delta_count[d]

\* -e bounds what waits in the cache: a device's counter stays below the
\* threshold and, until a flush fails, covers all of its cached records, although
\* timers and other devices flush without resetting it.
ExportBufferBound ==
  \A d \in Devices :
    /\ interval["pktid"] > 0 /\ ExportPacketCount > 0
         => export_packet_count[d] < ExportPacketCount
    /\ ~failed => cache[d].pkts <= export_packet_count[d]

\* Unless something failed, every selected packet has exactly one record, and an
\* orderly shutdown has delivered all of them.
RecordsComplete ==
  ~failed /\ interval["pktid"] > 0 =>
    \A d \in Devices :
      /\ HandedOver(d).pkts = selected[d]
      /\ status = "shutdown" => collector[d].pkts = selected[d]

\* Records are lost only after a failed flush or by "exit"/"quit".
LossExplained ==
  lost # Nothing => failed \/ status = "exited"

\* With -I 0 no packet record is ever exported, also when a later I command arms
\* the packet timer: handle_ip_packet looks at the option, not at the timer.
NoRecordsWhenOff ==
  interval["pktid"] = 0 => \A d \in Devices : HandedOver(d).pkts = 0

\* No record appears or disappears without a cause: exactly one for each selected
\* packet as long as nothing fails, none under -I 0, and lost only where a flush
\* failed or the user quit.
RecordsAccounted == RecordsComplete /\ NoRecordsWhenOff /\ LossExplained

\* The accounting the collector relies on.
Acc == INSTANCE Accounting WITH
         observed <- totalpacketcount,
         reported <- [d \in Devices |-> HandedOver(d).delta]
AccountingSpec == Acc!Spec

Stopped == status \in {"shutdown", "exited"}

\* While the packet timer is armed, cached records do not wait for the -e
\* threshold for ever.
CachedIsFlushed ==
  \A d \in Devices :
    cache[d].pkts > 0 /\ timer["pktid"].active
      ~> cache[d].pkts = 0 \/ failed \/ Stopped \/ ~timer["pktid"].active

\* While the sampling timer is armed, a device's packets reach a report.
SeenIsReported ==
  \A d \in Devices :
    sampling_delta_count[d] > 0 /\ timer["sampling"].active
      ~> sampling_delta_count[d] = 0 \/ failed \/ Stopped \/ ~timer["sampling"].active

\* SIGINT ends the process even if packets keep coming.
InterruptStops == status = "unlooping" ~> Stopped
=============================================================================
