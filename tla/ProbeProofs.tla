----------------------------- MODULE ProbeProofs -----------------------------
(***************************************************************************)
(* Theorems about the selection range, runtime configuration and the       *)
(* metering process.  Every invariant of RuntimeConfig is inductive once   *)
(* the types are known, because each command sets the response together    *)
(* with what the response is about.  The inductive invariant of Probe adds *)
(* to the checked properties that nothing runs once the process has        *)
(* stopped; that no packet record exists under -I 0 is what lets           *)
(* export_packet_count wrap harmlessly.                                    *)
(***************************************************************************)
EXTENDS Probe, TLAPS

-----------------------------------------------------------------------------
(* The selection range                                                     *)

\* The increment of a uint32_t: one more, or 0 after the largest value.
LEMMA Increment ==
  ASSUME NEW x \in UInt32
  PROVE  /\ x < UINT32_MAX => (x + 1) % U32 = x + 1
         /\ x = UINT32_MAX => (x + 1) % U32 = 0
         /\ (x + 1) % U32 \in UInt32
<1>1. CASE x < UINT32_MAX
  BY <1>1, SelectionAssumption DEF UInt32, U32
<1>2. CASE x = UINT32_MAX
  BY <1>2, SelectionAssumption DEF UInt32, U32
<1>3. QED BY <1>1, <1>2, SelectionAssumption DEF UInt32

\* Saturation yields a uint32_t.
LEMMA SaturateType ==
  ASSUME NEW v \in Int
  PROVE  Saturate(v) \in UInt32
BY SelectionAssumption DEF Saturate, UInt32

\* -m keeps an ordered range ordered.
LEMMA LowerBoundOrdered ==
  ASSUME NEW r \in Range32, NEW v \in Int, r.min <= r.max
  PROVE  /\ set_sampling_lowerbound(r, v) \in Range32
         /\ set_sampling_lowerbound(r, v).min <= set_sampling_lowerbound(r, v).max
BY SaturateType, SelectionAssumption DEF set_sampling_lowerbound, Range32, UInt32

\* -M keeps an ordered range ordered.
LEMMA UpperBoundOrdered ==
  ASSUME NEW r \in Range32, NEW v \in Int, r.min <= r.max
  PROVE  /\ set_sampling_upperbound(r, v) \in Range32
         /\ set_sampling_upperbound(r, v).min <= set_sampling_upperbound(r, v).max
BY SaturateType, SelectionAssumption DEF set_sampling_upperbound, Range32, UInt32

\* -r: the addition never wraps, and the range has exactly the requested width.
LEMMA RatioExact ==
  ASSUME NEW s \in UInt32
  PROVE  /\ set_sampling_ratio(s) \in Range32
         /\ set_sampling_ratio(s).max - set_sampling_ratio(s).min = s
<1>1. CASE UINT32_MAX - s > RANGE_MIN
  <2>1. (s + RANGE_MIN) % U32 = s + RANGE_MIN
    BY <1>1, SelectionAssumption DEF UInt32, U32
  <2>2. QED
    BY <1>1, <2>1, SelectionAssumption DEF set_sampling_ratio, Range32, UInt32
<1>2. CASE ~(UINT32_MAX - s > RANGE_MIN)
  BY <1>2, SelectionAssumption DEF set_sampling_ratio, Range32, UInt32
<1>3. QED BY <1>1, <1>2

-----------------------------------------------------------------------------
(* Runtime configuration                                                   *)

ConfigInv == ConfigTypeOK /\ RangeOrdered /\ RatioShare /\ IntervalInForce /\ TemplateForAll

\* The initial range, timers and templates satisfy the invariant.
LEMMA ConfigInitInv == ConfigInit => ConfigInv
<1> SUFFICES ASSUME ConfigInit PROVE ConfigInv
  OBVIOUS
<1> USE DEF ConfigInit
<1>1. range \in Range32 /\ RangeOrdered
  BY SelectionAssumption, ConfigAssumption DEF DefaultRange, Range32, UInt32, RangeOrdered
<1>2. interval \in [Timers -> Nat]
  BY ConfigAssumption
<1>3. /\ timer \in [Timers -> TimerState]
      /\ \A t \in {"pktid", "sampling"} : timer[t].active <=> timer[t].repeat > 0
  <2>1. \A t \in Timers : interval[t] \in Nat
    BY <1>2
  <2>2. timer = [t \in Timers |-> IF t \in {"pktid", "sampling"}
                                 THEN [active |-> interval[t] > 0, repeat |-> interval[t]]
                                 ELSE [active |-> TRUE, repeat |-> interval[t]]]
    BY DEF export_handler_init, event_register_timer, event_register_timer_w, ev_timer_again
  <2>3. \A t \in Timers : timer[t] \in TimerState
    BY <2>1, <2>2 DEF TimerState
  <2>4. \A t \in {"pktid", "sampling"} : timer[t].active <=> timer[t].repeat > 0
    <3> TAKE t \in {"pktid", "sampling"}
    <3>1. t \in Timers
      BY DEF Timers
    <3>2. timer[t] = [active |-> interval[t] > 0, repeat |-> interval[t]]
      BY <2>2, <3>1
    <3>3. timer[t].active = (interval[t] > 0) /\ timer[t].repeat = interval[t]
      BY <3>2
    <3>4. QED BY <3>3
  <2>5. QED BY <2>2, <2>3, <2>4
<1>4. ConfigTypeOK
  <2>1. template_id \in [Devices -> PacketTemplates \cup {Unset}]
    BY ConfigAssumption
  <2>2. templateID \in PacketTemplates /\ rsp \in Responses
    BY DEF PacketTemplates, Responses
  <2>3. filter \in [Devices -> Filters \cup {NoFilter}]
    OBVIOUS
  <2>4. QED BY <1>1, <1>2, <1>3, <2>1, <2>2, <2>3 DEF ConfigTypeOK
<1>5. QED
  BY <1>1, <1>3, <1>4 DEF ConfigInv, RatioShare, IntervalInForce, TemplateForAll

\* m, M and r change the range and nothing else.
LEMMA RangeCommandInv ==
  ASSUME ConfigInv,
         \/ \E v \in Bounds : configuration_set_min_selection(v)
         \/ \E v \in Bounds : configuration_set_max_selection(v)
         \/ \E s \in Shares : configuration_set_ratio(s)
  PROVE  ConfigInv'
<1> USE ConfigAssumption DEF ConfigInv
<1>1. /\ range' \in Range32 /\ range'.min <= range'.max
      /\ rsp' \in Responses /\ rsp'.cmd \in {"m", "M", "r"}
      /\ rsp'.cmd = "r" => range'.max - range'.min = rsp'.arg
  <2>1. CASE \E v \in Bounds : configuration_set_min_selection(v)
    BY <2>1, LowerBoundOrdered DEF configuration_set_min_selection, Reply, Responses,
       ConfigTypeOK, RangeOrdered
  <2>2. CASE \E v \in Bounds : configuration_set_max_selection(v)
    BY <2>2, UpperBoundOrdered DEF configuration_set_max_selection, Reply, Responses,
       ConfigTypeOK, RangeOrdered
  <2>3. CASE \E s \in Shares : configuration_set_ratio(s)
    <3> PICK s \in Shares : configuration_set_ratio(s)
      BY <2>3
    <3>1. s \in UInt32 /\ s \in Int /\ 0 <= s
      BY SelectionAssumption DEF UInt32
    <3>2. range' \in Range32 /\ range'.max - range'.min = s
      BY <3>1, RatioExact DEF configuration_set_ratio
    <3>3. range'.min <= range'.max
      BY <3>1, <3>2, SelectionAssumption DEF Range32, UInt32
    <3>4. QED
      BY <3>1, <3>2, <3>3 DEF configuration_set_ratio, Reply, Responses
  <2>4. QED BY <2>1, <2>2, <2>3
<1>2. UNCHANGED <<interval, templateID, template_id, filter, timer>>
  BY DEF configuration_set_min_selection, configuration_set_max_selection,
         configuration_set_ratio
<1>3. QED
  BY <1>1, <1>2 DEF ConfigTypeOK, RangeOrdered, RatioShare, IntervalInForce, TemplateForAll

\* t and f.
LEMMA WordCommandInv ==
  ASSUME ConfigInv,
         \/ \E n \in TemplateNames, nl \in BOOLEAN : configuration_set_template(n, nl)
         \/ \E f \in Filters, ok \in SUBSET Devices : configuration_set_filter(f, ok)
  PROVE  ConfigInv'
<1> USE ConfigAssumption DEF ConfigInv
<1>1. CASE \E n \in TemplateNames, nl \in BOOLEAN : configuration_set_template(n, nl)
  <2> PICK n \in TemplateNames, nl \in BOOLEAN : configuration_set_template(n, nl)
    BY <1>1
  <2>1. /\ templateID' \in PacketTemplates
        /\ template_id' \in [Devices -> PacketTemplates \cup {Unset}]
        /\ rsp' \in Responses /\ rsp'.cmd = "t"
        /\ rsp'.said = "set" => \A d \in Devices : template_id'[d] = Unset
    BY DEF configuration_set_template, parse_template, Reply, Responses,
           PacketTemplates, Unset, ConfigTypeOK
  <2>2. UNCHANGED <<interval, range, filter, timer>>
    BY DEF configuration_set_template
  <2>3. QED
    BY <2>1, <2>2 DEF ConfigTypeOK, RangeOrdered, RatioShare, IntervalInForce,
       TemplateForAll, EffectiveTemplate
<1>2. CASE \E f \in Filters, ok \in SUBSET Devices : configuration_set_filter(f, ok)
  <2>1. filter' \in [Devices -> Filters \cup {NoFilter}] /\ rsp' \in Responses /\ rsp'.cmd = "f"
    BY <1>2 DEF configuration_set_filter, set_all_filter, Reply, Responses, ConfigTypeOK
  <2>2. UNCHANGED <<interval, range, templateID, template_id, timer>>
    BY <1>2 DEF configuration_set_filter
  <2>3. QED
    BY <2>1, <2>2 DEF ConfigTypeOK, RangeOrdered, RatioShare, IntervalInForce, TemplateForAll
<1>3. QED BY <1>1, <1>2

\* I, J and K.
LEMMA TimeoutCommandInv ==
  ASSUME ConfigInv, NEW c, NEW t, NEW v \in Int,
         <<c, t>> \in {<<"I", "pktid">>, <<"J", "stats">>, <<"K", "sampling">>},
         SetTimeout(c, t, v)
  PROVE  ConfigInv'
<1> USE ConfigAssumption DEF ConfigInv
<1>1. /\ c \in {"I", "J", "K"} /\ t \in Timers
      /\ c = "I" => t = "pktid"
      /\ c = "J" => t = "stats"
      /\ c = "K" => t = "sampling"
  BY DEF Timers
<1>2. rsp' \in Responses /\ rsp'.cmd = c /\ rsp'.arg = v /\ v \in Int
  BY <1>1 DEF SetTimeout, Reply, Responses
<1>3. UNCHANGED <<interval, range, templateID, template_id, filter>>
  BY DEF SetTimeout
<1>4. CASE 0 <= v
  <2>1. timer' = [timer EXCEPT ![t] = [active |-> v > 0, repeat |-> v]]
    BY <1>4 DEF SetTimeout, ev_timer_again
  <2>2. timer' \in [Timers -> TimerState] /\ timer'[t].repeat = v
    BY <1>1, <1>4, <2>1 DEF ConfigTypeOK, TimerState
  <2>3. \A u \in {"pktid", "sampling"} : timer'[u].active <=> timer'[u].repeat > 0
    BY <1>1, <1>4, <2>1 DEF ConfigTypeOK, TimerState, IntervalInForce, Timers
  <2>4. QED
    BY <1>1, <1>2, <1>3, <2>2, <2>3 DEF ConfigTypeOK, RangeOrdered, RatioShare,
       IntervalInForce, TemplateForAll
<1>5. CASE ~(0 <= v)
  <2>1. UNCHANGED timer /\ rsp'.said = "unchanged"
    BY <1>5 DEF SetTimeout, Reply
  <2>2. QED
    BY <1>1, <1>2, <1>3, <2>1 DEF ConfigTypeOK, RangeOrdered, RatioShare,
       IntervalInForce, TemplateForAll
<1>6. QED BY <1>2, <1>4, <1>5

\* Every command preserves the invariant.
LEMMA CommandInv == ConfigInv /\ user_input_cb => ConfigInv'
<1> SUFFICES ASSUME ConfigInv, user_input_cb PROVE ConfigInv'
  OBVIOUS
<1>1. CASE \/ \E v \in Bounds : configuration_set_min_selection(v)
           \/ \E v \in Bounds : configuration_set_max_selection(v)
           \/ \E s \in Shares : configuration_set_ratio(s)
  BY <1>1, RangeCommandInv
<1>2. CASE \/ \E n \in TemplateNames, nl \in BOOLEAN : configuration_set_template(n, nl)
           \/ \E f \in Filters, ok \in SUBSET Devices : configuration_set_filter(f, ok)
  BY <1>2, WordCommandInv
<1>3. CASE \E v \in Timeouts["I"] : configuration_set_export_to_pktid(v)
  BY ConfigAssumption, <1>3, TimeoutCommandInv DEF configuration_set_export_to_pktid
<1>4. CASE \E v \in Timeouts["J"] : configuration_set_export_to_probestats(v)
  BY ConfigAssumption, <1>4, TimeoutCommandInv DEF configuration_set_export_to_probestats
<1>5. CASE \E v \in Timeouts["K"] : configuration_set_export_to_ifstats(v)
  BY ConfigAssumption, <1>5, TimeoutCommandInv DEF configuration_set_export_to_ifstats
<1>6. QED BY <1>1, <1>2, <1>3, <1>4, <1>5 DEF user_input_cb

\* Every reachable configuration is well typed and satisfies the invariant.
THEOREM ConfigInvariant == ConfigSpec => []ConfigInv
<1>1. ConfigInv /\ [user_input_cb]_cfgVars => ConfigInv'
  <2>1. CASE UNCHANGED cfgVars
    BY <2>1 DEF cfgVars, ConfigInv, ConfigTypeOK, RangeOrdered, RatioShare,
       IntervalInForce, TemplateForAll, EffectiveTemplate
  <2>2. QED BY <2>1, CommandInv
<1>2. QED BY <1>1, ConfigInitInv, PTL DEF ConfigSpec

\* No sequence of commands inverts the selection range.
THEOREM RangeNeverInverted == ConfigSpec => []RangeOrdered
<1>1. ConfigInv => RangeOrdered
  BY DEF ConfigInv
<1>2. QED BY <1>1, ConfigInvariant, PTL

\* A ratio selects the requested share, the timers of I, J and K have the repeat
\* value that was reported, and a template response is true of every device.
THEOREM ResponsesTrue == ConfigSpec => []ResponseInForce
<1>1. ConfigInv => ResponseInForce
  BY DEF ConfigInv, ResponseInForce
<1>2. QED BY <1>1, ConfigInvariant, PTL

\* A bound command sets its bound to the saturated number, leaves the other bound
\* alone unless the range would be inverted, and then makes the two equal.
THEOREM BoundCommands == ConfigSpec => BoundMovesOther
<1> DEFINE Moves ==
      /\ rsp'.cmd = "m" =>
           /\ range'.min = Saturate(rsp'.arg)
           /\ range'.max # range.max => range.max < range'.min /\ range'.max = range'.min
      /\ rsp'.cmd = "M" =>
           /\ range'.max = Saturate(rsp'.arg)
           /\ range'.min # range.min => range'.max < range.min /\ range'.min = range'.max
<1>1. ConfigInv /\ [user_input_cb]_cfgVars => [Moves]_cfgVars
  <2> SUFFICES ASSUME ConfigInv, user_input_cb PROVE Moves
    OBVIOUS
  <2>0. range \in Range32
    BY DEF ConfigInv, ConfigTypeOK
  <2>1. CASE \E v \in Bounds : configuration_set_min_selection(v)
    <3> PICK v \in Bounds : configuration_set_min_selection(v)
      BY <2>1
    <3>1. Saturate(v) \in UInt32
      BY ConfigAssumption, SaturateType
    <3>2. /\ rsp' = [cmd |-> "m", said |-> "set", arg |-> v]
          /\ range' = set_sampling_lowerbound(range, v)
      BY DEF configuration_set_min_selection, Reply
    <3>3. QED BY <2>0, <3>1, <3>2 DEF set_sampling_lowerbound, Range32
  <2>2. CASE \E v \in Bounds : configuration_set_max_selection(v)
    <3> PICK v \in Bounds : configuration_set_max_selection(v)
      BY <2>2
    <3>1. Saturate(v) \in UInt32
      BY ConfigAssumption, SaturateType
    <3>2. /\ rsp' = [cmd |-> "M", said |-> "set", arg |-> v]
          /\ range' = set_sampling_upperbound(range, v)
      BY DEF configuration_set_max_selection, Reply
    <3>3. QED BY <2>0, <3>1, <3>2 DEF set_sampling_upperbound, Range32
  <2>3. CASE rsp'.cmd \notin {"m", "M"}
    BY <2>3
  <2>4. QED
    BY <2>1, <2>2, <2>3 DEF user_input_cb, configuration_set_ratio, Reply,
       configuration_set_template, configuration_set_filter, SetTimeout,
       configuration_set_export_to_pktid, configuration_set_export_to_probestats,
       configuration_set_export_to_ifstats
<1>2. QED BY <1>1, ConfigInvariant, PTL DEF ConfigSpec, BoundMovesOther

-----------------------------------------------------------------------------
(* The metering process                                                    *)

StoppedIdle == Stopped => cur = NoDevice

IInv ==
  /\ TypeOK
  /\ ConfigInv
  /\ StoppedIdle
  /\ NoRecordsWhenOff
  /\ DeltaConserved
  /\ SizeConserved
  /\ SampleWithinDelta
  /\ ExportBufferBound
  /\ RecordsComplete
  /\ LossExplained

\* The step starts from cache content c and keeps every total.
Keeps(c) ==
  \A d \in Devices :
    /\ HandedOver(d)'.pkts = c[d].pkts + collector[d].pkts + lost[d].pkts
    /\ HandedOver(d)'.size = c[d].size + collector[d].size + lost[d].size
    /\ HandedOver(d)'.delta = c[d].delta + collector[d].delta + lost[d].delta

\* libipfix's part of the type invariant.
IpfixTypeOK ==
  /\ cache \in [Devices -> Content]
  /\ collector \in [Devices -> Content]
  /\ lost \in [Devices -> Content]
  /\ failed \in BOOLEAN

-----------------------------------------------------------------------------
(* The operators of the cache                                              *)

\* Pointwise addition of contents.
LEMMA PlusType ==
  ASSUME NEW a \in [Devices -> Content], NEW b \in [Devices -> Content]
  PROVE  /\ Plus(a, b) \in [Devices -> Content]
         /\ \A d \in Devices : /\ Plus(a, b)[d].pkts = a[d].pkts + b[d].pkts
                               /\ Plus(a, b)[d].size = a[d].size + b[d].size
                               /\ Plus(a, b)[d].delta = a[d].delta + b[d].delta
BY DEF Plus, Content

\* The empty content.
LEMMA NothingType ==
  /\ Nothing \in [Devices -> Content]
  /\ \A d \in Devices : Nothing[d].pkts = 0 /\ Nothing[d].size = 0 /\ Nothing[d].delta = 0
BY DEF Nothing, Content

\* A flush moves the cached content and neither creates nor destroys any of it;
\* if nothing has failed the cache is empty and nothing is lost.
LEMMA FlushEffect ==
  ASSUME IpfixTypeOK, NEW c \in [Devices -> Content], NEW ok \in BOOLEAN,
         NEW out \in FlushOutcomes, Flush(c, ok, out)
  PROVE  /\ IpfixTypeOK'
         /\ Keeps(c)
         /\ ~failed' => ~failed /\ ok /\ cache' = Nothing /\ lost' = lost
<1> USE DEF IpfixTypeOK
<1>1. IpfixTypeOK'
  BY PlusType, NothingType DEF Flush
<1>2. ~failed' => ~failed /\ ok /\ cache' = Nothing /\ lost' = lost
  BY DEF Flush
<1>3. Keeps(c)
  <2> SUFFICES ASSUME NEW d \in Devices
               PROVE  /\ HandedOver(d)'.pkts = c[d].pkts + collector[d].pkts + lost[d].pkts
                      /\ HandedOver(d)'.size = c[d].size + collector[d].size + lost[d].size
                      /\ HandedOver(d)'.delta = c[d].delta + collector[d].delta + lost[d].delta
    BY DEF Keeps
  <2>1. c[d] \in Content /\ collector[d] \in Content /\ lost[d] \in Content
    OBVIOUS
  <2>2. CASE out = "sent"
    <3>1. cache' = Nothing /\ collector' = Plus(collector, c) /\ lost' = lost
      BY <2>2 DEF Flush
    <3>2. QED BY <2>1, <3>1, PlusType, NothingType, SMTT(30) DEF HandedOver, Content
  <2>3. CASE out = "kept"
    <3>1. cache' = c /\ collector' = collector /\ lost' = lost
      BY <2>3 DEF Flush
    <3>2. QED BY <2>1, <3>1 DEF HandedOver, Content
  <2>4. CASE out = "lost"
    <3>1. cache' = Nothing /\ collector' = collector /\ lost' = Plus(lost, c)
      BY <2>4 DEF Flush
    <3>2. QED BY <2>1, <3>1, PlusType, NothingType, SMTT(30) DEF HandedOver, Content
  <2>5. QED BY <2>2, <2>3, <2>4 DEF FlushOutcomes
<1>4. QED BY <1>1, <1>2, <1>3

\* Without a flush only the cache changes.
LEMMA CacheEffect ==
  ASSUME IpfixTypeOK, NEW c \in [Devices -> Content], NEW ok \in BOOLEAN, Cache(c, ok)
  PROVE  /\ IpfixTypeOK'
         /\ Keeps(c)
         /\ ~failed' => ~failed /\ ok /\ cache' = c /\ lost' = lost
BY DEF Cache, Keeps, HandedOver, Content, IpfixTypeOK

\* The packet record of the current device.
LEMMA WithRecordEffect ==
  ASSUME cache \in [Devices -> Content], cur \in Devices, NEW ok \in BOOLEAN
  PROVE  /\ WithRecord(ok) \in [Devices -> Content]
         /\ \A d \in Devices :
              /\ WithRecord(ok)[d].pkts = IF ok /\ d = cur THEN cache[d].pkts + 1 ELSE cache[d].pkts
              /\ WithRecord(ok)[d].size = cache[d].size
              /\ WithRecord(ok)[d].delta = cache[d].delta
BY DEF WithRecord, Content

\* The statistics records of the devices in S.
LEMMA WithStatsEffect ==
  ASSUME TypeOK, NEW S \in SUBSET Devices
  PROVE  /\ WithStats(S) \in [Devices -> Content]
         /\ \A d \in Devices :
              /\ WithStats(S)[d].pkts = cache[d].pkts
              /\ WithStats(S)[d].size =
                   IF d \in S THEN cache[d].size + sampling_size[d] ELSE cache[d].size
              /\ WithStats(S)[d].delta =
                   IF d \in S THEN cache[d].delta + sampling_delta_count[d] ELSE cache[d].delta
<1>1. \A d \in Devices : sampling_size[d] \in Nat /\ sampling_delta_count[d] \in Nat
  BY SelectionAssumption DEF TypeOK, UInt32
<1>2. cache \in [Devices -> Content]
  BY DEF TypeOK
<1>3. QED BY <1>1, <1>2 DEF WithStats, Content

-----------------------------------------------------------------------------
(* Steps that leave the accounting alone                                   *)

\* The part of the type invariant that is not about configuration or libipfix.
DevTypeOK ==
  /\ status \in {"running", "unlooping", "shutdown", "exited"}
  /\ cur \in Devices \cup {NoDevice}
  /\ left \in 0..PCAP_DISPATCH_PACKET_COUNT
  /\ watcher \in [Devices -> BOOLEAN]
  /\ sampling_size \in [Devices -> UInt32]
  /\ sampling_delta_count \in [Devices -> Nat]
  /\ totalpacketcount \in [Devices -> Nat]
  /\ export_packet_count \in [Devices -> UInt32]
  /\ packets_dropped \in [Devices -> UInt32]
  /\ selected \in [Devices -> Nat]
  /\ wraps \in [Devices -> Nat]

\* The type invariant by parts, in both states of a step.
LEMMA TypeParts ==
  /\ TypeOK <=> ConfigTypeOK /\ DevTypeOK /\ IpfixTypeOK
  /\ TypeOK' <=> ConfigTypeOK' /\ DevTypeOK' /\ IpfixTypeOK'
BY DEF TypeOK, DevTypeOK, IpfixTypeOK

\* Callbacks that touch neither device counters nor libipfix.
LEMMA QuietStep ==
  ASSUME IInv, ConfigInv', DevTypeOK', StoppedIdle',
         UNCHANGED <<interval, devVars, ipfixVars, histVars>>,
         status' = "shutdown" => status = "shutdown",
         status = "exited" => status' = "exited"
  PROVE  IInv'
<1> USE DEF devVars, ipfixVars, histVars
<1>1. TypeOK'
  BY TypeParts DEF IInv, ConfigInv, IpfixTypeOK
<1>2. QED
  BY <1>1 DEF IInv, NoRecordsWhenOff, DeltaConserved, SizeConserved, SampleWithinDelta,
     ExportBufferBound, RecordsComplete, LossExplained, HandedOver

\* An expiry changes one timer, and stops it only if it does not repeat.
LEMMA ExpireConfig ==
  ASSUME ConfigInv, NEW t \in Timers, Expire(t)
  PROVE  ConfigInv'
<1>1. /\ timer' = [timer EXCEPT ![t] = TimerExpired(@)]
      /\ UNCHANGED <<interval, range, templateID, template_id, filter, rsp>>
  BY DEF Expire
<1>2. timer \in [Timers -> TimerState]
  BY DEF ConfigInv, ConfigTypeOK
<1>3. \A u \in Timers :
        /\ timer'[u] \in TimerState
        /\ timer'[u].repeat = timer[u].repeat
        /\ timer'[u].active = IF u = t THEN timer[u].repeat > 0 ELSE timer[u].active
  <2> TAKE u \in Timers
  <2>1. CASE u = t
    <3>1. timer'[u] = [active |-> timer[u].repeat > 0, repeat |-> timer[u].repeat]
      BY <1>1, <1>2, <2>1 DEF TimerExpired
    <3>2. timer[u].repeat \in Nat
      BY <1>2 DEF TimerState
    <3>3. QED BY <2>1, <3>1, <3>2 DEF TimerState
  <2>2. CASE u # t
    <3>1. timer'[u] = timer[u]
      BY <1>1, <1>2, <2>2
    <3>2. QED BY <1>2, <2>2, <3>1
  <2>3. QED BY <2>1, <2>2
<1>4. ConfigTypeOK' /\ RangeOrdered' /\ RatioShare' /\ TemplateForAll'
  BY <1>1, <1>2, <1>3 DEF ConfigInv, ConfigTypeOK, RangeOrdered, RatioShare, TemplateForAll,
     EffectiveTemplate
<1>5. IntervalInForce'
  <2>1. \A u \in {"pktid", "sampling"} : timer'[u].active <=> timer'[u].repeat > 0
    BY <1>3 DEF ConfigInv, IntervalInForce, Timers
  <2>2. \A c \in {<<"I", "pktid">>, <<"J", "stats">>, <<"K", "sampling">>} :
          rsp'.cmd = c[1] /\ rsp'.said = "set" => timer'[c[2]].repeat = rsp'.arg
    BY <1>1, <1>3 DEF ConfigInv, IntervalInForce, Timers
  <2>3. QED BY <2>1, <2>2 DEF IntervalInForce
<1>6. QED BY <1>4, <1>5 DEF ConfigInv

\* A callback that only flushes, or fails to export, the cache as it is.
LEMMA FlushStep ==
  ASSUME IInv, Idle, ConfigInv', NEW ok \in BOOLEAN,
         Cache(cache, ok) \/ \E out \in FlushOutcomes : Flush(cache, ok, out),
         UNCHANGED <<interval, status, cur, left, watcher, devVars, histVars>>
  PROVE  IInv'
<1> USE DEF devVars, histVars
<1>1. IpfixTypeOK /\ cache \in [Devices -> Content]
  BY TypeParts DEF IInv, IpfixTypeOK
<1>2. /\ IpfixTypeOK' /\ Keeps(cache)
      /\ ~failed' => ~failed /\ lost' = lost /\ cache' \in {cache, Nothing}
  BY <1>1, FlushEffect, CacheEffect
<1>3. TypeOK'
  BY <1>2, TypeParts DEF IInv, ConfigInv, DevTypeOK
<1>4. \A d \in Devices : HandedOver(d)' = HandedOver(d)
  BY <1>2 DEF Keeps, HandedOver
<1>5. ExportBufferBound'
  BY <1>2, NothingType, TypeParts DEF IInv, ExportBufferBound, DevTypeOK, UInt32
<1>6. RecordsComplete'
  BY <1>2, <1>4 DEF IInv, RecordsComplete, Idle
<1>7. LossExplained' /\ StoppedIdle'
  BY <1>2 DEF IInv, LossExplained, StoppedIdle, Stopped
<1>8. NoRecordsWhenOff' /\ DeltaConserved' /\ SizeConserved' /\ SampleWithinDelta'
  BY <1>4 DEF IInv, NoRecordsWhenOff, DeltaConserved, SizeConserved, SampleWithinDelta
<1>9. QED
  BY <1>3, <1>5, <1>6, <1>7, <1>8 DEF IInv

-----------------------------------------------------------------------------
(* Packets                                                                 *)

\* What every packet changes.
LEMMA ReceivedEffect ==
  ASSUME IInv, Received
  PROVE  /\ cur \in Devices
         /\ ~Stopped
         /\ ConfigInv' /\ StoppedIdle'
         /\ UNCHANGED <<interval, status, cur, watcher>>
         /\ left' \in 0..PCAP_DISPATCH_PACKET_COUNT
         /\ sampling_delta_count' \in [Devices -> Nat]
         /\ totalpacketcount' \in [Devices -> Nat]
         /\ \A d \in Devices :
              /\ sampling_delta_count'[d] =
                   sampling_delta_count[d] + (IF d = cur THEN 1 ELSE 0)
              /\ totalpacketcount'[d] = totalpacketcount[d] + (IF d = cur THEN 1 ELSE 0)
<1> USE DEF Received
<1>1. DevTypeOK
  BY TypeParts DEF IInv
<1>2. cur \in Devices /\ ~Stopped
  BY <1>1 DEF IInv, StoppedIdle, DevTypeOK
<1>3. UNCHANGED <<interval, status, cur, watcher>> /\ StoppedIdle'
  BY DEF cfgVars, IInv, StoppedIdle, Stopped
<1>4. ConfigInv'
  BY DEF cfgVars, IInv, ConfigInv, ConfigTypeOK, RangeOrdered, RatioShare,
     IntervalInForce, TemplateForAll, EffectiveTemplate
<1>5. left' \in 0..PCAP_DISPATCH_PACKET_COUNT
  BY <1>1, ProbeAssumption DEF DevTypeOK
<1>6. QED
  BY <1>1, <1>2, <1>3, <1>4, <1>5 DEF DevTypeOK

\* A packet that is not selected adds to the delta only.
LEMMA UnselectedStep ==
  ASSUME IInv, HandleUnhashed \/ \E h \in Hashes : HandleDropped(h)
  PROVE  IInv'
<1>1. Received
  BY DEF HandleUnhashed, HandleDropped
<1>2. /\ UNCHANGED <<sampling_size, export_packet_count, ipfixVars, selected, wraps>>
      /\ packets_dropped' = packets_dropped \/
           packets_dropped' = [packets_dropped EXCEPT ![cur] = (@ + 1) % U32]
  BY DEF HandleUnhashed, HandleDropped
<1>3. DevTypeOK /\ IpfixTypeOK
  BY TypeParts DEF IInv
<1>4. packets_dropped' \in [Devices -> UInt32]
  BY <1>1, <1>2, <1>3, Increment, ReceivedEffect DEF DevTypeOK
<1>5. TypeOK'
  BY <1>1, <1>2, <1>3, <1>4, ReceivedEffect, TypeParts DEF ConfigInv, DevTypeOK,
     IpfixTypeOK, ipfixVars
<1>6. \A d \in Devices : HandedOver(d)' = HandedOver(d)
  BY <1>2 DEF HandedOver, ipfixVars
<1>7. DeltaConserved' /\ SampleWithinDelta'
  <2> SUFFICES ASSUME NEW d \in Devices
               PROVE  /\ HandedOver(d)'.delta + sampling_delta_count'[d] = totalpacketcount'[d]
                      /\ sampling_size'[d] <= sampling_delta_count'[d]
    BY DEF DeltaConserved, SampleWithinDelta
  <2>1. /\ HandedOver(d).delta \in Nat /\ sampling_delta_count[d] \in Nat
        /\ sampling_size[d] \in Nat
    BY <1>3, SelectionAssumption DEF HandedOver, IpfixTypeOK, DevTypeOK, Content, UInt32
  <2>2. QED
    BY <1>1, <1>2, <1>6, <2>1, ReceivedEffect DEF IInv, DeltaConserved, SampleWithinDelta
<1>8. NoRecordsWhenOff' /\ SizeConserved' /\ ExportBufferBound'
  BY <1>1, <1>2, <1>6, ReceivedEffect DEF IInv, NoRecordsWhenOff, SizeConserved,
     ExportBufferBound, ipfixVars
<1>9. RecordsComplete' /\ LossExplained'
  BY <1>1, <1>2, <1>6, ReceivedEffect DEF IInv, RecordsComplete, LossExplained, ipfixVars
<1>10. QED
  BY <1>1, <1>5, <1>7, <1>8, <1>9, ReceivedEffect DEF IInv

\* The counters of a selected packet, up to the overflow of sampling_size.
LEMMA SelectedEffect ==
  ASSUME IInv, NEW h \in Hashes, Selected(h)
  PROVE  /\ Received
         /\ sampling_size' \in [Devices -> UInt32]
         /\ selected' \in [Devices -> Nat] /\ wraps' \in [Devices -> Nat]
         /\ \A d \in Devices :
              /\ selected'[d] = selected[d] + (IF d = cur THEN 1 ELSE 0)
              /\ sampling_size'[d] + wraps'[d] * U32 =
                   sampling_size[d] + wraps[d] * U32 + (IF d = cur THEN 1 ELSE 0)
              /\ sampling_size'[d] <= sampling_size[d] + (IF d = cur THEN 1 ELSE 0)
<1>1. Received
  BY DEF Selected
<1>2. DevTypeOK /\ cur \in Devices
  BY <1>1, ReceivedEffect, TypeParts DEF IInv
<1>3. /\ sampling_size' \in [Devices -> UInt32]
      /\ selected' \in [Devices -> Nat] /\ wraps' \in [Devices -> Nat]
  BY <1>2, Increment DEF Selected, DevTypeOK
<1>4. ASSUME NEW d \in Devices
      PROVE  /\ selected'[d] = selected[d] + (IF d = cur THEN 1 ELSE 0)
             /\ sampling_size'[d] + wraps'[d] * U32 =
                  sampling_size[d] + wraps[d] * U32 + (IF d = cur THEN 1 ELSE 0)
             /\ sampling_size'[d] <= sampling_size[d] + (IF d = cur THEN 1 ELSE 0)
  <2>1. /\ sampling_size[d] \in UInt32 /\ wraps[d] \in Nat /\ selected[d] \in Nat
        /\ U32 \in Nat /\ wraps[d] * U32 \in Nat /\ UINT32_MAX + 1 = U32
    BY <1>2, SelectionAssumption DEF DevTypeOK, U32
  <2>2. CASE d # cur
    BY <1>2, <2>1, <2>2, SelectionAssumption DEF Selected, DevTypeOK, UInt32
  <2>3. CASE d = cur /\ sampling_size[d] = UINT32_MAX
    <3>1. sampling_size'[d] = 0 /\ wraps'[d] = wraps[d] + 1 /\ selected'[d] = selected[d] + 1
      BY <1>2, <2>1, <2>3, Increment DEF Selected, DevTypeOK
    <3>2. (wraps[d] + 1) * U32 = wraps[d] * U32 + U32
      BY <2>1
    <3>3. QED BY <2>1, <2>3, <3>1, <3>2, SelectionAssumption DEF UInt32
  <2>4. CASE d = cur /\ sampling_size[d] # UINT32_MAX
    <3>1. /\ sampling_size'[d] = sampling_size[d] + 1 /\ wraps'[d] = wraps[d]
          /\ selected'[d] = selected[d] + 1
      BY <1>2, <2>1, <2>4, Increment, SelectionAssumption DEF Selected, DevTypeOK, UInt32
    <3>2. QED BY <2>1, <2>4, <3>1, SelectionAssumption DEF UInt32
  <2>5. QED BY <2>2, <2>3, <2>4
<1>5. QED BY <1>1, <1>3, <1>4

\* A selected packet keeps the sums of the statistics records.
LEMMA SelectedStep ==
  ASSUME IInv, NEW h \in Hashes, Selected(h), IpfixTypeOK',
         export_packet_count' \in [Devices -> UInt32],
         packets_dropped' \in [Devices -> UInt32],
         \A d \in Devices : /\ HandedOver(d)'.size = HandedOver(d).size
                            /\ HandedOver(d)'.delta = HandedOver(d).delta,
         NoRecordsWhenOff', ExportBufferBound', RecordsComplete', LossExplained'
  PROVE  IInv'
<1>1. Received
  BY SelectedEffect
<1>2. DevTypeOK /\ IpfixTypeOK
  BY TypeParts DEF IInv
<1>3. TypeOK'
  BY <1>1, <1>2, SelectedEffect, ReceivedEffect, TypeParts DEF ConfigInv, DevTypeOK
<1>4. ASSUME NEW d \in Devices
      PROVE  /\ HandedOver(d)'.delta + sampling_delta_count'[d] = totalpacketcount'[d]
             /\ HandedOver(d)'.size + sampling_size'[d] + wraps'[d] * U32 = selected'[d]
             /\ sampling_size'[d] <= sampling_delta_count'[d]
  <2>1. /\ HandedOver(d).delta \in Nat /\ HandedOver(d).size \in Nat
        /\ sampling_delta_count[d] \in Nat /\ sampling_size[d] \in Nat
        /\ totalpacketcount[d] \in Nat /\ selected[d] \in Nat
        /\ wraps[d] * U32 \in Nat
    BY <1>2, SelectionAssumption DEF HandedOver, IpfixTypeOK, DevTypeOK, Content, UInt32, U32
  <2>2. /\ sampling_size'[d] \in Nat /\ wraps'[d] * U32 \in Nat
        /\ sampling_delta_count'[d] \in Nat
    BY <1>3, SelectionAssumption, TypeParts DEF DevTypeOK, UInt32, U32
  <2>3. /\ HandedOver(d).delta + sampling_delta_count[d] = totalpacketcount[d]
        /\ HandedOver(d).size + sampling_size[d] + wraps[d] * U32 = selected[d]
        /\ sampling_size[d] <= sampling_delta_count[d]
    BY DEF IInv, DeltaConserved, SizeConserved, SampleWithinDelta
  <2>4. /\ sampling_delta_count'[d] = sampling_delta_count[d] + (IF d = cur THEN 1 ELSE 0)
        /\ totalpacketcount'[d] = totalpacketcount[d] + (IF d = cur THEN 1 ELSE 0)
        /\ selected'[d] = selected[d] + (IF d = cur THEN 1 ELSE 0)
        /\ sampling_size'[d] + wraps'[d] * U32 =
             sampling_size[d] + wraps[d] * U32 + (IF d = cur THEN 1 ELSE 0)
        /\ sampling_size'[d] <= sampling_size[d] + (IF d = cur THEN 1 ELSE 0)
    BY <1>1, ReceivedEffect, SelectedEffect
  <2>5. HandedOver(d)'.delta = HandedOver(d).delta /\ HandedOver(d)'.size = HandedOver(d).size
    OBVIOUS
  <2>6. PICK one \in {0, 1} : one = IF d = cur THEN 1 ELSE 0
    OBVIOUS
  <2>7. HandedOver(d)'.delta + sampling_delta_count'[d] = totalpacketcount'[d]
    <3>1. /\ HandedOver(d)'.delta = HandedOver(d).delta
          /\ sampling_delta_count'[d] = sampling_delta_count[d] + one
          /\ totalpacketcount'[d] = totalpacketcount[d] + one
      BY <2>4, <2>5, <2>6
    <3>2. QED BY <2>1, <2>3, <3>1
  <2>8. HandedOver(d)'.size + sampling_size'[d] + wraps'[d] * U32 = selected'[d]
    <3>1. /\ HandedOver(d)'.size = HandedOver(d).size
          /\ selected'[d] = selected[d] + one
          /\ sampling_size'[d] + wraps'[d] * U32 = sampling_size[d] + wraps[d] * U32 + one
      BY <2>4, <2>5, <2>6
    <3> DEFINE w == wraps[d] * U32
               w2 == wraps'[d] * U32
    <3>2. w \in Nat /\ w2 \in Nat
      BY <2>1, <2>2
    <3>3. /\ HandedOver(d).size + sampling_size[d] + w = selected[d]
          /\ sampling_size'[d] + w2 = sampling_size[d] + w + one
      BY <2>3, <3>1
    <3> HIDE DEF w, w2
    <3>4. HandedOver(d)'.size + sampling_size'[d] + w2 = selected'[d]
      BY <2>1, <2>2, <3>1, <3>2, <3>3
    <3>5. QED BY <3>4 DEF w2
  <2>9. sampling_size'[d] <= sampling_delta_count'[d]
    <3>1. /\ sampling_delta_count'[d] = sampling_delta_count[d] + one
          /\ sampling_size'[d] <= sampling_size[d] + one
      BY <2>4, <2>6
    <3>2. QED BY <2>1, <2>2, <2>3, <3>1
  <2>10. QED BY <2>7, <2>8, <2>9
<1>5. DeltaConserved' /\ SizeConserved' /\ SampleWithinDelta'
  BY <1>4 DEF DeltaConserved, SizeConserved, SampleWithinDelta
<1>6. QED
  BY <1>1, <1>3, <1>5, ReceivedEffect DEF IInv

\* With -I 0 a selected packet is only counted.
LEMMA SelectedOnlyStep ==
  ASSUME IInv, NEW h \in Hashes, HandleSelectedOnly(h)
  PROVE  IInv'
<1>1. /\ Selected(h) /\ interval["pktid"] = 0
      /\ export_packet_count' = [export_packet_count EXCEPT ![cur] = Counted]
      /\ UNCHANGED <<packets_dropped, ipfixVars>>
  BY DEF HandleSelectedOnly
<1>2. DevTypeOK /\ IpfixTypeOK /\ cur \in Devices /\ interval' = interval /\ status' = status
  BY <1>1, TypeParts, SelectedEffect, ReceivedEffect DEF IInv
<1>3. Counted \in UInt32
  BY <1>2, Increment DEF Counted, DevTypeOK
<1>4. \A d \in Devices : HandedOver(d)' = HandedOver(d)
  BY <1>1 DEF ipfixVars, HandedOver
<1>5. export_packet_count' \in [Devices -> UInt32] /\ IpfixTypeOK'
  BY <1>1, <1>2, <1>3 DEF DevTypeOK, IpfixTypeOK, ipfixVars
<1>6. NoRecordsWhenOff' /\ LossExplained'
  BY <1>1, <1>2, <1>4 DEF IInv, NoRecordsWhenOff, LossExplained, ipfixVars
<1>7. \A d \in Devices : cache[d].pkts = 0
  <2> TAKE d \in Devices
  <2>1. cache[d].pkts \in Nat /\ collector[d].pkts \in Nat /\ lost[d].pkts \in Nat
    BY <1>2 DEF IpfixTypeOK, Content
  <2>2. cache[d].pkts + collector[d].pkts + lost[d].pkts = 0
    BY <1>1 DEF IInv, NoRecordsWhenOff, HandedOver
  <2>3. \A a, b, c \in Nat : a + b + c = 0 => a = 0
    OBVIOUS
  <2>4. QED BY <2>1, <2>2, <2>3
<1>8. ExportBufferBound' /\ RecordsComplete'
  BY <1>1, <1>2, <1>5, <1>7, SelectionAssumption DEF ExportBufferBound, RecordsComplete,
     ipfixVars, UInt32
<1>9. packets_dropped' \in [Devices -> UInt32]
  BY <1>1, <1>2 DEF DevTypeOK
<1>10. QED
  BY <1>1, <1>4, <1>5, <1>6, <1>8, <1>9, SelectedStep

\* An exported packet adds one record, and the threshold bounds the cache.
LEMMA ExportedStep ==
  ASSUME IInv, NEW h \in Hashes, HandleExported(h)
  PROVE  IInv'
<1>1. /\ Selected(h) /\ interval["pktid"] > 0
      /\ packets_dropped' = [packets_dropped EXCEPT ![cur] = 0]
  BY DEF HandleExported
<1>2. /\ DevTypeOK /\ IpfixTypeOK /\ cur \in Devices
      /\ interval' = interval /\ status' = status /\ cur' = cur /\ ~Stopped
  BY <1>1, TypeParts, SelectedEffect, ReceivedEffect DEF IInv
<1>3. PICK ok \in BOOLEAN :
        \/ /\ Counted < ExportPacketCount
           /\ export_packet_count' = [export_packet_count EXCEPT ![cur] = Counted]
           /\ Cache(WithRecord(ok), ok)
        \/ /\ Counted >= ExportPacketCount
           /\ export_packet_count' = [export_packet_count EXCEPT ![cur] = 0]
           /\ \E out \in FlushOutcomes : Flush(WithRecord(ok), ok, out)
  BY DEF HandleExported
<1>4. Counted \in UInt32 /\ 0 \in UInt32
  BY <1>2, Increment, SelectionAssumption DEF Counted, DevTypeOK, UInt32
<1>5. /\ export_packet_count' \in [Devices -> UInt32]
      /\ packets_dropped' \in [Devices -> UInt32]
  BY <1>1, <1>2, <1>3, <1>4 DEF DevTypeOK
<1>6. /\ WithRecord(ok) \in [Devices -> Content]
      /\ \A d \in Devices :
           /\ WithRecord(ok)[d].pkts = IF ok /\ d = cur THEN cache[d].pkts + 1 ELSE cache[d].pkts
           /\ WithRecord(ok)[d].size = cache[d].size
           /\ WithRecord(ok)[d].delta = cache[d].delta
  BY <1>2, WithRecordEffect DEF IpfixTypeOK
<1>7. /\ IpfixTypeOK' /\ Keeps(WithRecord(ok))
      /\ ~failed' => ~failed /\ ok /\ lost' = lost
  BY <1>2, <1>3, <1>6, FlushEffect, CacheEffect
<1>8. \A d \in Devices :
        /\ HandedOver(d)'.size = HandedOver(d).size
        /\ HandedOver(d)'.delta = HandedOver(d).delta
        /\ HandedOver(d)'.pkts = HandedOver(d).pkts + (IF ok /\ d = cur THEN 1 ELSE 0)
  <2> TAKE d \in Devices
  <2>1. cache[d] \in Content /\ collector[d] \in Content /\ lost[d] \in Content
    BY <1>2 DEF IpfixTypeOK
  <2>2. /\ WithRecord(ok)[d].pkts = cache[d].pkts + (IF ok /\ d = cur THEN 1 ELSE 0)
        /\ WithRecord(ok)[d].size = cache[d].size
        /\ WithRecord(ok)[d].delta = cache[d].delta
    BY <1>6, <2>1 DEF Content
  <2>3. /\ cache[d].pkts \in Int /\ collector[d].pkts \in Int /\ lost[d].pkts \in Int
    BY <2>1 DEF Content
  <2>4. QED BY <1>7, <2>2, <2>3, SMTT(30) DEF Keeps, HandedOver
<1>9. NoRecordsWhenOff' /\ LossExplained'
  BY <1>1, <1>2, <1>7 DEF IInv, NoRecordsWhenOff, LossExplained
<1>10. RecordsComplete'
  <2> SUFFICES ASSUME ~failed', NEW d \in Devices
               PROVE  HandedOver(d)'.pkts = selected'[d]
    BY <1>2 DEF RecordsComplete, Stopped
  <2>1. HandedOver(d).pkts = selected[d] /\ ok
    BY <1>1, <1>7 DEF IInv, RecordsComplete
  <2>2. QED BY <1>1, <1>8, <2>1, SelectedEffect
<1>11. ExportBufferBound'
  <2> SUFFICES ASSUME NEW d \in Devices
               PROVE  /\ ExportPacketCount > 0 => export_packet_count'[d] < ExportPacketCount
                      /\ ~failed' => cache'[d].pkts <= export_packet_count'[d]
    BY <1>1, <1>2 DEF ExportBufferBound
  <2>1. /\ ExportPacketCount > 0 => export_packet_count[d] < ExportPacketCount
        /\ ~failed => cache[d].pkts <= export_packet_count[d]
        /\ export_packet_count[d] \in UInt32 /\ cache[d].pkts \in Nat
    BY <1>1, <1>2 DEF IInv, ExportBufferBound, DevTypeOK, IpfixTypeOK, Content
  <2>2. CASE Counted < ExportPacketCount /\ Cache(WithRecord(ok), ok)
    <3>1. export_packet_count' = [export_packet_count EXCEPT ![cur] = Counted]
      BY <1>3, <1>4, <2>2, ProbeAssumption, SelectionAssumption DEF UInt32
    <3>2. d = cur => Counted = export_packet_count[d] + 1
      <4> SUFFICES ASSUME d = cur PROVE Counted = export_packet_count[d] + 1
        OBVIOUS
      <4>1. export_packet_count[d] < UINT32_MAX
        BY <2>1, <2>2, <1>4, ProbeAssumption, SelectionAssumption DEF UInt32
      <4>2. QED BY <2>1, <4>1, Increment DEF Counted
    <3>3. cache' = WithRecord(ok)
      BY <2>2 DEF Cache
    <3>4. export_packet_count'[d] = IF d = cur THEN Counted ELSE export_packet_count[d]
      BY <1>2, <3>1 DEF DevTypeOK
    <3>5. ExportPacketCount > 0 => export_packet_count'[d] < ExportPacketCount
      BY <2>1, <2>2, <3>4
    <3>6. ASSUME ~failed' PROVE cache'[d].pkts <= export_packet_count'[d]
      <4>1. ok /\ cache[d].pkts <= export_packet_count[d]
        BY <1>7, <2>1, <3>6
      <4>2. cache'[d].pkts = IF d = cur THEN cache[d].pkts + 1 ELSE cache[d].pkts
        BY <1>6, <3>3, <4>1
      <4>3. export_packet_count[d] \in Nat
        BY <2>1, SelectionAssumption DEF UInt32
      <4>4. QED BY <2>1, <3>2, <3>4, <4>1, <4>2, <4>3
    <3>7. QED BY <3>5, <3>6
  <2>3. CASE /\ Counted >= ExportPacketCount
             /\ \E out \in FlushOutcomes : Flush(WithRecord(ok), ok, out)
    <3>1. export_packet_count' = [export_packet_count EXCEPT ![cur] = 0]
      BY <1>3, <1>4, <2>3, ProbeAssumption, SelectionAssumption DEF UInt32
    <3>2. ~failed' => cache' = Nothing
      BY <1>2, <1>6, <2>3, FlushEffect
    <3>3. export_packet_count'[d] = IF d = cur THEN 0 ELSE export_packet_count[d]
      BY <1>2, <3>1 DEF DevTypeOK
    <3>4. ExportPacketCount > 0 => export_packet_count'[d] < ExportPacketCount
      BY <2>1, <3>3
    <3>5. export_packet_count'[d] \in Nat
      BY <2>1, <3>3, SelectionAssumption DEF UInt32
    <3>6. ~failed' => cache'[d].pkts = 0
      BY <3>2, NothingType
    <3>7. QED BY <3>4, <3>5, <3>6
  <2>4. QED BY <1>3, <2>2, <2>3
<1>12. QED
  BY <1>1, <1>5, <1>7, <1>8, <1>9, <1>10, <1>11, SelectedStep

-----------------------------------------------------------------------------
(* Timers and the end of the process                                       *)

\* The statistics of the devices in S move from the counters to libipfix.
LEMMA StatsEffect ==
  ASSUME IInv, export_timer_sampling_cb
  PROVE  \E S \in SUBSET Devices :
           /\ ResetSampling(S) /\ IpfixTypeOK' /\ Keeps(WithStats(S))
           /\ ~failed' => ~failed /\ lost' = lost /\ cache' = Nothing
<1>1. PICK S \in SUBSET Devices, out \in FlushOutcomes :
        ResetSampling(S) /\ Flush(WithStats(S), S = Devices, out)
  BY DEF export_timer_sampling_cb
<1>2. TypeOK /\ IpfixTypeOK /\ WithStats(S) \in [Devices -> Content]
  BY WithStatsEffect, TypeParts DEF IInv
<1>3. (S = Devices) \in BOOLEAN
  OBVIOUS
<1>4. QED BY <1>1, <1>2, <1>3, FlushEffect

\* What device d gains and what its counters become.
LEMMA StatsMove ==
  ASSUME IInv, NEW S \in SUBSET Devices, ResetSampling(S), Keeps(WithStats(S)), NEW d \in Devices
  PROVE  /\ HandedOver(d)'.pkts = HandedOver(d).pkts
         /\ HandedOver(d)'.size =
              HandedOver(d).size + (IF d \in S THEN sampling_size[d] ELSE 0)
         /\ HandedOver(d)'.delta =
              HandedOver(d).delta + (IF d \in S THEN sampling_delta_count[d] ELSE 0)
         /\ sampling_size'[d] = IF d \in S THEN 0 ELSE sampling_size[d]
         /\ sampling_delta_count'[d] = IF d \in S THEN 0 ELSE sampling_delta_count[d]
<1>1. TypeOK /\ IpfixTypeOK /\ DevTypeOK
  BY TypeParts DEF IInv
<1>2. cache[d] \in Content /\ collector[d] \in Content /\ lost[d] \in Content
  BY <1>1 DEF IpfixTypeOK
<1>3. sampling_size[d] \in Nat /\ sampling_delta_count[d] \in Nat
  BY <1>1, SelectionAssumption DEF DevTypeOK, UInt32
<1>4. /\ sampling_size'[d] = IF d \in S THEN 0 ELSE sampling_size[d]
      /\ sampling_delta_count'[d] = IF d \in S THEN 0 ELSE sampling_delta_count[d]
  BY DEF ResetSampling
<1>5. /\ WithStats(S)[d].pkts = cache[d].pkts
      /\ WithStats(S)[d].size = cache[d].size + (IF d \in S THEN sampling_size[d] ELSE 0)
      /\ WithStats(S)[d].delta = cache[d].delta + (IF d \in S THEN sampling_delta_count[d] ELSE 0)
  BY <1>1, <1>2, WithStatsEffect DEF Content
<1>6. /\ HandedOver(d)'.pkts = WithStats(S)[d].pkts + collector[d].pkts + lost[d].pkts
      /\ HandedOver(d)'.size = WithStats(S)[d].size + collector[d].size + lost[d].size
      /\ HandedOver(d)'.delta = WithStats(S)[d].delta + collector[d].delta + lost[d].delta
  BY DEF Keeps
<1>7. QED BY <1>2, <1>3, <1>4, <1>5, <1>6 DEF HandedOver, Content

\* The sampling timer's callback, with any subset of the exports failing.
LEMMA StatsStep ==
  ASSUME IInv, export_timer_sampling_cb
  PROVE  IInv'
<1>1. PICK S \in SUBSET Devices :
        /\ ResetSampling(S) /\ IpfixTypeOK' /\ Keeps(WithStats(S))
        /\ ~failed' => ~failed /\ lost' = lost /\ cache' = Nothing
  BY StatsEffect
<1>2. Expire("sampling")
  BY DEF export_timer_sampling_cb
<1>3. ConfigInv'
  BY <1>2, ExpireConfig DEF IInv, Timers
<1>4. UNCHANGED <<interval, status, cur, left, watcher, totalpacketcount,
                  export_packet_count, packets_dropped, selected, wraps>> /\ ~Stopped
  BY <1>2 DEF Expire, Idle, Stopped
<1>5. DevTypeOK
  BY TypeParts DEF IInv
<1>6. sampling_size' \in [Devices -> UInt32] /\ sampling_delta_count' \in [Devices -> Nat]
  BY <1>1, <1>5, SelectionAssumption DEF ResetSampling, DevTypeOK, UInt32
<1>7. TypeOK'
  BY <1>1, <1>3, <1>4, <1>5, <1>6, TypeParts DEF ConfigInv, DevTypeOK
<1>8. ASSUME NEW d \in Devices
      PROVE  /\ HandedOver(d)'.delta + sampling_delta_count'[d] = totalpacketcount'[d]
             /\ HandedOver(d)'.size + sampling_size'[d] + wraps'[d] * U32 = selected'[d]
             /\ sampling_size'[d] <= sampling_delta_count'[d]
  <2>1. /\ HandedOver(d).delta \in Nat /\ HandedOver(d).size \in Nat
        /\ sampling_delta_count[d] \in Nat /\ sampling_size[d] \in Nat
        /\ wraps[d] * U32 \in Nat
    BY <1>5, SelectionAssumption, TypeParts DEF IInv, HandedOver, IpfixTypeOK, DevTypeOK,
       Content, UInt32, U32
  <2>2. /\ HandedOver(d).delta + sampling_delta_count[d] = totalpacketcount[d]
        /\ HandedOver(d).size + sampling_size[d] + wraps[d] * U32 = selected[d]
        /\ sampling_size[d] <= sampling_delta_count[d]
    BY DEF IInv, DeltaConserved, SizeConserved, SampleWithinDelta
  <2>3. wraps'[d] * U32 = wraps[d] * U32
    BY <1>4
  <2>4. CASE d \in S
    <3>1. /\ HandedOver(d)'.delta = HandedOver(d).delta + sampling_delta_count[d]
          /\ HandedOver(d)'.size = HandedOver(d).size + sampling_size[d]
          /\ sampling_size'[d] = 0 /\ sampling_delta_count'[d] = 0
      BY <1>1, <2>4, StatsMove
    <3>2. QED BY <1>4, <2>1, <2>2, <2>3, <3>1
  <2>5. CASE d \notin S
    <3>1. /\ HandedOver(d)'.delta = HandedOver(d).delta
          /\ HandedOver(d)'.size = HandedOver(d).size
          /\ sampling_size'[d] = sampling_size[d]
          /\ sampling_delta_count'[d] = sampling_delta_count[d]
      BY <1>1, <2>1, <2>5, StatsMove
    <3>2. QED BY <1>4, <2>1, <2>2, <2>3, <3>1
  <2>6. QED BY <2>4, <2>5
<1>9. DeltaConserved' /\ SizeConserved' /\ SampleWithinDelta'
  BY <1>8 DEF DeltaConserved, SizeConserved, SampleWithinDelta
<1>10. \A d \in Devices : HandedOver(d)'.pkts = HandedOver(d).pkts
  BY <1>1, StatsMove
<1>11. ExportBufferBound'
  BY <1>1, <1>4, <1>5, NothingType, SelectionAssumption DEF IInv, ExportBufferBound,
     DevTypeOK, UInt32
<1>12. RecordsComplete' /\ NoRecordsWhenOff' /\ LossExplained' /\ StoppedIdle'
  BY <1>1, <1>4, <1>10 DEF IInv, RecordsComplete, NoRecordsWhenOff, LossExplained,
     StoppedIdle, Stopped
<1>13. QED
  BY <1>3, <1>7, <1>9, <1>11, <1>12 DEF IInv

\* The other three timers flush what is cached.
LEMMA OtherTimerStep ==
  ASSUME IInv, export_timer_pktid_cb \/ export_timer_stats_cb \/ export_timer_location_cb
  PROVE  IInv'
<1>1. PICK t \in Timers : Expire(t)
  BY DEF export_timer_pktid_cb, export_timer_stats_cb, export_timer_location_cb, Timers
<1>2. ConfigInv'
  BY <1>1, ExpireConfig DEF IInv
<1>3. Idle /\ UNCHANGED <<interval, status, cur, left, watcher, devVars, histVars>>
  BY <1>1 DEF export_timer_pktid_cb, export_timer_stats_cb, export_timer_location_cb,
     Expire, devVars, histVars
<1>4. \/ Cache(cache, FALSE)
      \/ \E out \in FlushOutcomes : Flush(cache, TRUE, out)
  BY DEF export_timer_pktid_cb, export_timer_stats_cb, export_timer_location_cb, ExportAndFlush
<1>5. QED BY <1>2, <1>3, <1>4, FlushStep

\* Configuration facts survive steps that do not change the configuration.
LEMMA ConfigUnchanged ==
  ASSUME ConfigInv, UNCHANGED cfgVars
  PROVE  ConfigInv'
BY DEF cfgVars, ConfigInv, ConfigTypeOK, RangeOrdered, RatioShare, IntervalInForce,
   TemplateForAll, EffectiveTemplate

\* "exit" moves the cache to the lost records.
LEMMA ExitStep ==
  ASSUME IInv, UserExit
  PROVE  IInv'
<1>1. Idle /\ status' = "exited" /\ lost' = Plus(lost, cache) /\ cache' = Nothing
  BY DEF UserExit
<1>2. UNCHANGED <<cfgVars, cur, left, watcher, devVars, collector, failed, histVars>>
  BY DEF UserExit
<1>3. DevTypeOK /\ IpfixTypeOK
  BY TypeParts DEF IInv
<1>4. ConfigInv' /\ interval' = interval
  BY <1>2, ConfigUnchanged DEF IInv, cfgVars
<1>5. IpfixTypeOK' /\ DevTypeOK' /\ StoppedIdle'
  BY <1>1, <1>2, <1>3, PlusType, NothingType DEF IpfixTypeOK, DevTypeOK, devVars, histVars,
     StoppedIdle, Idle
<1>6. TypeOK'
  BY <1>4, <1>5, TypeParts DEF ConfigInv
<1>7. \A d \in Devices :
        /\ HandedOver(d)'.pkts = HandedOver(d).pkts
        /\ HandedOver(d)'.size = HandedOver(d).size
        /\ HandedOver(d)'.delta = HandedOver(d).delta
  <2> TAKE d \in Devices
  <2>1. cache[d] \in Content /\ collector[d] \in Content /\ lost[d] \in Content
    BY <1>3 DEF IpfixTypeOK
  <2>2. QED BY <1>1, <1>2, <1>3, <2>1, PlusType, NothingType DEF HandedOver, Content, IpfixTypeOK
<1>8. ExportBufferBound'
  BY <1>1, <1>2, <1>3, <1>4, NothingType, SelectionAssumption DEF IInv, ExportBufferBound,
     devVars, DevTypeOK, UInt32
<1>9. RecordsComplete' /\ LossExplained' /\ NoRecordsWhenOff'
  BY <1>1, <1>2, <1>4, <1>7 DEF IInv, RecordsComplete, LossExplained, NoRecordsWhenOff, histVars
<1>10. DeltaConserved' /\ SizeConserved' /\ SampleWithinDelta'
  BY <1>2, <1>7 DEF IInv, DeltaConserved, SizeConserved, SampleWithinDelta, devVars, histVars
<1>11. QED BY <1>4, <1>5, <1>6, <1>8, <1>9, <1>10 DEF IInv

\* The last flush: if nothing ever failed, all records are with the collector.
LEMMA ShutdownStep ==
  ASSUME IInv, impd4e_shutdown
  PROVE  IInv'
<1>1. Idle /\ status = "unlooping" /\ status' = "shutdown"
  BY DEF impd4e_shutdown
<1>2. UNCHANGED <<cfgVars, cur, left, watcher, devVars, histVars>>
  BY DEF impd4e_shutdown
<1>3. DevTypeOK /\ IpfixTypeOK
  BY TypeParts DEF IInv
<1>4. PICK out \in {"sent", "lost"} : Flush(cache, TRUE, out)
  BY DEF impd4e_shutdown
<1>5. /\ IpfixTypeOK' /\ Keeps(cache)
      /\ ~failed' => ~failed /\ lost' = lost /\ cache' = Nothing
  BY <1>3, <1>4, FlushEffect DEF IpfixTypeOK, FlushOutcomes
<1>6. ConfigInv' /\ interval' = interval
  BY <1>2, ConfigUnchanged DEF IInv, cfgVars
<1>7. DevTypeOK' /\ StoppedIdle'
  BY <1>1, <1>2, <1>3 DEF DevTypeOK, devVars, histVars, StoppedIdle, Idle
<1>8. TypeOK'
  BY <1>5, <1>6, <1>7, TypeParts DEF ConfigInv
<1>9. \A d \in Devices : HandedOver(d)' = HandedOver(d)
  BY <1>5 DEF Keeps, HandedOver
<1>10. ExportBufferBound'
  BY <1>2, <1>3, <1>5, <1>6, NothingType, SelectionAssumption DEF IInv, ExportBufferBound,
     devVars, DevTypeOK, UInt32
<1>11. LossExplained' /\ NoRecordsWhenOff'
  BY <1>1, <1>2, <1>5, <1>6, <1>9 DEF IInv, LossExplained, NoRecordsWhenOff
<1>12. RecordsComplete'
  <2> SUFFICES ASSUME ~failed', interval["pktid"] > 0, NEW d \in Devices
               PROVE  HandedOver(d)'.pkts = selected'[d] /\ collector'[d].pkts = selected'[d]
    BY <1>6 DEF RecordsComplete
  <2>1. HandedOver(d)'.pkts = selected'[d]
    BY <1>2, <1>5, <1>9 DEF IInv, RecordsComplete, histVars
  <2>2. cache'[d].pkts = 0
    BY <1>5, NothingType
  <2>3. lost[d].pkts = 0
    <3>1. lost = Nothing
      BY <1>1, <1>5 DEF IInv, LossExplained
    <3>2. QED BY <3>1, NothingType
  <2>4. lost'[d].pkts = 0
    BY <1>5, <2>3
  <2>5. collector'[d].pkts \in Nat
    BY <1>5 DEF IpfixTypeOK, Content
  <2>6. HandedOver(d)'.pkts = cache'[d].pkts + collector'[d].pkts + lost'[d].pkts
    BY DEF HandedOver
  <2>7. \A a, b, c \in Nat : a = 0 /\ c = 0 => a + b + c = b
    OBVIOUS
  <2>8. QED BY <2>1, <2>2, <2>4, <2>5, <2>6, <2>7
<1>13. DeltaConserved' /\ SizeConserved' /\ SampleWithinDelta'
  BY <1>2, <1>9 DEF IInv, DeltaConserved, SizeConserved, SampleWithinDelta, devVars, histVars
<1>14. QED BY <1>6, <1>7, <1>8, <1>10, <1>11, <1>12, <1>13 DEF IInv

\* Dispatching, commands and the interrupt touch no counter and no record.
LEMMA LoopStep ==
  ASSUME IInv,
         \/ \E d \in Devices : DispatchBegin(d)
         \/ DispatchReturn \/ DispatchError \/ Command \/ sigint_cb \/ UNCHANGED vars
  PROVE  IInv'
<1>1. UNCHANGED <<interval, devVars, ipfixVars, histVars>>
  <2>1. Command => interval' = interval
    BY DEF Command, user_input_cb, configuration_set_min_selection,
       configuration_set_max_selection, configuration_set_ratio, configuration_set_template,
       configuration_set_filter, configuration_set_export_to_pktid,
       configuration_set_export_to_probestats, configuration_set_export_to_ifstats, SetTimeout
  <2>2. QED
    BY <2>1 DEF DispatchBegin, DispatchReturn, DispatchError, Command, sigint_cb, vars, cfgVars
<1>2. ConfigInv'
  BY CommandInv, ConfigUnchanged DEF IInv, DispatchBegin, DispatchReturn, DispatchError,
     Command, sigint_cb, vars
<1>3. DevTypeOK
  BY TypeParts DEF IInv
<1>4. /\ status' \in {"running", "unlooping", "shutdown", "exited"}
      /\ cur' \in Devices \cup {NoDevice}
      /\ left' \in 0..PCAP_DISPATCH_PACKET_COUNT
      /\ watcher' \in [Devices -> BOOLEAN]
  <2>1. CASE \/ \E d \in Devices : DispatchBegin(d)
             \/ DispatchReturn
             \/ DispatchError
    <3>1. /\ status' \in {"running", "unlooping", "shutdown", "exited"}
          /\ cur' \in Devices \cup {NoDevice}
          /\ left' \in 0..PCAP_DISPATCH_PACKET_COUNT
      BY <1>3, <2>1, ProbeAssumption DEF DevTypeOK, DispatchBegin, DispatchReturn, DispatchError
    <3>2. watcher' \in {watcher, [watcher EXCEPT ![cur] = FALSE]}
      BY <2>1 DEF DispatchBegin, DispatchReturn, DispatchError
    <3>3. watcher \in [Devices -> BOOLEAN]
      BY <1>3 DEF DevTypeOK
    <3>4. [watcher EXCEPT ![cur] = FALSE] \in [Devices -> BOOLEAN]
      BY <3>3, Zenon
    <3>5. QED BY <3>1, <3>2, <3>3, <3>4
  <2>2. CASE Command \/ sigint_cb \/ UNCHANGED vars
    BY <1>3, <2>2 DEF DevTypeOK, Command, sigint_cb, vars
  <2>3. QED BY <2>1, <2>2
<1>5. DevTypeOK'
  BY <1>1, <1>3, <1>4 DEF DevTypeOK, devVars, histVars
<1>6. /\ StoppedIdle'
      /\ status' = "shutdown" => status = "shutdown"
      /\ status = "exited" => status' = "exited"
  BY DEF IInv, StoppedIdle, Stopped, DispatchBegin, DispatchReturn, DispatchError, Command,
     sigint_cb, vars, Idle
<1>7. QED BY <1>1, <1>2, <1>5, <1>6, QuietStep

-----------------------------------------------------------------------------
(* The theorems                                                            *)

\* The initial state.
LEMMA InitInv == Init => IInv
<1> SUFFICES ASSUME Init PROVE IInv
  OBVIOUS
<1>1. ConfigInv
  BY ConfigInitInv DEF Init
<1>2. 0 \in UInt32 /\ U32 \in Nat
  BY SelectionAssumption DEF UInt32, U32
<1>3. DevTypeOK /\ IpfixTypeOK
  <2>1. watcher \in [Devices -> BOOLEAN] /\ failed \in BOOLEAN
    BY Zenon DEF Init
  <2>2. QED
    BY <1>2, <2>1, NothingType, ProbeAssumption DEF Init, DevTypeOK, IpfixTypeOK
<1>4. TypeOK
  BY <1>1, <1>3, TypeParts DEF ConfigInv
<1>5. \A d \in Devices : HandedOver(d).pkts = 0 /\ HandedOver(d).size = 0 /\ HandedOver(d).delta = 0
  BY NothingType DEF Init, HandedOver
<1>6. StoppedIdle /\ LossExplained
  BY DEF Init, StoppedIdle, LossExplained
<1>7. NoRecordsWhenOff /\ DeltaConserved /\ SizeConserved /\ SampleWithinDelta
  BY <1>2, <1>5 DEF Init, NoRecordsWhenOff, DeltaConserved, SizeConserved, SampleWithinDelta
<1>8. ExportBufferBound /\ RecordsComplete
  BY <1>5, NothingType DEF Init, ExportBufferBound, RecordsComplete
<1>9. QED BY <1>1, <1>4, <1>6, <1>7, <1>8 DEF IInv

\* Every step, one lemma per kind of action.
LEMMA NextInv == IInv /\ [Next]_vars => IInv'
<1> SUFFICES ASSUME IInv, [Next]_vars PROVE IInv'
  OBVIOUS
<1>1. CASE HandlePacket
  BY <1>1, UnselectedStep, SelectedOnlyStep, ExportedStep DEF HandlePacket
<1>2. CASE export_timer_sampling_cb
  BY <1>2, StatsStep
<1>3. CASE export_timer_pktid_cb \/ export_timer_stats_cb \/ export_timer_location_cb
  BY <1>3, OtherTimerStep
<1>4. CASE UserExit
  BY <1>4, ExitStep
<1>5. CASE impd4e_shutdown
  BY <1>5, ShutdownStep
<1>6. CASE \/ \E d \in Devices : DispatchBegin(d)
           \/ DispatchReturn \/ DispatchError \/ Command \/ sigint_cb \/ UNCHANGED vars
  BY <1>6, LoopStep
<1>7. QED BY <1>1, <1>2, <1>3, <1>4, <1>5, <1>6 DEF Next

\* The inductive invariant holds in every reachable state.
THEOREM Invariant == Spec => []IInv
BY InitInv, NextInv, PTL DEF Spec

\* Every state of the metering process is well typed; in particular the 32-bit
\* counters of device_dev_t stay in range.
THEOREM TypeCorrect == Spec => []TypeOK
<1>1. IInv => TypeOK
  BY DEF IInv
<1>2. QED BY <1>1, Invariant, PTL

\* Packet accounting: for any number of devices and packets and any failures of
\* libipfix, seen packets are reported exactly once.
THEOREM DeltaAccounting == Spec => [](DeltaConserved /\ SampleWithinDelta)
<1>1. IInv => DeltaConserved /\ SampleWithinDelta
  BY DEF IInv
<1>2. QED BY <1>1, Invariant, PTL

\* The same for selected packets, through the overflow of their counter.
THEOREM SizeAccounting == Spec => []SizeConserved
<1>1. IInv => SizeConserved
  BY DEF IInv
<1>2. QED BY <1>1, Invariant, PTL

\* The -e threshold bounds what a device has in the shared cache.
THEOREM BufferBounded == Spec => []ExportBufferBound
<1>1. IInv => ExportBufferBound
  BY DEF IInv
<1>2. QED BY <1>1, Invariant, PTL

\* Packet records are complete without failures, there are none under -I 0, and a
\* loss has a cause.
THEOREM RecordsCorrect == Spec => []RecordsAccounted
<1>1. IInv => RecordsAccounted
  BY DEF IInv, RecordsAccounted
<1>2. QED BY <1>1, Invariant, PTL

-----------------------------------------------------------------------------
(* The probe implements the accounting it promises                         *)

\* A step that moves no statistics and sees no packet is invisible.
LEMMA Invisible ==
  ASSUME totalpacketcount' = totalpacketcount,
         \A d \in Devices : HandedOver(d)'.delta = HandedOver(d).delta
  PROVE  UNCHANGED Acc!accVars
BY DEF Acc!accVars

\* A packet is an Observe step: no report changes.
LEMMA PacketObserved ==
  ASSUME IInv, HandlePacket
  PROVE  Acc!Next
<1>1. Received
  BY DEF HandlePacket, HandleUnhashed, HandleDropped, HandleSelectedOnly, HandleExported, Selected
<1>2. cur \in Devices /\ totalpacketcount' = [totalpacketcount EXCEPT ![cur] = @ + 1]
  BY <1>1, ReceivedEffect DEF Received
<1>3. \A d \in Devices : HandedOver(d)'.delta = HandedOver(d).delta
  <2>1. IpfixTypeOK
    BY TypeParts DEF IInv
  <2>2. CASE UNCHANGED ipfixVars
    BY <2>2 DEF ipfixVars, HandedOver
  <2>3. CASE \E h \in Hashes : HandleExported(h)
    <3>1. PICK ok \in BOOLEAN :
            \/ Cache(WithRecord(ok), ok)
            \/ \E out \in FlushOutcomes : Flush(WithRecord(ok), ok, out)
      BY <2>3 DEF HandleExported
    <3>2. /\ WithRecord(ok) \in [Devices -> Content]
          /\ \A d \in Devices : WithRecord(ok)[d].delta = cache[d].delta
      BY <1>2, <2>1, WithRecordEffect DEF IpfixTypeOK
    <3>3. Keeps(WithRecord(ok))
      BY <2>1, <3>1, <3>2, FlushEffect, CacheEffect
    <3>4. QED BY <3>2, <3>3 DEF Keeps, HandedOver
  <2>4. QED
    BY <2>2, <2>3 DEF HandlePacket, HandleUnhashed, HandleDropped, HandleSelectedOnly
<1>4. Acc!Observe(cur)
  BY <1>2, <1>3 DEF Acc!Observe
<1>5. QED BY <1>2, <1>4 DEF Acc!Next

\* The sampling timer reports the devices whose export succeeded, completely.
LEMMA StatsReported ==
  ASSUME IInv, export_timer_sampling_cb
  PROVE  Acc!Next
<1>1. PICK S \in SUBSET Devices : ResetSampling(S) /\ Keeps(WithStats(S))
  BY StatsEffect
<1>2. totalpacketcount' = totalpacketcount
  BY DEF export_timer_sampling_cb, Expire
<1>3. ASSUME NEW d \in Devices
      PROVE  HandedOver(d)'.delta =
               IF d \in S THEN totalpacketcount[d] ELSE HandedOver(d).delta
  <2>1. HandedOver(d).delta \in Nat
    BY TypeParts DEF IInv, HandedOver, IpfixTypeOK, Content
  <2>2. HandedOver(d).delta + sampling_delta_count[d] = totalpacketcount[d]
    BY DEF IInv, DeltaConserved
  <2>3. HandedOver(d)'.delta =
          HandedOver(d).delta + (IF d \in S THEN sampling_delta_count[d] ELSE 0)
    BY <1>1, StatsMove
  <2>4. QED BY <2>1, <2>2, <2>3
<1>4. Acc!Report(S)
  BY <1>2, <1>3 DEF Acc!Report
<1>5. QED BY <1>4 DEF Acc!Next

\* Flushes, exits and the loop's own steps are invisible.
LEMMA OthersInvisible ==
  ASSUME IInv,
         \/ export_timer_pktid_cb \/ export_timer_stats_cb \/ export_timer_location_cb
         \/ UserExit \/ impd4e_shutdown
         \/ UNCHANGED <<totalpacketcount, ipfixVars>>
  PROVE  UNCHANGED Acc!accVars
<1>1. IpfixTypeOK /\ cache \in [Devices -> Content]
  BY TypeParts DEF IInv, IpfixTypeOK
<1>2. totalpacketcount' = totalpacketcount
  BY DEF export_timer_pktid_cb, export_timer_stats_cb, export_timer_location_cb, Expire,
     UserExit, impd4e_shutdown, devVars
<1>3. CASE UNCHANGED ipfixVars
  BY <1>2, <1>3, Invisible DEF ipfixVars, HandedOver
<1>4. CASE UserExit
  <2>1. lost' = Plus(lost, cache) /\ cache' = Nothing /\ collector' = collector
    BY <1>4 DEF UserExit
  <2>2. ASSUME NEW d \in Devices PROVE HandedOver(d)'.delta = HandedOver(d).delta
    <3>1. cache[d] \in Content /\ collector[d] \in Content /\ lost[d] \in Content
      BY <1>1 DEF IpfixTypeOK
    <3>2. QED BY <1>1, <2>1, <3>1, PlusType, NothingType DEF HandedOver, Content, IpfixTypeOK
  <2>3. QED BY <1>2, <2>2, Invisible
<1>5. CASE \/ export_timer_pktid_cb \/ export_timer_stats_cb \/ export_timer_location_cb
           \/ impd4e_shutdown
  <2>1. \/ Cache(cache, FALSE)
        \/ \E out \in FlushOutcomes : Flush(cache, TRUE, out)
    BY <1>5 DEF export_timer_pktid_cb, export_timer_stats_cb, export_timer_location_cb,
       ExportAndFlush, impd4e_shutdown, FlushOutcomes
  <2>2. Keeps(cache)
    BY <1>1, <2>1, FlushEffect, CacheEffect
  <2>3. QED BY <1>2, <2>2, Invisible DEF Keeps, HandedOver
<1>6. QED BY <1>3, <1>4, <1>5

\* Refinement: what the probe hands to libipfix follows the abstract accounting,
\* in which every report brings a device completely up to date.
THEOREM ImplementsAccounting == Spec => AccountingSpec
<1>1. Init => Acc!Init
  <2>1. ASSUME Init, NEW d \in Devices PROVE HandedOver(d).delta = 0
    BY <2>1, NothingType DEF Init, HandedOver
  <2>2. QED BY <2>1 DEF Init, Acc!Init
<1>2. IInv /\ [Next]_vars => [Acc!Next]_(Acc!accVars)
  <2> SUFFICES ASSUME IInv, [Next]_vars PROVE Acc!Next \/ UNCHANGED Acc!accVars
    OBVIOUS
  <2>1. CASE HandlePacket
    BY <2>1, PacketObserved
  <2>2. CASE export_timer_sampling_cb
    BY <2>2, StatsReported
  <2>3. CASE \/ \E d \in Devices : DispatchBegin(d)
             \/ DispatchReturn \/ DispatchError \/ Command \/ sigint_cb \/ UNCHANGED vars
    <3>1. UNCHANGED <<totalpacketcount, ipfixVars>>
      BY <2>3 DEF DispatchBegin, DispatchReturn, DispatchError, Command, sigint_cb, vars, devVars
    <3>2. QED BY <3>1, OthersInvisible
  <2>4. CASE \/ export_timer_pktid_cb \/ export_timer_stats_cb \/ export_timer_location_cb
             \/ UserExit \/ impd4e_shutdown
    BY <2>4, OthersInvisible
  <2>5. QED BY <2>1, <2>2, <2>3, <2>4 DEF Next
<1>3. QED BY <1>1, <1>2, Invariant, PTL DEF Spec, AccountingSpec, Acc!Spec

=============================================================================
