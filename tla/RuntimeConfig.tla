---------------------------- MODULE RuntimeConfig ----------------------------
(***************************************************************************)
(* Runtime configuration (config_handler.c): the commands a user types on  *)
(* standard input, the options, templates, filters and export timers they  *)
(* change, and the response each one prints.                               *)
(*                                                                         *)
(* Timers are libev timers (external).  In an untimed model only whether a *)
(* timer is active and whether its repeat value is zero matter.            *)
(***************************************************************************)
EXTENDS Selection

CONSTANTS
  Devices,         \* if_devices[0 .. number_interfaces-1]
  Filters,         \* BPF expressions a user may type
  NoFilter,        \* no expression installed
  StartIntervals,  \* the functions Timers -> Nat the command line may set
  Bounds,          \* values typed after m and M (signed 64-bit)
  Shares,          \* values of set_sampling_ratio's share typed after r
  DeviceTemplates, \* values of template_id the command line may leave (-t)
  TemplateNames,   \* template names typed after t
  Timeouts,        \* for each of I, J and K the values typed after it (int)
  DEFAULT_MAX      \* the literal 0x33333333: default upper end of the range

\* Templates of packet records (ipfix_handler.h) and the -1 of template_id.
PacketTemplates == {"min", "lp", "ls", "ts"}
Unset == "unset"

Timers == {"pktid", "sampling", "stats", "location"}

ASSUME ConfigAssumption ==
  /\ NoFilter \notin Filters
  /\ StartIntervals \subseteq [Timers -> Nat]
  /\ Bounds \subseteq Int
  /\ Shares \subseteq UInt32
  /\ \A c \in {"I", "J", "K"} : Timeouts[c] \subseteq Int
  /\ TemplateNames \subseteq PacketTemplates
  /\ DeviceTemplates \subseteq PacketTemplates \cup {Unset}
  /\ DEFAULT_MAX \in RANGE_MIN..UINT32_MAX

VARIABLES
  interval,     \* g_options.export_*_interval: set on the command line only
  range,        \* g_options.sel_range_min and sel_range_max
  templateID,   \* g_options.templateID
  template_id,  \* device_dev_t.template_id, "unset" is -1
  filter,       \* the BPF program installed in each device
  timer,        \* the export timers
  rsp           \* the response to the last command

cfgVars == <<interval, range, templateID, template_id, filter, timer, rsp>>

\* The last command, its number (0 where it takes a word) and what was reported.
Responses == [cmd  : {"none", "m", "M", "r", "f", "t", "I", "J", "K"},
              said : {"none", "set", "unchanged", "unknown"},
              arg  : Int]

\* The template of a device's records: its own or the global one.
EffectiveTemplate(d) ==
  IF template_id[d] = Unset THEN templateID ELSE template_id[d]

-----------------------------------------------------------------------------
\* libev timers.  A timer that expires keeps running only if it repeats.
TimerState == [active : BOOLEAN, repeat : Nat]
ev_timer_again(to) == [active |-> to > 0, repeat |-> to]
TimerExpired(tm) == [active |-> tm.repeat > 0, repeat |-> tm.repeat]

\* event_register_timer fires at once; event_register_timer_w after `to`.
event_register_timer(to)   == [active |-> TRUE, repeat |-> to]
event_register_timer_w(to) == ev_timer_again(to)

\* export_handler_init: the four export timers.
export_handler_init(iv) ==
  [t \in Timers |-> IF t \in {"pktid", "sampling"}
                    THEN event_register_timer_w(iv[t])
                    ELSE event_register_timer(iv[t])]

ConfigInit ==
  /\ interval \in StartIntervals
  /\ range = DefaultRange(DEFAULT_MAX)
  /\ templateID = "min"
  /\ template_id \in [Devices -> DeviceTemplates]
  /\ filter = [d \in Devices |-> NoFilter]
  /\ timer = export_handler_init(interval)
  /\ rsp = [cmd |-> "none", said |-> "none", arg |-> 0]

-----------------------------------------------------------------------------
Reply(c, s, a) == rsp' = [cmd |-> c, said |-> s, arg |-> a]

\* m <value>
configuration_set_min_selection(v) ==
  /\ range' = set_sampling_lowerbound(range, v)
  /\ Reply("m", "set", v)
  /\ UNCHANGED <<interval, templateID, template_id, filter, timer>>

\* M <value>
configuration_set_max_selection(v) ==
  /\ range' = set_sampling_upperbound(range, v)
  /\ Reply("M", "set", v)
  /\ UNCHANGED <<interval, templateID, template_id, filter, timer>>

\* r <value>: set_sampling_ratio returns 0 for every value.
configuration_set_ratio(share) ==
  /\ range' = set_sampling_ratio(share)
  /\ Reply("r", "set", share)
  /\ UNCHANGED <<interval, templateID, template_id, filter, timer>>

\* strcasecmp compares the whole rest of the line.  fgets keeps the newline, so
\* a terminated line matches no name; the last line of a closed input may.
parse_template(name, newline) == IF newline THEN Unset ELSE name

\* t <name>
configuration_set_template(name, newline) ==
  LET t_id == parse_template(name, newline)
  IN  /\ \/ /\ t_id = Unset
            /\ UNCHANGED <<templateID, template_id>>
            /\ Reply("t", "unknown", 0)
         \/ /\ t_id # Unset
            /\ template_id' = [d \in Devices |-> Unset]
            /\ templateID' = t_id
            /\ Reply("t", "set", 0)
      /\ UNCHANGED <<interval, range, filter, timer>>

\* set_all_filter tries every device and drops each result; `accepts` are the
\* devices whose pcap_compile and pcap_setfilter succeed (external).
set_all_filter(bpf, accepts) ==
  filter' = [d \in Devices |-> IF d \in accepts THEN bpf ELSE filter[d]]

\* f <expression>
configuration_set_filter(bpf, accepts) ==
  /\ set_all_filter(bpf, accepts)
  /\ Reply("f", "set", 0)
  /\ UNCHANGED <<interval, range, templateID, template_id, timer>>

\* Faulty variant: the new value is stored and the timer not restarted.
SetTimeout_NoRestart(cmd, t, v) ==
  /\ IF 0 <= v
     THEN timer' = [timer EXCEPT ![t].repeat = v] /\ Reply(cmd, "set", v)
     ELSE Reply(cmd, "unchanged", v) /\ UNCHANGED timer
  /\ UNCHANGED <<interval, range, templateID, template_id, filter>>

\* I, J and K <seconds>: the body the three functions share.
SetTimeout(cmd, t, v) ==
  /\ IF 0 <= v
     THEN /\ timer' = [timer EXCEPT ![t] = ev_timer_again(v)]
          /\ Reply(cmd, "set", v)
     ELSE /\ Reply(cmd, "unchanged", v)
          /\ UNCHANGED timer
  /\ UNCHANGED <<interval, range, templateID, template_id, filter>>

configuration_set_export_to_pktid(v)      == SetTimeout("I", "pktid", v)
configuration_set_export_to_probestats(v) == SetTimeout("J", "stats", v)
configuration_set_export_to_ifstats(v)    == SetTimeout("K", "sampling", v)

\* user_input_cb: one line, one command of configuration_fct.
user_input_cb ==
  \/ \E v \in Bounds : configuration_set_min_selection(v)
  \/ \E v \in Bounds : configuration_set_max_selection(v)
  \/ \E s \in Shares : configuration_set_ratio(s)
  \/ \E n \in TemplateNames, nl \in BOOLEAN : configuration_set_template(n, nl)
  \/ \E f \in Filters, ok \in SUBSET Devices : configuration_set_filter(f, ok)
  \/ \E v \in Timeouts["I"] : configuration_set_export_to_pktid(v)
  \/ \E v \in Timeouts["J"] : configuration_set_export_to_probestats(v)
  \/ \E v \in Timeouts["K"] : configuration_set_export_to_ifstats(v)

\* Configuration on its own, the timers never expiring.
ConfigSpec == ConfigInit /\ [][user_input_cb]_cfgVars

-----------------------------------------------------------------------------
\* Types of the configuration state.
ConfigTypeOK ==
  /\ interval \in [Timers -> Nat]
  /\ range \in Range32
  /\ templateID \in PacketTemplates
  /\ template_id \in [Devices -> PacketTemplates \cup {Unset}]
  /\ filter \in [Devices -> Filters \cup {NoFilter}]
  /\ timer \in [Timers -> TimerState]
  /\ rsp \in Responses

\* The selection range is never inverted, whatever sequence of m, M and r is
\* typed: an inverted range would silently select no packet at all.
RangeOrdered == range.min <= range.max

\* A ratio selects exactly the requested share of the hash values, and does so
\* on both sides of the 90% switch in set_sampling_ratio.
RatioShare == rsp.cmd = "r" => range.max - range.min = rsp.arg

\* The bound a command names becomes the number that was typed, saturated to a
\* uint32_t; the other bound stays where it is unless the range would be inverted,
\* and then moves onto the named one and no further.
BoundMovesOther ==
  [][/\ rsp'.cmd = "m" =>
          /\ range'.min = Saturate(rsp'.arg)
          /\ range'.max # range.max => range.max < range'.min /\ range'.max = range'.min
     /\ rsp'.cmd = "M" =>
          /\ range'.max = Saturate(rsp'.arg)
          /\ range'.min # range.min => range'.max < range.min /\ range'.min = range'.max]_cfgVars

\* The packet and interface-statistics timers run exactly while their repeat
\* value is not zero, after any sequence of commands and expiries; a response
\* "set" to I, J or K reports the repeat value of its timer.  That is all those
\* commands change: whether packet records are exported is decided by the -I of
\* the command line (`interval`, see RecordsAccounted of Probe), not by I.
IntervalInForce ==
  /\ \A t \in {"pktid", "sampling"} : timer[t].active <=> timer[t].repeat > 0
  /\ \A c \in {<<"I", "pktid">>, <<"J", "stats">>, <<"K", "sampling">>} :
       rsp.cmd = c[1] /\ rsp.said = "set" => timer[c[2]].repeat = rsp.arg

\* After "new template set" every device exports with the global template, also
\* those that had one of their own from the command line.
TemplateForAll ==
  rsp.cmd = "t" /\ rsp.said = "set" => \A d \in Devices : EffectiveTemplate(d) = templateID

\* The last response to r, t, I, J and K agrees with the range, the templates and
\* the timers, however commands follow each other.  It does not extend to f, whose
\* response does not depend on the devices, nor to the effect of I 0 on packet
\* records, which the manual's "-I 0" has and the command has not.
ResponseInForce == RatioShare /\ IntervalInForce /\ TemplateForAll
=============================================================================
