-------------------------------- MODULE Stats --------------------------------
(***************************************************************************)
(* Probe statistics (stats.c): get_probe_stats reads the kernel's memory,  *)
(* process and CPU counters one file after the other and reports their     *)
(* growth since the previous call; export_data_probe_stats exports the     *)
(* result, also that of a failed call.                                     *)
(*                                                                         *)
(* The kernel is external.  Its counters grow between any two reads, each  *)
(* read may fail, and the program sees the counters modulo the word size,  *)
(* one for all: unsigned long is as long as unsigned long long (LP64).     *)
(* fscanf's result is compared with EOF only.  Of a file in another format *)
(* than expected the values from the mismatch on are not stored, and the   *)
(* read counts as a success.  That depends on the kernel and the name of   *)
(* the program and is the same for all reads of a run.                     *)
(* Memory sizes are not told apart: a size is the name of its source.      *)
(***************************************************************************)
EXTENDS Integers, Sequences

CONSTANTS
  Word,          \* 2^64: the words of the counters are scaled down
  Boot,          \* kernel counters when the program starts
  MaxTicks,      \* bound: clock ticks after that
  STATS_MISSING  \* the literal -1 that stands for a missing value

Counters == [busy : Nat, idle : Nat, utime : Nat, stime : Nat]

\* Names of what is measured as a size or a time.
Sources == {<<"now">>, <<"MemFree">>, <<"MemTotal">>, <<"vsize">>, <<"rss">>, <<"zero">>}

\* What may be understood of /proc/meminfo (MemTotal comes first) and /proc/pid/stat.
\* A mismatch in /proc/stat stops the CPU time of the program and so has the effect
\* of a failed read, which is modelled.
Formats == {u \in SUBSET {"MemTotal", "MemFree", "process"} : "MemFree" \in u => "MemTotal" \in u}

\* The program's words are wide enough for what happens in one run.  No share, size
\* or time is negative.
ASSUME StatsAssumption ==
  /\ Word \in Nat \ {0}
  /\ MaxTicks \in Nat
  /\ MaxTicks + 1 < Word
  /\ Boot \subseteq {c \in Counters : c.utime + c.stime <= c.busy}
  /\ STATS_MISSING \notin Sources
  /\ STATS_MISSING \notin Nat \X Nat

VARIABLES
  understood,       \* kernel: the values that are in the format expected
  now,              \* kernel: CPU time of all (busy), of none (idle), of the probe
                    \* (0 while that is not understood)
  ticks,            \* kernel: clock ticks so far, for the bound
  pc,               \* "timer" outside, else the read that get_probe_stats is at
  first_execution,
  cpu,              \* user + nice + system (busy) and idle, as last read
  process,          \* utime and stime, as last read
  cpu_total,
  prev,             \* cpu_total_prev and the other previous values
  stat,             \* struct probe_stat of this call
  record,           \* what the collector decodes of this call's record
  \* history, read by properties only
  start,            \* kernel counters the first difference is taken from
  seen,             \* kernel counters at the last reads
  reported,         \* sums of all differences reported
  failed            \* a call has failed after it had read the process's time

statics == <<first_execution, cpu, process, cpu_total, prev>>
history == <<start, seen, reported, failed>>
kernel == <<understood, now, ticks>>
vars == <<kernel, pc, statics, stat, record, history>>

-----------------------------------------------------------------------------
(* The kernel                                                              *)

\* One clock tick goes to the probe (user or system mode), to another process
\* or to nobody.
Tick(used) ==
  /\ ticks < MaxTicks
  /\ ticks' = ticks + 1
  /\ LET one(C) == IF used \in C THEN 1 ELSE 0
     IN  now' = [busy  |-> now.busy + one({"utime", "stime", "other"}),
                 idle  |-> now.idle + one({"idle"}),
                 utime |-> now.utime + IF "process" \in understood THEN one({"utime"}) ELSE 0,
                 stime |-> now.stime + IF "process" \in understood THEN one({"stime"}) ELSE 0]
  /\ UNCHANGED <<understood, pc, statics, stat, record, history>>

\* get_proc_stat and get_proc_pid_stat, if they succeed.  What is not understood
\* keeps the 0 the static variable starts with.
get_proc_stat     == [busy |-> now.busy % Word, idle |-> now.idle % Word]
get_proc_pid_stat == [utime |-> now.utime % Word, stime |-> now.stime % Word]

\* History: the process's counters of p with the CPU's of c.
ProcessOf(p, c) == [busy |-> c.busy, idle |-> c.idle, utime |-> p.utime, stime |-> p.stime]

-----------------------------------------------------------------------------
(* get_probe_stats                                                         *)

\* A call with a failed read returns -1.
ReturnError ==
  /\ pc' = "export"
  /\ failed' = (failed \/ pc = "cpu")
  /\ UNCHANGED <<kernel, statics, stat, record, start, seen, reported>>

\* Faulty variant: the process's values are not saved.
Previous_CpuOnly == [total |-> cpu_total, idle |-> cpu.idle,
                     utime |-> prev.utime, stime |-> prev.stime]

\* The values of the previous run.
Previous == [total |-> cpu_total, idle |-> cpu.idle,
             utime |-> process.utime, stime |-> process.stime]

Fields == {"observationTimeMilliseconds", "systemCpuIdle", "systemMemFree",
           "processCpuUser", "processCpuSys", "processMemVzs",
           "processMemRss", "systemMemTotal"}

\* Every field but systemMemTotal is initialised; that one holds what the stack
\* has left there.
Missing(leftover) ==
  [f \in Fields |-> CASE f = "systemMemTotal" -> leftover
                      [] f = "observationTimeMilliseconds" -> <<"now">>
                      [] OTHER -> STATS_MISSING]

\* The timer's callback; only the first call takes a reading to compare with.
get_probe_stats ==
  /\ pc = "timer"
  /\ \E leftover \in {STATS_MISSING, <<"MemTotal">>} : stat' = Missing(leftover)
  /\ record' = << >>
  /\ \/ first_execution /\ pc' = "first_cpu" /\ UNCHANGED prev
     \/ ~first_execution /\ pc' = "mem" /\ prev' = Previous
  /\ UNCHANGED <<kernel, first_execution, cpu, process, cpu_total, history>>

FirstCpu ==
  /\ pc = "first_cpu"
  /\ \/ ReturnError
     \/ /\ pc' = "first_process"
        /\ cpu' = get_proc_stat
        /\ start' = now
        /\ seen' = now
        /\ UNCHANGED <<kernel, first_execution, process, cpu_total, prev, stat, record,
                       reported, failed>>

\* Faulty variant: the sum is taken before the idle time is moved back.
BackOneTick_Late ==
  /\ cpu' = [cpu EXCEPT !.idle = (@ - 1) % Word]
  /\ cpu_total' = (cpu.busy + cpu.idle) % Word

\* One idle tick less "just to create a difference during start-up".
BackOneTick ==
  /\ cpu' = [cpu EXCEPT !.idle = (@ - 1) % Word]
  /\ cpu_total' = (cpu.busy + cpu'.idle) % Word

\* Faulty variant: the process's time is counted from its start.
FirstProcess_FromStart ==
  /\ pc = "first_process"
  /\ pc' = "mem"
  /\ BackOneTick
  /\ first_execution' = FALSE
  /\ prev' = [total |-> cpu_total', idle |-> cpu'.idle, utime |-> 0, stime |-> 0]
  /\ start' = ProcessOf(now, start)
  /\ seen' = start'
  /\ UNCHANGED <<kernel, process, stat, record, reported, failed>>

FirstProcess ==
  /\ pc = "first_process"
  /\ \/ ReturnError
     \/ /\ pc' = "mem"
        /\ process' = get_proc_pid_stat
        /\ BackOneTick
        /\ first_execution' = FALSE
        /\ prev' = [total |-> cpu_total', idle |-> cpu'.idle,
                    utime |-> process'.utime, stime |-> process'.stime]
        /\ start' = ProcessOf(now, start)
        /\ seen' = start'
        /\ UNCHANGED <<kernel, stat, record, reported, failed>>

get_mem_usage ==
  /\ pc = "mem"
  /\ \/ ReturnError
     \/ /\ pc' = "process"
        /\ UNCHANGED <<kernel, statics, stat, record, history>>

Process ==
  /\ pc = "process"
  /\ \/ ReturnError
     \/ /\ pc' = "cpu"
        /\ process' = get_proc_pid_stat
        /\ seen' = ProcessOf(now, seen)
        /\ UNCHANGED <<kernel, first_execution, cpu, cpu_total, prev, stat, record,
                       start, reported, failed>>

\* Growth of an unsigned counter.
Delta(new, old) == (new - old) % Word

\* The differences of this call.
Deltas == [total |-> Delta(cpu_total', prev.total),
           idle  |-> Delta(cpu'.idle, prev.idle),
           utime |-> Delta(process.utime, prev.utime),
           stime |-> Delta(process.stime, prev.stime)]

\* A size as read; memTotal, memFree and the fields of process start as 0.
Size(value, name) == IF value \in understood THEN <<name>> ELSE <<"zero">>

\* Shares of the CPU are kept as pairs of numerator and denominator.
Measured ==
  [f \in Fields |->
     CASE f = "systemCpuIdle"  -> <<Deltas.idle, Deltas.total>>
       [] f = "processCpuSys"  -> <<Deltas.stime, Deltas.total>>
       [] f = "processCpuUser" -> <<Deltas.utime, Deltas.total>>
       [] f = "systemMemFree"  -> Size("MemFree", "MemFree")
       [] f = "systemMemTotal" -> Size("MemTotal", "MemTotal")
       [] f = "processMemVzs"  -> Size("process", "vsize")
       [] f = "processMemRss"  -> Size("process", "rss")
       [] OTHER -> stat[f]]

\* cpu and cpu_total are overwritten also when no time has passed and the call
\* fails ("could not get cpu usage").
Cpu ==
  /\ pc = "cpu"
  /\ \/ ReturnError
     \/ /\ pc' = "export"
        /\ cpu' = get_proc_stat
        /\ cpu_total' = (cpu'.busy + cpu'.idle) % Word
        /\ seen' = ProcessOf(seen, now)
        /\ \/ /\ Deltas.total = 0
              /\ failed' = TRUE
              /\ UNCHANGED <<stat, reported>>
           \/ /\ Deltas.total > 0
              /\ stat' = Measured
              /\ reported' = [c \in DOMAIN reported |-> reported[c] + Deltas[c]]
              /\ UNCHANGED failed
        /\ UNCHANGED <<kernel, first_execution, process, prev, record, start>>

-----------------------------------------------------------------------------
(* export_data_probe_stats                                                 *)

\* The template and the array handed to ipfix_export_array: names and lengths.
export_fields_probe_stats ==
  << <<"observationTimeMilliseconds", 8>>, <<"systemCpuIdle", 4>>,
     <<"systemMemFree", 8>>, <<"processCpuUser", 4>>, <<"processCpuSys", 4>>,
     <<"processMemVzs", 8>>, <<"processMemRss", 8>>, <<"systemMemTotal", 8>> >>

\* Faulty variant: the order of struct probe_stat.
fields_StructOrder ==
  << <<"observationTimeMilliseconds", 8>>, <<"systemCpuIdle", 4>>,
     <<"systemMemFree", 8>>, <<"systemMemTotal", 8>>, <<"processCpuUser", 4>>,
     <<"processCpuSys", 4>>, <<"processMemVzs", 8>>, <<"processMemRss", 8>> >>

fields ==
  << <<"observationTimeMilliseconds", 8>>, <<"systemCpuIdle", 4>>,
     <<"systemMemFree", 8>>, <<"processCpuUser", 4>>, <<"processCpuSys", 4>>,
     <<"processMemVzs", 8>>, <<"processMemRss", 8>>, <<"systemMemTotal", 8>> >>

\* A value is decoded as the template's field at its place if the lengths agree.
Decoded ==
  [f \in Fields |->
     LET i == CHOOSE i \in DOMAIN export_fields_probe_stats : export_fields_probe_stats[i][1] = f
     IN  IF fields[i][2] = export_fields_probe_stats[i][2] THEN stat[fields[i][1]] ELSE << >>]

\* The result of get_probe_stats is not looked at; an export may fail.
export_data_probe_stats ==
  /\ pc = "export"
  /\ pc' = "timer"
  /\ record' \in {<< >>, Decoded}
  /\ UNCHANGED <<kernel, statics, stat, history>>

-----------------------------------------------------------------------------
NoTime == [total |-> 0, idle |-> 0, utime |-> 0, stime |-> 0]

Init ==
  /\ understood \in Formats
  /\ \E b \in Boot : now = IF "process" \in understood THEN b
                             ELSE [b EXCEPT !.utime = 0, !.stime = 0]
  /\ ticks = 0
  /\ pc = "timer"
  /\ first_execution = TRUE
  /\ cpu = [busy |-> 0, idle |-> 0]
  /\ process = [utime |-> 0, stime |-> 0]
  /\ cpu_total = 0
  /\ prev = NoTime
  /\ stat = Missing(STATS_MISSING)
  /\ record = << >>
  /\ start = now /\ seen = now
  /\ reported = NoTime
  /\ failed = FALSE

Next ==
  \/ \E used \in {"utime", "stime", "other", "idle"} : Tick(used)
  \/ get_probe_stats
  \/ FirstCpu
  \/ FirstProcess
  \/ get_mem_usage
  \/ Process
  \/ Cpu
  \/ export_data_probe_stats

Spec == Init /\ [][Next]_vars

-----------------------------------------------------------------------------
(* Properties                                                              *)

Reads == {"first_cpu", "first_process", "mem", "process", "cpu"}

\* Types of the state.
TypeOK ==
  /\ understood \in Formats /\ now \in Counters /\ ticks \in 0..MaxTicks
  /\ pc \in Reads \cup {"timer", "export"}
  /\ first_execution \in BOOLEAN /\ failed \in BOOLEAN
  /\ cpu \in [busy : 0..Word-1, idle : 0..Word-1]
  /\ process \in [utime : 0..Word-1, stime : 0..Word-1]
  /\ cpu_total \in 0..Word-1
  /\ prev \in [total : 0..Word-1, idle : 0..Word-1, utime : 0..Word-1, stime : 0..Word-1]
  /\ start \in Counters /\ seen \in Counters
  /\ reported \in [total : Nat, idle : Nat, utime : Nat, stime : Nat]

\* The reports of get_probe_stats tile the time since its first reading: no CPU
\* time is in two of them and none is left out, whichever reads fail in between,
\* and although the counters wrap and the first idle time is moved back one tick.
CpuTimeTiled ==
  ~first_execution =>
    \/ reported = NoTime /\ seen.busy = start.busy /\ seen.idle = start.idle
    \/ /\ reported.idle = seen.idle - start.idle + 1
       /\ reported.total = reported.idle + seen.busy - start.busy

\* The probe's own CPU time is never reported twice, and left out only of a call
\* that fails after it was read.
ProcessTimeOnce ==
  \A t \in {"utime", "stime"} :
    /\ reported[t] <= seen[t] - start[t]
    /\ ~failed /\ pc # "cpu" => reported[t] = seen[t] - start[t]

\* Over all reports the probe has not used more than the CPU was busy, although
\* one report may show it to: the two are read one after the other, first the CPU
\* and then the process, and in later calls the other way round.
ProcessWithinBusy == reported.utime + reported.stime <= reported.total - reported.idle

\* Where the sizes of a report come from.
SizeOf == [systemMemFree |-> <<"MemFree">>, systemMemTotal |-> <<"MemTotal">>,
           processMemVzs |-> <<"vsize">>, processMemRss |-> <<"rss">>]

\* A record decodes, field by field, to what get_probe_stats has left: either all of
\* one measurement, each size from its own source, or everything marked as missing.
\* Two exceptions, which are the code's: systemMemTotal of a failed call is not
\* initialised and not covered, and what is not in the format expected is exported
\* as a measured 0.  Units are not compared: the comments have kilobytes and
\* percentages, the code exports the process's sizes in bytes and CPU shares.
ReportDelivered ==
  record # << >> =>
    /\ \A f \in Fields : record[f] = stat[f]
    /\ LET M == {f \in Fields : record[f] = STATS_MISSING} \ {"systemMemTotal"}
       IN  \/ /\ M = {}
              /\ \A f \in DOMAIN SizeOf :
                   \/ record[f] = SizeOf[f]
                   \/ record[f] = <<"zero">> /\ understood # {"MemTotal", "MemFree", "process"}
           \/ M = Fields \ {"systemMemTotal", "observationTimeMilliseconds"}
=============================================================================
