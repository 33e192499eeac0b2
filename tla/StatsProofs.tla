----------------------------- MODULE StatsProofs -----------------------------
(***************************************************************************)
(* Theorems about the probe statistics, for every word size, every boot    *)
(* time and every bound that fits in a word.  The first part shows that    *)
(* differences of wrapped counters are exact, the second that the program  *)
(* always takes them from the readings it reported last.                   *)
(***************************************************************************)
EXTENDS Stats, TLAPS

-----------------------------------------------------------------------------
(* Words                                                                   *)

\* The bounds on the words, without the rest of the assumption.
LEMMA WordFacts == Word \in Nat \ {0} /\ MaxTicks \in Nat /\ MaxTicks + 1 < Word
BY StatsAssumption

\* Quotient and remainder.
LEMMA Euclid ==
  ASSUME NEW a \in Int
  PROVE  /\ a % Word \in 0..Word-1
         /\ a \div Word \in Int
         /\ a = Word * (a \div Word) + (a % Word)
BY WordFacts

\* Multiples of the word size.
LEMMA Multiples ==
  ASSUME NEW m \in Int, NEW n \in Int
  PROVE  /\ Word * m \in Int
         /\ Word * (m - n) = Word * m - Word * n
         /\ Word * (m + n) = Word * m + Word * n
         /\ m >= 1 => Word * m >= Word
         /\ m <= -1 => Word * m <= -Word
<1>1. Word \in Nat \ {0}
  BY WordFacts
<1>2. Word * m \in Int
  BY <1>1
<1>3. Word * (m - n) = Word * m - Word * n /\ Word * (m + n) = Word * m + Word * n
  BY <1>1
<1>4. m >= 1 => Word * m >= Word
  BY <1>1
<1>5. m <= -1 => Word * m <= -Word
  BY <1>1
<1>6. QED BY <1>2, <1>3, <1>4, <1>5

\* A remainder is determined by the number it is congruent to.
LEMMA Remainder ==
  ASSUME NEW c \in 0..Word-1, NEW q \in Int
  PROVE  (c + Word * q) % Word = c
<1> DEFINE x == c + Word * q
           k == x \div Word
           r == x % Word
<1>1. Word \in Nat \ {0} /\ Word * q \in Int /\ x \in Int
  BY WordFacts, Multiples
<1>2. r \in 0..Word-1 /\ k \in Int /\ x = Word * k + r
  BY <1>1, Euclid
<1> HIDE DEF k, r
<1>3. Word * (q - k) = Word * q - Word * k /\ q - k \in Int /\ Word * k \in Int
  BY <1>2, Multiples
<1>4. Word * (q - k) = r - c
  BY <1>1, <1>2, <1>3
<1>5. r - c < Word /\ r - c > -Word
  BY <1>1, <1>2
<1>6. q - k = 0
  BY <1>1, <1>3, <1>4, <1>5, Multiples
<1>7. r = c
  BY <1>1, <1>2, <1>4, <1>6
<1>8. QED BY <1>7 DEF r

\* Adding multiples of the word size changes no remainder.
LEMMA Congruent ==
  ASSUME NEW a \in Int, NEW q \in Int
  PROVE  (a + Word * q) % Word = a % Word
<1> DEFINE k == a \div Word
           r == a % Word
<1>1. r \in 0..Word-1 /\ k \in Int /\ a = Word * k + r
  BY Euclid
<1> HIDE DEF k, r
<1>2. /\ Word * (k + q) = Word * k + Word * q /\ k + q \in Int
      /\ Word * k \in Int /\ Word * q \in Int
  <2>1. k \in Int /\ k + q \in Int
    BY <1>1
  <2>2. Word * (k + q) = Word * k + Word * q
    BY <2>1, Multiples
  <2>3. Word * k \in Int /\ Word * q \in Int
    BY <2>1, Multiples
  <2>4. QED BY <2>1, <2>2, <2>3
<1>3. a + Word * q = r + Word * (k + q)
  BY <1>1, <1>2
<1>4. (r + Word * (k + q)) % Word = r
  BY <1>1, <1>2, Remainder
<1>5. QED BY <1>3, <1>4 DEF r

\* Sums and differences of words are the words of sums and differences.
LEMMA WordSum ==
  ASSUME NEW a \in Int, NEW b \in Int
  PROVE  /\ ((a % Word) + (b % Word)) % Word = (a + b) % Word
         /\ ((a % Word) - (b % Word)) % Word = (a - b) % Word
<1> DEFINE k == a \div Word
           l == b \div Word
           r == a % Word
           s == b % Word
<1>1. /\ r \in Int /\ k \in Int /\ a = Word * k + r
      /\ s \in Int /\ l \in Int /\ b = Word * l + s
  BY Euclid, WordFacts
<1> HIDE DEF k, l, r, s
<1>2. /\ Word * k \in Int /\ Word * l \in Int
      /\ Word * (0 - k) = - (Word * k)
      /\ Word * (l - k) = Word * l - Word * k
      /\ Word * ((0 - k) - l) = Word * (0 - k) - Word * l
  BY <1>1, Multiples, WordFacts
<1>3. r + s = (a + b) + Word * ((0 - k) - l)
  BY <1>1, <1>2
<1>4. r - s = (a - b) + Word * (l - k)
  BY <1>1, <1>2
<1>5. (r + s) % Word = (a + b) % Word
  BY <1>1, <1>3, Congruent
<1>6. (r - s) % Word = (a - b) % Word
  BY <1>1, <1>4, Congruent
<1>7. QED BY <1>5, <1>6 DEF r, s

\* The same for a decrement.
LEMMA WordDecrement ==
  ASSUME NEW a \in Int
  PROVE  ((a % Word) - 1) % Word = (a - 1) % Word
<1> DEFINE k == a \div Word
           r == a % Word
<1>1. r \in Int /\ k \in Int /\ a = Word * k + r
  BY Euclid, WordFacts
<1> HIDE DEF k, r
<1>2. Word * k \in Int /\ Word * (0 - k) = - (Word * k) /\ 0 - k \in Int
  BY <1>1, Multiples, WordFacts
<1>3. r - 1 = (a - 1) + Word * (0 - k)
  BY <1>1, <1>2
<1>4. (r - 1) % Word = (a - 1) % Word
  BY <1>1, <1>2, <1>3, Congruent
<1>5. QED BY <1>4 DEF r

\* The growth of a counter is exact as long as it fits in a word.
LEMMA DeltaExact ==
  ASSUME NEW a \in Int, NEW b \in Int, b <= a, a - b < Word
  PROVE  Delta(a % Word, b % Word) = a - b
<1>1. ((a % Word) - (b % Word)) % Word = (a - b) % Word
  BY WordSum
<1>2. a - b \in 0..Word-1
  BY WordFacts
<1>3. (a - b) % Word = a - b
  BY <1>2, WordFacts
<1>4. QED BY <1>1, <1>3 DEF Delta

-----------------------------------------------------------------------------
(* The inductive invariant                                                 *)

\* The counters only grow, and by no more than the clock has ticked; the probe's
\* own time is part of the busy time since the first reading.
Monotone ==
  /\ start.busy <= seen.busy /\ seen.busy <= now.busy
  /\ start.idle <= seen.idle /\ seen.idle <= now.idle
  /\ start.utime <= seen.utime /\ seen.utime <= now.utime
  /\ start.stime <= seen.stime /\ seen.stime <= now.stime
  /\ (now.busy - start.busy) + (now.idle - start.idle) <= ticks
  /\ (now.utime - start.utime) + (now.stime - start.stime) <= now.busy - start.busy

\* Where the call is tells whether it is the first one.
Control ==
  /\ pc \in {"first_cpu", "first_process"} => first_execution
  /\ pc \in {"mem", "process", "cpu"} => ~first_execution
  /\ first_execution => reported = NoTime

\* One until the first report: the tick that BackOneTick has taken.
Back == IF reported.total = 0 THEN 1 ELSE 0

\* The program's copies are the words of the counters last read.
Copies ==
  /\ pc = "first_process" => /\ cpu.busy = start.busy % Word
                             /\ cpu.idle = start.idle % Word
  /\ ~first_execution =>
       /\ cpu.idle = (seen.idle - Back) % Word
       /\ cpu_total = (seen.busy + seen.idle - Back) % Word
       /\ process.utime = seen.utime % Word
       /\ process.stime = seen.stime % Word

\* The previous values are those of the last readings that were reported, or,
\* for the probe's own time, of the last ones.
Saved ==
  /\ pc \in {"mem", "process", "cpu"} => prev.total = cpu_total /\ prev.idle = cpu.idle
  /\ pc \in {"mem", "process"} => prev.utime = process.utime /\ prev.stime = process.stime

\* What has been reported of the CPU's time, in one form for both cases.
Tiled ==
  ~first_execution =>
    /\ reported.idle = seen.idle - start.idle + 1 - Back
    /\ reported.total = reported.idle + seen.busy - start.busy

\* What has been reported of the probe's own time, with what the call that is
\* under way will add.
Owned ==
  LET u == IF pc = "cpu" THEN Delta(process.utime, prev.utime) ELSE 0
      s == IF pc = "cpu" THEN Delta(process.stime, prev.stime) ELSE 0
  IN  /\ reported.utime + u <= seen.utime - start.utime
      /\ reported.stime + s <= seen.stime - start.stime
      /\ ~failed => /\ reported.utime + u = seen.utime - start.utime
                    /\ reported.stime + s = seen.stime - start.stime

IInv ==
  /\ TypeOK
  /\ Monotone
  /\ Control
  /\ Copies
  /\ Saved
  /\ Tiled
  /\ Owned
  /\ ProcessWithinBusy

-----------------------------------------------------------------------------
(* Steps                                                                   *)

\* A difference of words is a word.
LEMMA DeltaType ==
  ASSUME NEW a \in Int, NEW b \in Int
  PROVE  Delta(a, b) \in 0..Word-1
<1>1. a - b \in Int
  OBVIOUS
<1>2. (a - b) % Word \in 0..Word-1
  BY <1>1, Euclid, Zenon
<1>. QED
  BY <1>2 DEF Delta

\* The beginning.
LEMMA InitInv == Init => IInv
<1> SUFFICES ASSUME Init PROVE IInv
  OBVIOUS
<1>1. now \in Counters /\ start = now /\ seen = now
  <2>1. PICK b \in Boot : now = IF "process" \in understood THEN b
                                ELSE [b EXCEPT !.utime = 0, !.stime = 0]
    BY DEF Init
  <2>2. b \in Counters
    BY StatsAssumption
  <2>3. now \in Counters
    BY <2>1, <2>2 DEF Counters
  <2>. QED
    BY <2>3 DEF Init
<1>2. /\ now.busy \in Nat /\ now.idle \in Nat /\ now.utime \in Nat /\ now.stime \in Nat
      /\ 0 \in 0..Word-1 /\ 0 \in 0..MaxTicks
  BY <1>1, StatsAssumption DEF Counters
<1>3. TypeOK
  BY <1>1, <1>2 DEF Init, TypeOK, NoTime
<1>4. Monotone
  BY <1>1, <1>2 DEF Init, Monotone
<1>5. Control /\ Copies /\ Saved /\ Tiled
  BY DEF Init, Control, Copies, Saved, Tiled
<1>6. Owned /\ ProcessWithinBusy
  BY <1>1, <1>2 DEF Init, Owned, ProcessWithinBusy, NoTime
<1>7. QED BY <1>3, <1>4, <1>5, <1>6 DEF IInv

\* A tick.
LEMMA TickInv ==
  ASSUME IInv, NEW used \in {"utime", "stime", "other", "idle"}, Tick(used)
  PROVE  IInv'
<1> USE DEF IInv, Tick, statics, history
<1>1. TypeOK'
  BY StatsAssumption DEF TypeOK, Counters
<1>2. Monotone'
  <2>1. /\ now.busy \in Nat /\ now.idle \in Nat /\ now.utime \in Nat /\ now.stime \in Nat
        /\ start \in Counters /\ seen \in Counters /\ ticks \in Nat
    BY StatsAssumption DEF TypeOK, Counters
  <2>2. /\ start.busy \in Nat /\ start.idle \in Nat /\ start.utime \in Nat /\ start.stime \in Nat
        /\ seen.busy \in Nat /\ seen.idle \in Nat /\ seen.utime \in Nat /\ seen.stime \in Nat
    BY <2>1 DEF Counters
  <2>3. UNCHANGED <<start, seen>> /\ ticks' = ticks + 1
    OBVIOUS
  <2>4. \/ /\ now'.busy = now.busy + 1 /\ now'.idle = now.idle
           /\ \/ now'.utime = now.utime + 1 /\ now'.stime = now.stime
              \/ now'.utime = now.utime /\ now'.stime = now.stime + 1
              \/ now'.utime = now.utime /\ now'.stime = now.stime
        \/ /\ now'.busy = now.busy /\ now'.idle = now.idle + 1
           /\ now'.utime = now.utime /\ now'.stime = now.stime
    BY <2>1
  <2>5. QED BY <2>1, <2>2, <2>3, <2>4 DEF Monotone
<1>3. Control' /\ Copies' /\ Saved' /\ Tiled' /\ Owned' /\ ProcessWithinBusy'
  BY DEF Control, Copies, Saved, Tiled, Owned, ProcessWithinBusy, Back
<1>4. QED BY <1>1, <1>2, <1>3

\* A failed read loses at most the probe's time that was read before it.
LEMMA ErrorInv ==
  ASSUME IInv, pc \in Reads, ReturnError
  PROVE  IInv'
<1> USE DEF IInv, ReturnError, statics, kernel
<1>1. TypeOK'
  BY DEF TypeOK
<1>2. Monotone' /\ Control' /\ Copies' /\ Saved' /\ Tiled' /\ ProcessWithinBusy'
  BY DEF Monotone, Control, Copies, Saved, Tiled, ProcessWithinBusy, Back
<1>3. Owned'
  <2>1. CASE pc = "cpu"
    <3>1. Delta(process.utime, prev.utime) \in Nat /\ Delta(process.stime, prev.stime) \in Nat
      BY DeltaType, WordFacts DEF TypeOK
    <3>2. /\ reported.utime \in Nat /\ reported.stime \in Nat
          /\ seen.utime \in Nat /\ seen.stime \in Nat
          /\ start.utime \in Nat /\ start.stime \in Nat
      BY DEF TypeOK, Counters
    <3>3. /\ reported.utime + Delta(process.utime, prev.utime) <= seen.utime - start.utime
          /\ reported.stime + Delta(process.stime, prev.stime) <= seen.stime - start.stime
      BY <2>1 DEF Owned
    <3>4. reported.utime <= seen.utime - start.utime /\ reported.stime <= seen.stime - start.stime
      BY <3>1, <3>2, <3>3
    <3>5. pc' = "export" /\ failed' /\ UNCHANGED <<reported, seen, start>>
      BY <2>1
    <3>6. QED BY <3>2, <3>4, <3>5 DEF Owned
  <2>2. CASE pc # "cpu"
    BY <2>2 DEF TypeOK, Counters, Owned
  <2>3. QED BY <2>1, <2>2
<1>4. QED BY <1>1, <1>2, <1>3

\* The parts of the type invariant.
LEMMA Parts ==
  ASSUME TypeOK
  PROVE  /\ now.busy \in Nat /\ now.idle \in Nat /\ now.utime \in Nat /\ now.stime \in Nat
         /\ start.busy \in Nat /\ start.idle \in Nat /\ start.utime \in Nat /\ start.stime \in Nat
         /\ seen.busy \in Nat /\ seen.idle \in Nat /\ seen.utime \in Nat /\ seen.stime \in Nat
         /\ reported.total \in Nat /\ reported.idle \in Nat
         /\ reported.utime \in Nat /\ reported.stime \in Nat
         /\ ticks \in Nat /\ ticks <= MaxTicks
BY StatsAssumption DEF TypeOK, Counters

\* A call begins.
LEMMA CallInv ==
  ASSUME IInv, get_probe_stats
  PROVE  IInv'
<1> USE DEF IInv, get_probe_stats, kernel, history
<1>1. TypeOK'
  BY DEF TypeOK, Previous, Reads
<1>2. Monotone' /\ Tiled' /\ ProcessWithinBusy' /\ Copies'
  BY DEF Monotone, Tiled, ProcessWithinBusy, Copies, Back
<1>3. Control'
  BY DEF Control
<1>4. Saved'
  BY DEF Saved, Previous
<1>5. Owned'
  BY Parts DEF Owned
<1>6. QED BY <1>1, <1>2, <1>3, <1>4, <1>5

\* The first reading of the CPU's counters.
LEMMA FirstCpuInv ==
  ASSUME IInv, FirstCpu
  PROVE  IInv'
<1>1. CASE ReturnError
  BY <1>1, ErrorInv DEF FirstCpu, Reads
<1>2. CASE ~ReturnError
  <2> USE DEF IInv, kernel
  <2>1. /\ pc = "first_cpu" /\ pc' = "first_process"
        /\ cpu' = get_proc_stat /\ start' = now /\ seen' = now
        /\ UNCHANGED <<kernel, first_execution, process, cpu_total, prev, reported, failed>>
    BY <1>2 DEF FirstCpu
  <2>2. now.busy % Word \in 0..Word-1 /\ now.idle % Word \in 0..Word-1
    BY Parts, Euclid
  <2>3. first_execution /\ reported = NoTime
    BY <2>1 DEF Control
  <2>4. TypeOK'
    BY <2>1, <2>2 DEF TypeOK, get_proc_stat, Reads
  <2>5. Monotone'
    BY <2>1, Parts DEF Monotone
  <2>6. Control' /\ Saved' /\ Tiled' /\ ProcessWithinBusy'
    BY <2>1, <2>3 DEF Control, Saved, Tiled, ProcessWithinBusy
  <2>7. Copies'
    BY <2>1, <2>3 DEF Copies, get_proc_stat
  <2>8. Owned'
    BY <2>1, <2>3, Parts DEF Owned, NoTime
  <2>9. QED BY <2>4, <2>5, <2>6, <2>7, <2>8
<1>3. QED BY <1>1, <1>2

\* The first reading of the process's counters; the idle time is moved back.
LEMMA FirstProcessInv ==
  ASSUME IInv, FirstProcess
  PROVE  IInv'
<1>1. CASE ReturnError
  BY <1>1, ErrorInv DEF FirstProcess, Reads
<1>2. CASE ~ReturnError
  <2> USE DEF IInv, kernel
  <2>1. /\ pc = "first_process" /\ pc' = "mem"
        /\ process' = get_proc_pid_stat /\ BackOneTick /\ first_execution' = FALSE
        /\ prev' = [total |-> cpu_total', idle |-> cpu'.idle,
                    utime |-> process'.utime, stime |-> process'.stime]
        /\ start' = ProcessOf(now, start) /\ seen' = start'
        /\ UNCHANGED <<kernel, reported, failed>>
    BY <1>2 DEF FirstProcess
  <2>2. first_execution /\ reported = NoTime
    BY <2>1 DEF Control
  <2>3. cpu.busy = start.busy % Word /\ cpu.idle = start.idle % Word
    BY <2>1 DEF Copies
  <2>4. cpu \in [busy : 0..Word-1, idle : 0..Word-1]
    BY DEF TypeOK
  <2>5. cpu'.busy = cpu.busy /\ cpu'.idle = (start.idle - 1) % Word
    <3>1. cpu'.busy = cpu.busy /\ cpu'.idle = ((start.idle % Word) - 1) % Word
      BY <2>1, <2>3, <2>4 DEF BackOneTick
    <3>2. QED BY <3>1, Parts, WordDecrement
  <2>6. cpu_total' = (start.busy + start.idle - 1) % Word
    <3>1. cpu_total' = ((start.busy % Word) + ((start.idle - 1) % Word)) % Word
      BY <2>1, <2>3, <2>5 DEF BackOneTick
    <3>2. ((start.busy % Word) + ((start.idle - 1) % Word)) % Word
            = (start.busy + (start.idle - 1)) % Word
      <4>1. start.busy \in Int /\ start.idle - 1 \in Int
        BY Parts
      <4>2. QED BY <4>1, WordSum
    <3>3. start.busy + (start.idle - 1) = start.busy + start.idle - 1
      BY Parts
    <3>4. QED BY <3>1, <3>2, <3>3
  <2>7. /\ start'.busy = start.busy /\ start'.idle = start.idle
        /\ start'.utime = now.utime /\ start'.stime = now.stime
        /\ start' \in Counters
    BY <2>1, Parts DEF ProcessOf, Counters
  <2>8. TypeOK'
    <3>1. cpu' \in [busy : 0..Word-1, idle : 0..Word-1]
      BY <2>1, <2>4, Parts, WordFacts, Euclid DEF BackOneTick
    <3>2. process' \in [utime : 0..Word-1, stime : 0..Word-1]
      BY <2>1, Parts, Euclid DEF get_proc_pid_stat
    <3>3. cpu_total' \in 0..Word-1
      BY <2>6, Parts, Euclid
    <3>4. prev' \in [total : 0..Word-1, idle : 0..Word-1, utime : 0..Word-1, stime : 0..Word-1]
      BY <2>1, <3>1, <3>2, <3>3
    <3>5. QED BY <2>1, <2>7, <3>1, <3>2, <3>3, <3>4 DEF TypeOK, Reads
  <2>9. Monotone'
    BY <2>1, <2>7, Parts DEF Monotone
  <2>10. Back' = 1
    BY <2>1, <2>2 DEF Back, NoTime
  <2>11. Copies'
    BY <2>1, <2>5, <2>6, <2>7, <2>10 DEF Copies, get_proc_pid_stat
  <2>12. Control' /\ Saved'
    BY <2>1 DEF Control, Saved
  <2>13. Tiled' /\ Owned' /\ ProcessWithinBusy'
    <3>1. /\ reported'.total = 0 /\ reported'.idle = 0
          /\ reported'.utime = 0 /\ reported'.stime = 0
      BY <2>1, <2>2 DEF NoTime
    <3>2. seen' = start'
      BY <2>1
    <3>3. Tiled'
      BY <2>7, <2>10, <3>1, <3>2, Parts DEF Tiled
    <3>4. Owned'
      BY <2>1, <2>7, <3>1, <3>2, Parts DEF Owned
    <3>5. QED BY <3>1, <3>3, <3>4 DEF ProcessWithinBusy
  <2>14. QED BY <2>8, <2>9, <2>11, <2>12, <2>13
<1>3. QED BY <1>1, <1>2

\* The memory is read; nothing of it is kept.
LEMMA MemInv ==
  ASSUME IInv, get_mem_usage
  PROVE  IInv'
<1>1. CASE ReturnError
  BY <1>1, ErrorInv DEF get_mem_usage, Reads
<1>2. CASE ~ReturnError
  <2> USE DEF IInv, kernel, statics, history
  <2>1. /\ pc = "mem" /\ pc' = "process"
        /\ UNCHANGED <<kernel, statics, history>>
    BY <1>2 DEF get_mem_usage
  <2>2. TypeOK'
    BY <2>1 DEF TypeOK, Reads
  <2>3. Monotone' /\ Control' /\ Copies' /\ Saved' /\ Tiled' /\ ProcessWithinBusy'
    BY <2>1 DEF Monotone, Control, Copies, Saved, Tiled, ProcessWithinBusy, Back
  <2>4. Owned'
    BY <2>1 DEF Owned
  <2>5. QED BY <2>2, <2>3, <2>4
<1>3. QED BY <1>1, <1>2

\* The process's counters are read: what they have grown is owed to a report.
LEMMA ProcessInv ==
  ASSUME IInv, Process
  PROVE  IInv'
<1>1. CASE ReturnError
  BY <1>1, ErrorInv DEF Process, Reads
<1>2. CASE ~ReturnError
  <2> USE DEF IInv, kernel
  <2>1. /\ pc = "process" /\ pc' = "cpu"
        /\ process' = get_proc_pid_stat
        /\ seen' = ProcessOf(now, seen)
        /\ UNCHANGED <<kernel, first_execution, cpu, cpu_total, prev, start, reported, failed>>
    BY <1>2 DEF Process
  <2>2. /\ seen'.busy = seen.busy /\ seen'.idle = seen.idle
        /\ seen'.utime = now.utime /\ seen'.stime = now.stime
        /\ seen' \in Counters
    BY <2>1, Parts DEF ProcessOf, Counters
  <2>3. process'.utime = now.utime % Word /\ process'.stime = now.stime % Word
    BY <2>1 DEF get_proc_pid_stat
  <2>4. prev.utime = seen.utime % Word /\ prev.stime = seen.stime % Word
    BY <2>1 DEF Saved, Copies, Control
  <2>5. TypeOK'
    <3>1. process' \in [utime : 0..Word-1, stime : 0..Word-1]
      BY <2>1, Parts, Euclid DEF get_proc_pid_stat
    <3>2. QED BY <2>1, <2>2, <3>1 DEF TypeOK, Reads
  <2>6. Monotone'
    BY <2>1, <2>2, Parts DEF Monotone
  <2>7. Control' /\ Saved' /\ ProcessWithinBusy' /\ Tiled'
    BY <2>1, <2>2 DEF Control, Saved, ProcessWithinBusy, Tiled, Back
  <2>8. Copies'
    BY <2>1, <2>2, <2>3 DEF Copies, Back
  <2>9. Owned'
    <3>1. now.utime - seen.utime < Word /\ now.stime - seen.stime < Word
      BY Parts, WordFacts DEF Monotone
    <3>2. /\ Delta(process'.utime, prev.utime) = now.utime - seen.utime
          /\ Delta(process'.stime, prev.stime) = now.stime - seen.stime
      BY <2>3, <2>4, <3>1, Parts, DeltaExact DEF Monotone
    <3>3. /\ reported.utime <= seen.utime - start.utime
          /\ reported.stime <= seen.stime - start.stime
          /\ ~failed => /\ reported.utime = seen.utime - start.utime
                        /\ reported.stime = seen.stime - start.stime
      BY <2>1, Parts DEF Owned
    <3>4. prev' = prev /\ reported' = reported /\ start' = start /\ failed' = failed
      BY <2>1
    <3>5. QED BY <2>1, <2>2, <3>2, <3>3, <3>4, Parts DEF Owned
  <2>10. QED BY <2>5, <2>6, <2>7, <2>8, <2>9
<1>3. QED BY <1>1, <1>2

\* The record is exported.
LEMMA ExportInv ==
  ASSUME IInv, export_data_probe_stats
  PROVE  IInv'
<1> USE DEF IInv, export_data_probe_stats, kernel, statics, history
<1>1. TypeOK'
  BY DEF TypeOK
<1>2. Monotone' /\ Control' /\ Copies' /\ Saved' /\ Tiled' /\ ProcessWithinBusy'
  BY DEF Monotone, Control, Copies, Saved, Tiled, ProcessWithinBusy, Back
<1>3. Owned'
  BY DEF Owned
<1>4. QED BY <1>1, <1>2, <1>3

\* The CPU's counters are read and the call reports, unless no time has passed.
LEMMA CpuInv ==
  ASSUME IInv, Cpu
  PROVE  IInv'
<1>1. CASE ReturnError
  BY <1>1, ErrorInv DEF Cpu, Reads
<1>2. CASE ~ReturnError
  <2> USE DEF IInv, kernel
  <2> DEFINE D == Deltas
  <2>1. /\ pc = "cpu" /\ pc' = "export"
        /\ cpu' = get_proc_stat
        /\ cpu_total' = (cpu'.busy + cpu'.idle) % Word
        /\ seen' = ProcessOf(seen, now)
        /\ \/ D.total = 0 /\ failed' = TRUE /\ UNCHANGED reported
           \/ /\ D.total > 0
              /\ reported' = [c \in DOMAIN reported |-> reported[c] + D[c]]
              /\ UNCHANGED failed
        /\ UNCHANGED <<kernel, first_execution, process, prev, start>>
    BY <1>2 DEF Cpu
  <2>2. ~first_execution
    BY <2>1 DEF Control
  <2>3. /\ seen'.busy = now.busy /\ seen'.idle = now.idle
        /\ seen'.utime = seen.utime /\ seen'.stime = seen.stime
        /\ seen' \in Counters
    BY <2>1, Parts DEF ProcessOf, Counters
  <2>4. Back \in {0, 1} /\ (Back = 0 <=> reported.total # 0)
    BY Parts DEF Back
  <2>5. cpu'.busy = now.busy % Word /\ cpu'.idle = now.idle % Word
    BY <2>1 DEF get_proc_stat
  <2>6. cpu_total' = (now.busy + now.idle) % Word
    BY <2>1, <2>5, Parts, WordSum
  <2>7. /\ prev.total = (seen.busy + seen.idle - Back) % Word
        /\ prev.idle = (seen.idle - Back) % Word
    BY <2>1, <2>2 DEF Saved, Copies
  <2>8. D.total = now.busy + now.idle - (seen.busy + seen.idle - Back)
    <3> DEFINE a == now.busy + now.idle
               b == seen.busy + seen.idle - Back
    <3>1. a \in Int /\ b \in Int /\ b <= a /\ a - b < Word
      BY <2>4, Parts, WordFacts DEF Monotone
    <3>2. Delta(a % Word, b % Word) = a - b
      BY <3>1, DeltaExact
    <3>3. D.total = Delta(cpu_total', prev.total)
      BY DEF Deltas
    <3>4. cpu_total' = a % Word /\ prev.total = b % Word
      BY <2>6, <2>7
    <3> HIDE DEF D
    <3>5. D.total = a - b
      BY <3>2, <3>3, <3>4
    <3>6. a - b = now.busy + now.idle - (seen.busy + seen.idle - Back)
      BY <2>4, Parts
    <3> HIDE DEF a, b
    <3>7. QED BY <3>5, <3>6
  <2>9. D.idle = now.idle - (seen.idle - Back)
    <3> DEFINE a == now.idle
               b == seen.idle - Back
    <3>1. a \in Int /\ b \in Int /\ b <= a /\ a - b < Word
      BY <2>4, Parts, WordFacts DEF Monotone
    <3>2. Delta(a % Word, b % Word) = a - b
      BY <3>1, DeltaExact
    <3>3. QED BY <2>5, <2>7, <3>2 DEF Deltas
  <2>10. /\ D.utime = Delta(process.utime, prev.utime) /\ D.utime \in Nat
         /\ D.stime = Delta(process.stime, prev.stime) /\ D.stime \in Nat
    BY DeltaType, WordFacts DEF TypeOK, Deltas
  <2>11. D.total \in Nat /\ D.idle \in Nat
    BY <2>4, <2>8, <2>9, Parts DEF Monotone
  <2>12. /\ reported.utime + D.utime <= seen.utime - start.utime
         /\ reported.stime + D.stime <= seen.stime - start.stime
         /\ ~failed => /\ reported.utime + D.utime = seen.utime - start.utime
                       /\ reported.stime + D.stime = seen.stime - start.stime
    BY <2>1, <2>10 DEF Owned
  <2>13. Monotone'
    BY <2>1, <2>3, Parts DEF Monotone
  <2>14. Control' /\ Saved'
    BY <2>1, <2>2 DEF Control, Saved
  <2>15. /\ cpu' \in [busy : 0..Word-1, idle : 0..Word-1]
         /\ cpu_total' \in 0..Word-1
    <3>1. now.busy \in Int /\ now.idle \in Int /\ now.busy + now.idle \in Int
      BY Parts
    <3>2. QED BY <2>1, <2>6, <3>1, Euclid DEF get_proc_stat
  <2>16. CASE D.total = 0
    <3> HIDE DEF D
    <3>1. Back = 0 /\ seen.busy = now.busy /\ seen.idle = now.idle
      <4>1. seen.busy <= now.busy /\ seen.idle <= now.idle
        BY DEF Monotone
      <4> HIDE DEF IInv
      <4>2. now.busy + now.idle - (seen.busy + seen.idle - Back) = 0
        BY <2>8, <2>16
      <4>3. /\ now.busy \in Nat /\ now.idle \in Nat /\ seen.busy \in Nat /\ seen.idle \in Nat
            /\ Back \in Nat
        BY <2>4, Parts DEF IInv
      <4>4. QED BY <4>1, <4>2, <4>3
    <3>2. failed' = TRUE /\ reported' = reported
      BY <2>1, <2>16
    <3>3. Back' = 0
      BY <3>1, <3>2 DEF Back
    <3>4. TypeOK'
      BY <2>1, <2>3, <2>15, <3>2 DEF TypeOK
    <3>5. Copies'
      <4>1. seen'.idle - Back' = now.idle /\ seen'.busy + seen'.idle - Back' = now.busy + now.idle
        BY <2>3, <3>3, Parts
      <4>2. process'.utime = seen'.utime % Word /\ process'.stime = seen'.stime % Word
        BY <2>1, <2>2, <2>3 DEF Copies
      <4>3. QED BY <2>1, <2>5, <2>6, <4>1, <4>2 DEF Copies
    <3>6. Tiled' /\ ProcessWithinBusy'
      BY <2>1, <2>3, <3>1, <3>2, <3>3 DEF Tiled, ProcessWithinBusy
    <3>7. Owned'
      <4>1. reported.utime <= seen.utime - start.utime /\ reported.stime <= seen.stime - start.stime
        BY <2>10, <2>12, Parts
      <4>2. QED BY <2>1, <2>3, <3>2, <4>1, Parts DEF Owned
    <3>8. QED BY <2>13, <2>14, <3>4, <3>5, <3>6, <3>7
  <2>17. CASE D.total > 0
    <3>1. /\ reported' = [c \in DOMAIN reported |-> reported[c] + D[c]]
          /\ failed' = failed
      BY <2>1, <2>11, <2>17
    <3>2. DOMAIN reported = {"total", "idle", "utime", "stime"}
      BY DEF TypeOK
    <3>3. /\ reported'.total = reported.total + D.total
          /\ reported'.idle = reported.idle + D.idle
          /\ reported'.utime = reported.utime + D.utime
          /\ reported'.stime = reported.stime + D.stime
      BY <3>1, <3>2
    <3>4. reported' \in [total : Nat, idle : Nat, utime : Nat, stime : Nat]
      <4>1. reported' = [c \in {"total", "idle", "utime", "stime"} |-> reported[c] + D[c]]
        BY <3>1, <3>2
      <4>2. \A c \in {"total", "idle", "utime", "stime"} : reported[c] + D[c] \in Nat
        BY <2>10, <2>11, Parts
      <4>3. QED BY <4>1, <4>2
    <3> HIDE DEF D
    <3>5. Back' = 0
      BY <2>11, <2>17, <3>3, Parts DEF Back
    <3>6. TypeOK'
      BY <2>1, <2>3, <2>15, <3>1, <3>4 DEF TypeOK
    <3>7. Copies'
      <4>1. seen'.idle - Back' = now.idle /\ seen'.busy + seen'.idle - Back' = now.busy + now.idle
        BY <2>3, <3>5, Parts
      <4>2. process'.utime = seen'.utime % Word /\ process'.stime = seen'.stime % Word
        BY <2>1, <2>2, <2>3 DEF Copies
      <4>3. QED BY <2>1, <2>5, <2>6, <4>1, <4>2 DEF Copies
    <3>8. /\ reported'.idle = now.idle - start.idle + 1
          /\ reported'.total = reported'.idle + now.busy - start.busy
      <4>1. /\ reported.idle = seen.idle - start.idle + 1 - Back
            /\ reported.total = reported.idle + seen.busy - start.busy
        BY <2>2 DEF Tiled
      <4>2. Back \in Int
        BY <2>4
      <4>3. /\ now.busy \in Int /\ now.idle \in Int /\ seen.busy \in Int /\ seen.idle \in Int
            /\ start.busy \in Int /\ start.idle \in Int
            /\ reported.idle \in Int /\ reported.total \in Int
        BY Parts
      <4> HIDE DEF IInv
      <4>4. reported'.idle = now.idle - start.idle + 1
        BY <2>9, <3>3, <4>1, <4>2, <4>3
      <4>5. reported'.total = reported.total + (now.busy + now.idle - (seen.busy + seen.idle - Back))
        BY <2>8, <3>3
      <4>6. QED BY <4>1, <4>2, <4>3, <4>4, <4>5
    <3>9. Tiled'
      BY <2>1, <2>3, <3>5, <3>8, Parts DEF Tiled
    <3>10. Owned'
      BY <2>1, <2>3, <2>10, <2>12, <3>1, <3>3, Parts DEF Owned
    <3>11. ProcessWithinBusy'
      <4>1. reported'.total - reported'.idle = now.busy - start.busy
        BY <3>8, <3>4, Parts
      <4>2. reported'.utime + reported'.stime <= now.busy - start.busy
        BY <2>10, <2>12, <3>3, Parts DEF Monotone
      <4>3. QED BY <4>1, <4>2 DEF ProcessWithinBusy
    <3>12. QED BY <2>13, <2>14, <3>6, <3>7, <3>9, <3>10, <3>11
  <2>18. QED BY <2>11, <2>16, <2>17
<1>3. QED BY <1>1, <1>2

\* Every step preserves the inductive invariant.
LEMMA NextInv ==
  ASSUME IInv, [Next]_vars
  PROVE  IInv'
<1>1. CASE Next
  <2>1. ASSUME NEW used \in {"utime", "stime", "other", "idle"}, Tick(used) PROVE IInv'
    BY <2>1, TickInv
  <2>2. QED BY <1>1, <2>1, CallInv, FirstCpuInv, FirstProcessInv, MemInv, ProcessInv,
               CpuInv, ExportInv DEF Next
<1>2. CASE UNCHANGED vars
  <2> USE DEF vars, kernel, statics, history
  <2>1. TypeOK' = TypeOK /\ Monotone' = Monotone /\ Control' = Control
    BY <1>2 DEF TypeOK, Monotone, Control
  <2>2. Copies' = Copies /\ Saved' = Saved /\ Tiled' = Tiled
    BY <1>2 DEF Copies, Saved, Tiled, Back
  <2>3. Owned' = Owned /\ ProcessWithinBusy' = ProcessWithinBusy
    BY <1>2 DEF Owned, ProcessWithinBusy
  <2>4. QED BY <2>1, <2>2, <2>3 DEF IInv
<1>3. QED BY <1>1, <1>2

\* The inductive invariant gives the properties.
LEMMA Consequences == IInv => CpuTimeTiled /\ ProcessTimeOnce
<1> SUFFICES ASSUME IInv PROVE CpuTimeTiled /\ ProcessTimeOnce
  OBVIOUS
<1> USE DEF IInv
<1>1. CpuTimeTiled
  <2> SUFFICES ASSUME ~first_execution PROVE CpuTimeTiled
    BY DEF CpuTimeTiled
  <2>1. /\ reported.idle = seen.idle - start.idle + 1 - Back
        /\ reported.total = reported.idle + seen.busy - start.busy
    BY DEF Tiled
  <2>2. CASE reported.total = 0
    <3>1. Back = 1
      BY <2>2 DEF Back
    <3>2. reported.idle = 0 /\ seen.busy = start.busy /\ seen.idle = start.idle
      <4>1. reported.idle = seen.idle - start.idle
        BY <2>1, <3>1, Parts
      <4>2. start.busy <= seen.busy /\ start.idle <= seen.idle
        BY DEF Monotone
      <4> HIDE DEF IInv
      <4>3. /\ seen.busy \in Int /\ seen.idle \in Int /\ start.busy \in Int /\ start.idle \in Int
            /\ reported.idle \in Int
        BY Parts DEF IInv
      <4>4. reported.idle + seen.busy - start.busy = 0
        BY <2>1, <2>2
      <4>5. seen.busy - start.busy \in Nat /\ seen.idle - start.idle \in Nat
        BY <4>2, <4>3
      <4>6. reported.idle = 0 /\ seen.busy - start.busy = 0
        BY <4>1, <4>4, <4>5
      <4>7. QED BY <4>1, <4>3, <4>6
    <3>3. reported.utime = 0 /\ reported.stime = 0
      BY <2>2, <3>2, Parts DEF ProcessWithinBusy
    <3>4. reported = NoTime
      BY <2>2, <3>2, <3>3 DEF TypeOK, NoTime
    <3>5. QED BY <3>2, <3>4 DEF CpuTimeTiled
  <2>3. CASE reported.total # 0
    <3>1. Back = 0
      BY <2>3 DEF Back
    <3>2. QED BY <2>1, <3>1, Parts DEF CpuTimeTiled
  <2>4. QED BY <2>2, <2>3
<1>2. ProcessTimeOnce
  <2>1. CASE pc = "cpu"
    <3>1. Delta(process.utime, prev.utime) \in Nat /\ Delta(process.stime, prev.stime) \in Nat
      BY DeltaType, WordFacts DEF TypeOK
    <3>2. /\ reported.utime + Delta(process.utime, prev.utime) <= seen.utime - start.utime
          /\ reported.stime + Delta(process.stime, prev.stime) <= seen.stime - start.stime
      BY <2>1 DEF Owned
    <3>3. reported.utime <= seen.utime - start.utime /\ reported.stime <= seen.stime - start.stime
      BY <3>1, <3>2, Parts
    <3>4. QED BY <2>1, <3>3 DEF ProcessTimeOnce
  <2>2. CASE pc # "cpu"
    BY <2>2, Parts DEF Owned, ProcessTimeOnce
  <2>3. QED BY <2>1, <2>2
<1>3. QED BY <1>1, <1>2

\* The inductive invariant holds.
LEMMA Invariant == Spec => []IInv
<1>1. Init => IInv
  BY InitInv
<1>2. IInv /\ [Next]_vars => IInv'
  BY NextInv
<1>3. QED BY <1>1, <1>2, PTL DEF Spec

\* The reports tile the time since the first reading (CpuTimeTiled), whichever
\* reads of get_probe_stats fail and wherever the counters wrap.
THEOREM ReportsTile == Spec => []CpuTimeTiled
BY Invariant, Consequences, PTL

\* The probe's own time is reported once, or lost with a call that failed after
\* reading it (ProcessTimeOnce).
THEOREM OwnTimeOnce == Spec => []ProcessTimeOnce
BY Invariant, Consequences, PTL

\* Over all reports the probe uses no more than the busy time (ProcessWithinBusy),
\* although the two are read one after the other.
THEOREM OwnTimeWithinBusy == Spec => []ProcessWithinBusy
<1>1. IInv => ProcessWithinBusy
  BY DEF IInv
<1>2. QED BY Invariant, <1>1, PTL

-----------------------------------------------------------------------------
(* The exported record                                                     *)

\* Every field but the time and systemMemTotal has a value, or none has.
MissingFields == {f \in Fields : stat[f] = STATS_MISSING} \ {"systemMemTotal"}
AllMissing == Fields \ {"systemMemTotal", "observationTimeMilliseconds"}
Sized(x) ==
  \A f \in DOMAIN SizeOf :
    \/ x[f] = SizeOf[f]
    \/ x[f] = <<"zero">> /\ understood # {"MemTotal", "MemFree", "process"}
StatShape ==
  /\ stat["observationTimeMilliseconds"] = <<"now">>
  /\ (MissingFields = {} /\ Sized(stat)) \/ MissingFields = AllMissing

\* A record is there only until the next call, and it is what the call has left.
RecordCurrent ==
  record # << >> => pc = "timer" /\ \A f \in Fields : record[f] = stat[f]

\* export_fields_probe_stats and the exported array name every field once and at
\* the same place, with the same length.
LEMMA DecodedAsMeasured == \A f \in Fields : Decoded[f] = stat[f]
<1> SUFFICES ASSUME NEW f \in Fields PROVE Decoded[f] = stat[f]
  OBVIOUS
<1> DEFINE E == export_fields_probe_stats
           i == CHOOSE i \in DOMAIN E : E[i][1] = f
<1>1. \E j \in DOMAIN E : E[j][1] = f
  <2>1. DOMAIN E = 1..8
    BY DEF export_fields_probe_stats
  <2>2. /\ E[1][1] = "observationTimeMilliseconds" /\ E[2][1] = "systemCpuIdle"
        /\ E[3][1] = "systemMemFree" /\ E[4][1] = "processCpuUser"
        /\ E[5][1] = "processCpuSys" /\ E[6][1] = "processMemVzs"
        /\ E[7][1] = "processMemRss" /\ E[8][1] = "systemMemTotal"
    BY DEF export_fields_probe_stats
  <2> HIDE DEF E
  <2>3. QED BY <2>1, <2>2 DEF Fields
<1>2. i \in DOMAIN E /\ E[i][1] = f
  BY <1>1
<1>3. fields = E
  BY DEF fields, export_fields_probe_stats
<1>4. Decoded[f] = IF fields[i][2] = E[i][2] THEN stat[fields[i][1]] ELSE << >>
  BY DEF Decoded
<1> HIDE DEF E, i
<1>5. QED BY <1>2, <1>3, <1>4

\* The formats of the files stay what they are.
LEMMA FormatsFixed == [Next]_vars => understood' = understood
<1>1. ASSUME NEW used, Tick(used) PROVE understood' = understood
  BY <1>1 DEF Tick
<1>2. ReturnError => understood' = understood
  BY DEF ReturnError, kernel
<1>3. FirstCpu \/ FirstProcess \/ get_mem_usage => understood' = understood
  BY <1>2 DEF FirstCpu, FirstProcess, get_mem_usage, kernel
<1>4. Process \/ Cpu => understood' = understood
  BY <1>2 DEF Process, Cpu, kernel
<1>5. get_probe_stats \/ export_data_probe_stats => understood' = understood
  BY DEF get_probe_stats, export_data_probe_stats, kernel
<1>6. UNCHANGED vars => understood' = understood
  BY DEF vars, kernel
<1>. QED
  BY <1>1, <1>3, <1>4, <1>5, <1>6 DEF Next

\* A step keeps the record what the call has left, which is all or nothing.
LEMMA ReportStep ==
  ASSUME IInv, IInv', StatShape, RecordCurrent, [Next]_vars
  PROVE  StatShape' /\ RecordCurrent'
<1> USE FormatsFixed
<1>1. CASE stat' = stat /\ ((record' = record /\ (pc' = pc \/ pc # "timer")) \/ record' = << >>)
  <2>1. StatShape'
    BY <1>1 DEF StatShape, MissingFields, Sized
  <2>2. RecordCurrent'
    BY <1>1 DEF RecordCurrent
  <2>3. QED BY <2>1, <2>2
<1>2. CASE get_probe_stats
  <2>1. PICK leftover : stat' = Missing(leftover)
    BY <1>2 DEF get_probe_stats
  <2>2. \A f \in Fields : stat'[f] = (CASE f = "systemMemTotal" -> leftover
                                       [] f = "observationTimeMilliseconds" -> <<"now">>
                                       [] OTHER -> STATS_MISSING)
    BY <2>1 DEF Missing
  <2>3. /\ stat'["observationTimeMilliseconds"] = <<"now">>
        /\ \A f \in AllMissing : stat'[f] = STATS_MISSING
    BY <2>2 DEF AllMissing, Fields
  <2>4. <<"now">> # STATS_MISSING
    BY StatsAssumption DEF Sources
  <2>5. MissingFields' = AllMissing
    BY <2>3, <2>4 DEF MissingFields, AllMissing
  <2>6. QED BY <1>2, <2>3, <2>5 DEF StatShape, RecordCurrent, get_probe_stats
<1>3. CASE export_data_probe_stats
  <2>1. stat' = stat /\ pc' = "timer" /\ record' \in {<< >>, Decoded}
    BY <1>3 DEF export_data_probe_stats
  <2>2. RecordCurrent'
    BY <2>1, DecodedAsMeasured DEF RecordCurrent
  <2>3. QED BY <2>1, <2>2 DEF StatShape, MissingFields, Sized
<1>4. CASE pc = "cpu" /\ stat' = Measured /\ record' = record /\ cpu' \in [busy : Int, idle : Int]
  <2>1. record = << >>
    BY <1>4 DEF RecordCurrent
  <2> DEFINE D == Deltas
  <2>2. D.total \in Nat /\ D.idle \in Nat /\ D.utime \in Nat /\ D.stime \in Nat
    <3>1. /\ cpu_total' \in Int /\ cpu'.idle \in Int /\ process.utime \in Int /\ process.stime \in Int
          /\ prev.total \in Int /\ prev.idle \in Int /\ prev.utime \in Int /\ prev.stime \in Int
      BY <1>4 DEF IInv, TypeOK
    <3>2. /\ Delta(cpu_total', prev.total) \in Nat /\ Delta(cpu'.idle, prev.idle) \in Nat
          /\ Delta(process.utime, prev.utime) \in Nat /\ Delta(process.stime, prev.stime) \in Nat
      <4>1. ASSUME NEW a \in Int, NEW b \in Int
            PROVE  Delta(a, b) \in Nat
        <5>1. Delta(a, b) \in 0..Word-1 /\ Word \in Nat
          BY DeltaType, WordFacts
        <5>2. QED BY <5>1
      <4>2. QED BY <3>1, <4>1
    <3>3. QED BY <3>2 DEF Deltas
  <2>3. /\ <<D.idle, D.total>> # STATS_MISSING /\ <<D.stime, D.total>> # STATS_MISSING
        /\ <<D.utime, D.total>> # STATS_MISSING
    BY <2>2, StatsAssumption
  <2>4. /\ STATS_MISSING # <<"now">>
        /\ \A x : Sized(x) => \A f \in DOMAIN SizeOf : x[f] # STATS_MISSING
    BY StatsAssumption DEF Sources, Sized, SizeOf
  <2>5. /\ stat'["observationTimeMilliseconds"] = <<"now">>
        /\ stat'["systemCpuIdle"] = <<D.idle, D.total>>
        /\ stat'["processCpuSys"] = <<D.stime, D.total>>
        /\ stat'["processCpuUser"] = <<D.utime, D.total>>
        /\ stat'["systemMemFree"] = Size("MemFree", "MemFree")
        /\ stat'["systemMemTotal"] = Size("MemTotal", "MemTotal")
        /\ stat'["processMemVzs"] = Size("process", "vsize")
        /\ stat'["processMemRss"] = Size("process", "rss")
    BY <1>4 DEF Measured, StatShape, Fields
  <2>6. Sized(stat')
    BY <2>5 DEF Size, Sized, SizeOf
  <2> HIDE DEF D
  <2>7. \A f \in Fields : stat'[f] # STATS_MISSING
    BY <2>3, <2>4, <2>5, <2>6 DEF Fields, SizeOf
  <2>8. MissingFields' = {}
    BY <2>7 DEF MissingFields
  <2>9. StatShape'
    BY <2>5, <2>6, <2>8 DEF StatShape, Sized
  <2>10. QED BY <1>4, <2>1, <2>9 DEF RecordCurrent
<1>5. ASSUME NEW used, Tick(used)
      PROVE  stat' = stat /\ record' = record /\ pc' = pc
  BY <1>5 DEF Tick
<1>6. CASE ReturnError /\ pc \in Reads
  BY <1>1, <1>6 DEF ReturnError, Reads
<1>7. CASE FirstCpu \/ FirstProcess \/ get_mem_usage \/ Process
  BY <1>1, <1>6, <1>7 DEF FirstCpu, FirstProcess, get_mem_usage, Process, Reads
<1>8. CASE Cpu
  <2>1. CASE ReturnError
    BY <1>6, <1>8, <2>1 DEF Cpu, Reads
  <2>2. CASE ~ReturnError
    <3>1. cpu' \in [busy : Int, idle : Int]
      BY DEF IInv, TypeOK
    <3>2. pc = "cpu" /\ record' = record /\ (stat' = stat \/ stat' = Measured)
      BY <1>8, <2>2 DEF Cpu
    <3>3. QED BY <1>1, <1>4, <3>1, <3>2
  <2>3. QED BY <2>1, <2>2
<1>9. CASE UNCHANGED vars
  BY <1>1, <1>9 DEF vars
<1>10. QED BY <1>1, <1>2, <1>3, <1>5, <1>7, <1>8, <1>9 DEF Next

\* The record that export_data_probe_stats sends decodes to what get_probe_stats has
\* left, for every combination of file formats: one whole measurement, in which
\* only what was not in the format expected is 0, or every value but systemMemTotal
\* marked as missing.  A call that fails half-way exports no mixture.
THEOREM ReportsDelivered == Spec => []ReportDelivered
<1>1. Init => StatShape /\ RecordCurrent
  <2> SUFFICES ASSUME Init PROVE StatShape /\ RecordCurrent
    OBVIOUS
  <2>1. /\ stat["observationTimeMilliseconds"] = <<"now">>
        /\ \A f \in AllMissing : stat[f] = STATS_MISSING
    BY DEF Init, Missing, AllMissing, Fields
  <2>2. <<"now">> # STATS_MISSING
    BY StatsAssumption DEF Sources
  <2>3. MissingFields = AllMissing
    BY <2>1, <2>2 DEF MissingFields, AllMissing
  <2>4. QED BY <2>1, <2>3 DEF StatShape, RecordCurrent, Init
<1>2. IInv /\ IInv' /\ StatShape /\ RecordCurrent /\ [Next]_vars => StatShape' /\ RecordCurrent'
  BY ReportStep
<1>3. StatShape /\ RecordCurrent => ReportDelivered
  <2> SUFFICES ASSUME StatShape, RecordCurrent, record # << >>
               PROVE  ReportDelivered
    BY DEF ReportDelivered
  <2>1. \A f \in Fields : record[f] = stat[f]
    BY DEF RecordCurrent
  <2>2. {f \in Fields : record[f] = STATS_MISSING} \ {"systemMemTotal"} = MissingFields
    BY <2>1 DEF MissingFields
  <2>3. Sized(stat) => Sized(record)
    BY <2>1 DEF Sized, SizeOf, Fields
  <2>4. \/ MissingFields = {} /\ Sized(record)
        \/ MissingFields = Fields \ {"systemMemTotal", "observationTimeMilliseconds"}
    BY <2>3 DEF StatShape, AllMissing
  <2>5. QED BY <2>1, <2>2, <2>4, Zenon DEF ReportDelivered, Sized
<1>4. QED BY <1>1, <1>2, <1>3, Invariant, PTL DEF Spec
=============================================================================
