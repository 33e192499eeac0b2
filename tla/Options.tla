------------------------------- MODULE Options -------------------------------
(***************************************************************************)
(* Startup configuration (settings.c, main.c): the command line and the    *)
(* configuration files it names are processed option by option, each       *)
(* through one opt_* function.  An option -c reads its file in place, so   *)
(* files nest.  Some options are snapshots of others: -i allocates its     *)
(* hash buffer with the -N seen so far, the n-th -t belongs to device n.   *)
(* main then opens the devices in order and starts libipfix with the       *)
(* observation domain of -o or of the first device.                        *)
(***************************************************************************)
EXTENDS Selection, Logger

CONSTANTS
  CommandLines,    \* the command lines to try, sequences of options
  Files,           \* contents of the configuration files that can be opened
  Expressions,     \* arguments of -v: the v's before the filter string and its tokens
  FunctionNames,   \* names of functions that log, sequences of characters
  HostNameLengths, \* lengths of the host name
  Addresses,       \* what the ioctl of a device may leave: an address or old bytes
  MAX_INTERFACES,  \* size of if_devices
  MaxOpen,         \* the process's limit on open configuration files
  DEFAULT_MAX      \* the literal 0x33333333

Letters == {"C", "e", "f", "I", "J", "K", "G", "o", "O", "F", "d", "D", "N", "P", "4", "6",
            "u", "s", "p", "v", "c", "i", "t", "m", "M", "r", "l", "L", "h", "V", "X", "n", "y",
            "unknown"}

\* Fields of options_t set by one assignment.  "af" is ai_family, "lat" and "long"
\* are set by -l and -L.
Fields == {"C", "e", "f", "I", "J", "K", "G", "o", "O", "F", "d", "D", "N", "P", "af", "u",
           "s", "p", "lat", "long"}

\* An option with its argument, numbers (several for -l and -L) or a word.  The
\* argument of -r is the share that its conversion to uint32_t yields, -v has a
\* number, which begins with a digit, or an expression.
Option ==
  {o \in [opt : Letters, num : Seq(Int), word : STRING] :
     /\ o.opt \in (Fields \ {"u"}) \cup {"m", "M", "r"} => o.num # << >>
     /\ o.opt = "r" => o.num[1] \in UInt32
     /\ o.opt = "v" => /\ o.word \in DOMAIN Expressions
                       /\ o.num # << >> => o.num[1] \in Nat /\ o.word = ""}

\* A filter string is cut into tokens; the name of a function has no asterix.
Token == [minus : BOOLEAN, text : Seq(STRING)]
Name == Seq(STRING \ {Asterix}) \ {<< >>}

ASSUME OptionsAssumption ==
  /\ CommandLines \subseteq Seq(Option)
  /\ Files \in [DOMAIN Files -> Seq(Option)]
  /\ \A w \in DOMAIN Expressions :
       Expressions[w].v \in Nat /\ Expressions[w].tokens \in Seq(Token)
  /\ "" \in DOMAIN Expressions /\ Expressions[""].v = 0 /\ Expressions[""].tokens = << >>
  /\ FunctionNames \subseteq Name
  /\ Addresses \subseteq [1..4 -> 0..255]
  /\ MAX_INTERFACES \in Nat /\ MaxOpen \in Nat /\ HostNameLengths \subseteq Nat
  /\ DEFAULT_MAX \in RANGE_MIN..UINT32_MAX

VARIABLES
  cmdline,     \* argv
  stack,       \* sources being read, innermost last: [opts, pos]
  status,      \* "parsing", "parsed", "opening", "opened", "ready", "crash" or an exit
  value,       \* fields of options_t that one assignment sets
  range,       \* sel_range_min and sel_range_max
  templateID, t_idx,              \* opt_t
  if_devices, number_interfaces,  \* opt_i
  hashAsPacketID,
  log,         \* logger_model, the filter lists and what -v keeps in options_t
  opened,      \* devices opened so far
  probe_name   \* s_probe_name after main has completed it

optVars == <<value, range, templateID, t_idx, if_devices, number_interfaces,
             hashAsPacketID, log>>
mainVars == <<opened, probe_name>>
vars == <<cmdline, stack, status, optVars, mainVars>>

\* The defaults of the fields; those whose default is no number have 0.
set_defaults_options ==
  [k \in Fields |->
     CASE k = "e" -> 1000 [] k = "I" -> 3 [] k = "K" -> 10 [] k = "J" -> 30 [] k = "G" -> 60
       [] k = "N" -> 80 [] k = "P" -> 4739 [] k = "af" -> 6 [] OTHER -> 0]

\* if_devices is static: zero until set_defaults_device.
NoAddress == <<0, 0, 0, 0>>
NoDevice == [type |-> "TYPE_UNKNOWN", size |-> 0, template |-> "zero", addr |-> NoAddress]
Templates == {"min", "lp", "ls", "ts"}
Unset == "unset"   \* template_id -1
DeviceTypes == {"TYPE_PCAP", "TYPE_PCAP_FILE", "TYPE_FILE", "TYPE_SOCKET_INET",
                "TYPE_SOCKET_UNIX", "TYPE_UNKNOWN"}
Device == [type : DeviceTypes, size : Int, template : Templates \cup {Unset, "zero"},
           addr : Addresses \cup {NoAddress}]

-----------------------------------------------------------------------------
(* Where the next option comes from                                        *)

Top == stack[Len(stack)]
InFile == Len(stack) > 1
HasOption == status = "parsing" /\ Top.pos <= Len(Top.opts)

\* Options without a key for configuration files.
NoKey == {"V", "n", "X", "y"}

\* find_opt_function_char and find_opt_function_key.
Current == LET o == Top.opts[Top.pos]
           IN  IF InFile /\ o.opt \in NoKey THEN [o EXCEPT !.opt = "unknown"] ELSE o

Advanced == [stack EXCEPT ![Len(stack)].pos = @ + 1]
Proceed == stack' = Advanced /\ UNCHANGED <<cmdline, status, mainVars>>
Exit(code) == status' = code /\ UNCHANGED <<cmdline, stack, optVars, mainVars>>

-----------------------------------------------------------------------------
(* The opt_* functions                                                     *)

\* What one of the assigning options changes.
Assignments(o) ==
  LET n == o.num
      Interval == Len(n) >= 3 /\ n[3] >= 0
      NoPreset == o.opt = "s" /\ n[1] < 0
  IN  CASE o.opt = "4" -> [af |-> 4]
        [] o.opt = "6" -> [af |-> 6]
        [] o.opt = "u" -> [u |-> 1]
        [] o.opt = "l" /\ Len(n) = 1 -> [lat |-> n[1]]
        [] o.opt = "l" /\ Len(n) >= 2 /\ ~Interval -> [lat |-> n[1], long |-> n[2]]
        [] o.opt = "l" /\ Interval   -> [lat |-> n[1], long |-> n[2], G |-> n[3]]
        [] o.opt = "L" /\ Len(n) = 1 -> [long |-> n[1]]
        [] o.opt = "L" /\ Len(n) >= 2 /\ ~Interval -> [long |-> n[1], lat |-> n[2]]
        [] o.opt = "L" /\ Interval   -> [long |-> n[1], lat |-> n[2], G |-> n[3]]
        [] o.opt \in (Fields \cap Letters) \ {"u"} /\ ~NoPreset -> [k \in {o.opt} |-> n[1]]
        [] OTHER -> << >>

\* Faulty variant: a file does not change what is no longer the default.
opt_assign_FirstWins(o) ==
  /\ o.opt \in (Fields \cap Letters) \cup {"4", "6", "l", "L", "n", "y"}
  /\ o.opt = "P" => o.num[1] >= 0
  /\ value' = [k \in {f \in DOMAIN Assignments(o) :
                        ~InFile \/ value[f] = set_defaults_options[f]} |-> Assignments(o)[k]]
                @@ value
  /\ hashAsPacketID' = (hashAsPacketID /\ o.opt # "p")
  /\ Proceed
  /\ UNCHANGED <<range, templateID, t_idx, if_devices, number_interfaces, log>>

\* All options of that kind.  -n and -y do nothing.
opt_assign(o) ==
  /\ o.opt \in (Fields \cap Letters) \cup {"4", "6", "l", "L", "n", "y"}
  /\ o.opt = "P" => o.num[1] >= 0
  /\ value' = [k \in Fields |-> IF k \in DOMAIN Assignments(o) THEN Assignments(o)[k] ELSE value[k]]
  /\ hashAsPacketID' = (hashAsPacketID /\ o.opt # "p")
  /\ Proceed
  /\ UNCHANGED <<range, templateID, t_idx, if_devices, number_interfaces, log>>

\* -m, -M and -r
opt_range(o) ==
  /\ \/ o.opt = "m" /\ range' = set_sampling_lowerbound(range, o.num[1])
     \/ o.opt = "M" /\ range' = set_sampling_upperbound(range, o.num[1])
     \/ o.opt = "r" /\ range' = set_sampling_ratio(o.num[1])
  /\ Proceed
  /\ UNCHANGED <<value, templateID, t_idx, if_devices, number_interfaces, hashAsPacketID, log>>

\* A number sets the verbosity, anything else raises it and may bring a filter
\* string; without an argument the string of an earlier -v is parsed again.
opt_v(o) ==
  LET number   == o.num # << >>
      noarg    == o.word = "" /\ ~InFile
      raised   == log.verbosity + 1 + Expressions[o.word].v
      verbosity == (IF number THEN o.num[1] ELSE raised) % 256
  IN  /\ o.opt = "v"
      /\ log' = logger_set_filter(
                  [log EXCEPT !.verbosity = verbosity,
                              !.level  = logger_set_level(verbosity),
                              !.filter = IF number \/ noarg THEN @ ELSE Expressions[o.word].tokens])
      /\ Proceed
      /\ UNCHANGED <<value, range, templateID, t_idx, if_devices, number_interfaces,
                     hashAsPacketID>>

\* The device type of a prefix; one that is not listed leaves it as it was.
DeviceType(word, old) ==
  CASE word \in {"", "i"} -> "TYPE_PCAP"
    [] word = "p" -> "TYPE_PCAP_FILE"
    [] word = "f" -> "TYPE_FILE"
    [] word = "s" -> "TYPE_SOCKET_INET"
    [] word = "u" -> "TYPE_SOCKET_UNIX"
    [] word = "x" -> "TYPE_UNKNOWN"
    [] OTHER -> old

\* Faulty variant: a template given before the device is kept.
opt_i_KeepsTemplate(o) ==
  /\ o.opt = "i" /\ number_interfaces < MAX_INTERFACES
  /\ number_interfaces' = number_interfaces + 1
  /\ if_devices' = [if_devices EXCEPT ![number_interfaces + 1] =
                      [@ EXCEPT !.type = DeviceType(o.word, @), !.size = value["N"]]]
  /\ Proceed
  /\ UNCHANGED <<value, range, templateID, t_idx, hashAsPacketID, log>>

\* A new device, with set_defaults_device; nothing once the table is full.
opt_i(o) ==
  /\ o.opt = "i"
  /\ \/ /\ number_interfaces = MAX_INTERFACES
        /\ UNCHANGED <<if_devices, number_interfaces>>
     \/ /\ number_interfaces < MAX_INTERFACES
        /\ number_interfaces' = number_interfaces + 1
        /\ if_devices' = [if_devices EXCEPT ![number_interfaces + 1] =
                            [type |-> DeviceType(o.word, @.type),
                             size |-> value["N"], template |-> Unset, addr |-> @.addr]]
  /\ Proceed
  /\ UNCHANGED <<value, range, templateID, t_idx, hashAsPacketID, log>>

parse_template(word) == IF word \in Templates THEN word ELSE Unset

\* The template of the next device, whether or not there is one, and the global
\* one if the name is known.
opt_t(o) ==
  LET tid == parse_template(o.word)
  IN  /\ o.opt = "t"
      /\ templateID' = IF tid = Unset THEN templateID ELSE tid
      /\ \/ t_idx = MAX_INTERFACES /\ UNCHANGED <<t_idx, if_devices>>
         \/ /\ t_idx < MAX_INTERFACES
            /\ t_idx' = t_idx + 1
            /\ if_devices' = [if_devices EXCEPT ![t_idx + 1].template = tid]
      /\ Proceed
      /\ UNCHANGED <<value, range, number_interfaces, hashAsPacketID, log>>

\* Faulty variant: an open that fails is retried.
opt_c_Retries(o) ==
  /\ o.opt = "c"
  /\ o.word \in DOMAIN Files /\ Len(stack) <= MaxOpen
  /\ stack' = Append(Advanced, [opts |-> Files[o.word], pos |-> 1])
  /\ UNCHANGED <<cmdline, status, optVars, mainVars>>

\* Read the file in place; fopen fails if there is none or too many are open.
opt_c(o) ==
  /\ o.opt = "c"
  /\ \/ /\ o.word \in DOMAIN Files /\ Len(stack) <= MaxOpen
        /\ stack' = Append(Advanced, [opts |-> Files[o.word], pos |-> 1])
        /\ UNCHANGED <<cmdline, status, optVars, mainVars>>
     \/ /\ o.word \notin DOMAIN Files \/ Len(stack) > MaxOpen
        /\ Exit("exit 1")

\* A result -1 ends the program from the command line, not from a file.
opt_unknown_parameter(o) ==
  /\ o.opt = "unknown"
  /\ IF InFile THEN Proceed /\ UNCHANGED optVars ELSE Exit("exit -1")

\* -h, -V and -X exit, and so does a negative port.
opt_exit(o) ==
  \/ o.opt \in {"h", "V", "X"} /\ Exit("exit 0")
  \/ o.opt = "P" /\ o.num[1] < 0 /\ Exit("exit 1")

-----------------------------------------------------------------------------
(* parse_cmdline_v2 and read_options_file_v2                               *)

ProcessOption ==
  /\ HasOption
  /\ \/ opt_assign(Current) \/ opt_range(Current) \/ opt_v(Current)
     \/ opt_i(Current) \/ opt_t(Current) \/ opt_c(Current)
     \/ opt_unknown_parameter(Current) \/ opt_exit(Current)

\* The end of a configuration file, or of the command line.
EndOfSource ==
  /\ status = "parsing" /\ ~HasOption
  /\ IF InFile
     THEN stack' = Front(stack) /\ UNCHANGED status
     ELSE status' = "parsed" /\ UNCHANGED stack
  /\ UNCHANGED <<cmdline, optVars, mainVars>>

-----------------------------------------------------------------------------
(* main, behind the options                                                *)

\* Without -d the host name, asked for with a buffer as large as a pointer;
\* gethostname fails if the name and its end do not fit (glibc).
POINTER_SIZE == 8
CompleteProbeName(length) ==
  /\ status = "parsed"
  /\ status' = "opening"
  /\ probe_name' = IF value["d"] # 0 THEN "given"
                   ELSE IF length + 1 <= POINTER_SIZE THEN "hostname" ELSE "empty"
  /\ UNCHANGED <<cmdline, stack, optVars, opened>>

Opening == status = "opening" /\ opened < number_interfaces
Opens == if_devices[opened + 1].type

\* What is read of a device's address: nobody looks whether the ioctl succeeded.
getIPv4AddressFromDevice == Addresses \cup {NoAddress}

\* Only a live interface has an address.
open_device(addr) ==
  /\ Opening
  /\ opened' = opened + 1
  /\ \/ /\ Opens = "TYPE_PCAP"
        /\ if_devices' = [if_devices EXCEPT ![opened'].addr = addr]
     \/ /\ Opens # "TYPE_PCAP" /\ addr = NoAddress
        /\ UNCHANGED if_devices
  /\ UNCHANGED <<cmdline, stack, status, value, range, templateID, t_idx,
                 number_interfaces, hashAsPacketID, log, probe_name>>

\* A failing open; the device of TYPE_FILE and TYPE_UNKNOWN is not implemented.
OpenFails ==
  /\ Opening
  /\ \/ Opens \in {"TYPE_PCAP", "TYPE_SOCKET_INET"} /\ Exit("exit 1")
     \/ Opens = "TYPE_SOCKET_UNIX" /\ Exit("exit 2")
     \/ Opens = "TYPE_PCAP_FILE" /\ Exit("crash")

\* Network byte order.
ntohl(a) == ((a[1] * 256 + a[2]) * 256 + a[3]) * 256 + a[4]

\* The observation domain, if -o gave none.
CompleteDomain ==
  /\ status = "opening" /\ opened = number_interfaces
  /\ status' = "opened"
  /\ value' = IF number_interfaces > 0 /\ value["o"] = 0
              THEN [value EXCEPT !["o"] = ntohl(if_devices[1].addr)] ELSE value
  /\ UNCHANGED <<cmdline, stack, range, templateID, t_idx, if_devices, number_interfaces,
                 hashAsPacketID, log, mainVars>>

\* libipfix_init and libipfix_register_templates; that libipfix_connect fails is
\* only logged.
libipfix_init(ok) ==
  /\ status = "opened"
  /\ status' = IF ok THEN "ready" ELSE "exit 1"
  /\ UNCHANGED <<cmdline, stack, optVars, mainVars>>

Init ==
  /\ cmdline \in CommandLines
  /\ stack = <<[opts |-> cmdline, pos |-> 1]>>
  /\ status = "parsing"
  /\ value = set_defaults_options
  /\ range = DefaultRange(DEFAULT_MAX)
  /\ templateID = "min" /\ t_idx = 0
  /\ if_devices = [i \in 1..MAX_INTERFACES |-> NoDevice] /\ number_interfaces = 0
  /\ hashAsPacketID = TRUE
  /\ log = logger_init
  /\ opened = 0 /\ probe_name = "none"

Next ==
  \/ ProcessOption
  \/ EndOfSource
  \/ \E n \in HostNameLengths : CompleteProbeName(n)
  \/ \E a \in getIPv4AddressFromDevice : open_device(a)
  \/ OpenFails
  \/ CompleteDomain
  \/ \E ok \in BOOLEAN : libipfix_init(ok)

Spec == Init /\ [][Next]_vars

\* Sequential code: it goes on until it has nothing to do.
FairSpec == Spec /\ WF_vars(Next)

-----------------------------------------------------------------------------
(* Properties                                                              *)

\* Types of the startup state.
TypeOK ==
  /\ cmdline \in CommandLines
  /\ stack \in Seq([opts : Seq(Option), pos : Nat])
  /\ status \in {"parsing", "parsed", "opening", "opened", "ready", "crash",
                 "exit 0", "exit 1", "exit 2", "exit -1"}
  /\ opened \in 0..number_interfaces
  /\ value \in [Fields -> Int]
  /\ range \in Range32
  /\ templateID \in Templates /\ t_idx \in 0..MAX_INTERFACES
  /\ number_interfaces \in 0..MAX_INTERFACES
  /\ if_devices \in [1..MAX_INTERFACES -> Device]
  /\ hashAsPacketID \in BOOLEAN
  /\ log.level \in 0..LOG_N_LEVELS /\ log.verbosity \in 0..255
  /\ probe_name \in {"none", "given", "hostname", "empty"}

\* Reference: every file written out in the place of the -c that names it, files
\* nested up to the limit on open ones.  table has the contents of the files.
Inserted(o, table) ==
  IF o.opt # "c" THEN <<o>>
  ELSE IF o.word \in DOMAIN table THEN table[o.word] ELSE << >>

WrittenOut(s, table) == FlattenSeq([i \in DOMAIN s |-> Inserted(s[i], table)])

\* The contents of the files while n of them may be opened.
Contents[n \in 0..MaxOpen] ==
  IF n = 0 THEN << >> ELSE [f \in DOMAIN Files |-> WrittenOut(Files[f], Contents[n - 1])]

Expand(s) == WrittenOut(s, Contents[MaxOpen])

Parsed == status \in {"parsed", "opening", "opened", "ready"}

\* What the last option of s that sets field k sets it to.
LastSet(s, k) ==
  LET at == {i \in DOMAIN s : k \in DOMAIN Assignments(s[i])}
  IN  IF at = {} THEN set_defaults_options[k]
      ELSE Assignments(s[CHOOSE i \in at : \A j \in at : j <= i])[k]

\* After the options s a field has the last value given, or the observation domain
\* that of the first device.
FieldsAfter(s) ==
  \A k \in Fields : \/ value[k] = LastSet(s, k)
                    \/ /\ k = "o" /\ status \in {"opened", "ready"}
                       /\ LastSet(s, k) = 0 /\ number_interfaces > 0
                       /\ value[k] = ntohl(if_devices[1].addr)

\* Position p is that of the last of -m, -M and -r in s.
LastOfRange(s, p) ==
  LET at == {i \in DOMAIN s : s[i].opt \in {"m", "M", "r"}}
  IN  p \in at /\ \A i \in at : i <= p

\* After the options s the range is not inverted, and is as the last of -m, -M and
\* -r wants it.
RangeAfter(s) ==
  /\ range.min <= range.max
  /\ \A p \in DOMAIN s : LastOfRange(s, p) =>
       /\ s[p].opt = "m" => range.min = Saturate(s[p].num[1])
       /\ s[p].opt = "M" => range.max = Saturate(s[p].num[1])
       /\ s[p].opt = "r" => range.max - range.min = s[p].num[1]

\* "parameters have precedence by order of the same parameters (last comes last
\* serves)" (doc/impd4e.1), across the command line and nested files.  Of -m, -M
\* and -r the last is honoured and the range is never inverted.  libipfix starts
\* with the last -o, or with what was read as the address of the first of the
\* devices.  config-full says otherwise: see CommandLineSupersedes.
PrecedenceByOrder ==
  Parsed => FieldsAfter(Expand(cmdline)) /\ RangeAfter(Expand(cmdline))

\* Fields that an option of s itself sets, those of the files it names aside.
SetBy(s) == UNION {DOMAIN Assignments(s[i]) : i \in DOMAIN s}

\* "parameters on command line will always supersede those in the config file
\* independently of order of CLI commands" (config-full).  Does not hold: opt_c
\* reads the file in place, so a file that is named behind an option overrides it.
CommandLineSupersedes ==
  status = "parsed" => \A k \in SetBy(cmdline) : value[k] = LastSet(cmdline, k)

\* How many of the first n options of s have the letter c.
Count(s, c, n) == Cardinality({i \in 1..n : s[i].opt = c})
UpToMax(n) == IF n < MAX_INTERFACES THEN n ELSE MAX_INTERFACES

\* The device of the option -i at position p of s: its buffer is for the -N before
\* it, its template that of the -t with its number if that comes after it.
DeviceAfter(s, p) ==
  LET d == Count(s, "i", p)
      ts == {q \in DOMAIN s : q > p /\ s[q].opt = "t" /\ Count(s, "t", q) = d}
  IN  /\ if_devices[d].type = DeviceType(s[p].word, "TYPE_UNKNOWN")
      /\ if_devices[d].size = LastSet(SubSeq(s, 1, p), "N")
      /\ ts = {} => if_devices[d].template = Unset
      /\ \A q \in ts : if_devices[d].template = parse_template(s[q].word)
      /\ if_devices[d].addr # NoAddress => d <= opened /\ s[p].word \in {"", "i"}

\* After the options s the devices are those of the first -i.
DevicesAfter(s) ==
  /\ number_interfaces = UpToMax(Count(s, "i", Len(s)))
  /\ \A p \in DOMAIN s :
       s[p].opt = "i" /\ Count(s, "i", p) <= MAX_INTERFACES => DeviceAfter(s, p)

\* "... or are supplemental, e.g. for -i": the devices are those of all -i in
\* order.  Each has a hash buffer for the -N before it, and the template of the
\* -t with its number if that comes after the -i and is known.
DevicesAsGiven == Parsed => DevicesAfter(Expand(cmdline))

\* The options -v of s: what they say, and the verbosity they ask for, the last
\* number and what was added to it (none is 0).
Verbose(s) == {i \in DOMAIN s : s[i].opt = "v"}
Said(s) == UNION {ToSet(Expressions[s[i].word].tokens) : i \in Verbose(s)}
Raised(n, o) == IF o.opt # "v" THEN n
                ELSE IF o.num # << >> THEN o.num[1] ELSE n + 1 + Expressions[o.word].v
Asked(s) ==
  LET upTo[i \in 0..Len(s)] == IF i = 0 THEN 0 ELSE Raised(upTo[i - 1], s[i])
  IN  upTo[Len(s)]

\* After the options s a message of level l is to be written.
LevelAfter(s, l) == l <= IF Verbose(s) = {} THEN LOGGER_LEVEL_WARN ELSE Asked(s) % 256

\* After them the function f is to be heard: an expression names it, or none names
\* any, and no expression with a minus names it.
HeardAfter(s, f) ==
  LET Named(minus) == \E t \in Said(s) : t.minus = minus /\ AsDocumented(t.text, f)
  IN  ((\A t \in Said(s) : t.minus) \/ Named(FALSE)) /\ ~Named(TRUE)

\* After them exactly these messages are written.
MessagesAfter(s) ==
  \A l \in 0..LOG_N_LEVELS - 1, f \in FunctionNames :
    logger(log, l, f) <=> LevelAfter(s, l) /\ HeardAfter(s, f)

\* For all -v, on the command line and in files, that use expressions of the
\* manual's form, the messages written are those of the functions that an
\* expression names (all if none does) and no expression with a minus names, up to
\* the level that the -v ask for together: each adds one and one for every further
\* v, a number starts afresh, and the sum is kept in a byte.  It is counted from 0
\* and not from the level without any -v, which is WARN (2).  So one -v writes less
\* than none, against "use multiple times to increase output" (doc/impd4e.1), and
\* the default of config-full ("default = 0") is not the code's.
LogAsAsked ==
  Parsed /\ (\A t \in Said(Expand(cmdline)) : Documented(t.text)) => MessagesAfter(Expand(cmdline))

\* Parsing ends, also when files include each other ("TODO: prevent cascading
\* config files to loop"): the limit on open files stops it.
ParsingEnds == <>(status # "parsing")
=============================================================================
