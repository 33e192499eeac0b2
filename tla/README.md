# TLA+ model of impd4e

impd4e is a passive network measurement probe. It captures packets on several
devices, hashes selected bytes of each, exports a record for every packet whose
hash lies in a range (so that two probes on a path select the same packets), and
reports statistics over IPFIX. It is one process with one libev loop: concurrency
comes from the order of callbacks, from the kernel and the network running
between two system calls, and from libipfix, which caches records and closes and
reopens its connection by itself.

This directory holds specifications of that program, TLC models of them, and
TLAPS proofs. Definitions have the names of the C functions they model;
`PROJECT.json` maps each to its lines.

## Inventory

| Part (source) | State | Operations | What makes it correct |
|---|---|---|---|
| Hash selection range (`settings.c`) | `sel_range_min`, `sel_range_max` | set lower bound, upper bound, ratio | never inverted, a ratio selects exactly its share |
| Runtime configuration (`config_handler.c`, `helper.c`) | options, templates, filters, timers | commands `m M r t f I J K`, `exit` on standard input | what a response reports is in force |
| Metering loop (`packet_handler.c`, `export_handler.c`, `ev_handler.c`, `main.c`) | counters of each device, libipfix's cache, timers | packet callback, four export timers, SIGINT, shutdown | no packet counted twice or forgotten, cache bounded, records complete |
| Network console (`netcon.c`) | callback list, connection slots, libev watchers | register, init, resync timer, read, close | one slot per descriptor, the collector's connection is read |
| Hash input, byte ranges (`hash.c`) | list of ranges, hash buffer | `parseRange`, `copyFields_Select(_reverse)` | ranges as documented, copies inside packet and buffer |
| Hash input, headers and records (`hash.c`, `packet_handler.c`, `ipfix_templates.h`) | header offsets, hash buffer, record fields | `findHeaders`, four presets, fields of a record | headers found, no field hashed that every router rewrites, record matches template |
| Startup options (`settings.c`, `main.c`, `ipfix_handler.c`) | `options_t`, device table, probe name, observation domain | one `opt_*` function per option, nested configuration files, then opening the devices and libipfix | the last option wins, devices opened in order or not at all, termination |
| Packet capture (`socket_handler.c`, `pcap_handler.c`, `packet_handler.c`, `main.c`) | device, watcher, kernel queue | open, three dispatch functions, watcher callback | every packet once, in order, with its length, hashed behind its link header; capture stops only for a reason |
| Hash functions (`bobhash.c`, `hsieh.c`, `twmx.c`, `hash.c`) | none | BOB, Hsieh, TWMX, OAAT, SBOX | not modelled: a hash is any value |
| Probe statistics (`stats.c`, `export_handler.c`) | static counters of this and of the previous call, `struct probe_stat` | `get_probe_stats`, `export_data_probe_stats` | no CPU time reported twice or left out, what is measured is what is decoded |
| Logger (`logger.c`) | level, include and exclude lists | `-v`, `is_logging` | a function's messages are written exactly when the filter expressions and the level asked for say so |
| PF_RING (`pfring_filter.c`, parts of `helper.c` and `packet_handler.c`) | | | not modelled: not in the default build |
| Legacy option parser (`parse_cmdline`, `read_options_file`) | | | not modelled: no longer called |

Interaction: the loop calls the packet watcher of each device (Capture), which
calls `handle_packet` and, for IP packets, `findHeaders`, the copy function
(Headers, RangeSelect), the range test (Selection) and libipfix (Probe). Timers
flush the same cache. Commands (RuntimeConfig) change the range, the timers and
the templates between callbacks. The console (Netcon) reads the connection that
libipfix owns. Options run once, before everything else.

Hard behaviours: partial failure of exports and flushes; a cache shared by
devices and timers but counted per device; 32-bit counters that wrap; callbacks
still pending after `ev_unloop`; `exit(0)` inside a callback; descriptors that
are closed and reused behind the console's back; datagrams arriving between the
peek and the read; options whose effect depends on their order; files that
include themselves; `/proc` files read one after the other while the counters go
on, any of which may fail after the ones before it have overwritten static state.
`PROJECT.json` lists each hazard with its line and the
properties that guard against it.

## Modules

| Module | Models | Uses |
|---|---|---|
| `Selection` | the range and its setters, with `uint32_t` saturation and overflow | |
| `RuntimeConfig` | commands, responses, timers, templates, filters | `Selection` |
| `Accounting` | abstract: packets observed and reported per device | |
| `Dispatch` | abstract: how one device delivers packets to `handle_packet` | |
| `Probe` | the metering loop around libipfix's cache | `RuntimeConfig`, `Accounting` |
| `Netcon` | the console's slots over libev's watcher lists and the kernel's interest set | |
| `RangeSelect` | `parseRange` and the copy functions, bytes as positions | |
| `Headers` | `findHeaders`, the presets and record fields, bytes as positions | |
| `Logger` | filter expressions and lists, level, whether a message is written | |
| `Options` | command line, configuration files and what `main` does with them | `Selection`, `Logger` |
| `Capture` | opening, dispatch functions and offsets | `Dispatch` |
| `Stats` | probe statistics over the kernel's counters, and their record | |
| `MCConfig`, `MCProbe`, `MCHeaders`, `MCOptions`, `MCCapture`, `MCStats` | constants for TLC | |
| `ProbeProofs` | theorems about `Selection`, `RuntimeConfig` and `Probe` | |
| `NetconProofs`, `HeadersProofs`, `CaptureProofs`, `StatsProofs` | theorems about the module of that name | |
| `SequenceLemmas` | induction over naturals, and what `FlattenSeq` computes | |
| `RangeSelectProofs`, `OptionsProofs` | theorems about the module of that name | `SequenceLemmas` |

Definitions named `X_Something` directly before `X` and commented "Faulty
variant" are plausible mistakes in `X` (a dropped reset, an off-by-one, a missing
check). No specification uses them; putting one in the place of `X` must make the
property listed with it under `mutants` fail.

### Selection and RuntimeConfig

`range` is the pair of bounds. `Saturate` is the conversion of `strtoll`'s value
to `uint32_t`; `set_sampling_ratio` adds modulo 2^w. `UINT32_MAX` is a constant:
TLC uses 49, the proofs any natural number. A double outside the range of
`uint32_t` converts to an undefined value, so every share is allowed.

Each command is an action that also sets `rsp`, what the user is told. A timer is
active or not and has a repeat value; durations are abstracted. Two details come
from the code: `event_register_timer` (probe statistics, location) fires at once
whatever its interval, `event_register_timer_w` does not start a timer with
interval 0; and a typed line keeps its newline, so `parse_template` matches only
the unterminated last line of an input.

`ResponseInForce` compares a response to `I`, `J` or `K` with the repeat value of its
timer. Whether packet records are exported is decided by `export_pktid_interval`
(`interval` here), which no command changes: after `-I 0` the command `I 5` exports
nothing and after `-I 3` the command `I 0` does not end the export.
`RecordsAccounted` of `Probe` says so for every sequence of commands. The response to
`f` is left out: it does not depend on whether the devices accept the expression.

### Probe

A callback is atomic except the packet callback, which has one step per packet
(`DispatchBegin`, `HandlePacket`..., `DispatchReturn` or `DispatchError`), so the
properties hold inside a batch too. `cache`, `collector` and `lost` hold, per
device, the packet records and the sums of interface-statistics records. An
export may fail; a flush sends, keeps or loses the cache (`FlushOutcomes`). At
shutdown nothing can be kept. `selected`, `wraps` and `failed` are history.
`MaxPackets` bounds the packets of a device.

### Dispatch

`Dispatch` says what the metering loop relies on and the device types provide:
packets come only inside a callback of an open device, at most
`PCAP_DISPATCH_PACKET_COUNT` per callback, and never again after a dispatch
function has failed. `Capture` implements it with its system calls. The guards of
`Probe`'s packet callback are taken from it, so no property of `Probe` repeats it.

### Netcon

libev's behaviour is modelled where `netcon.c` depends on it: a watcher is linked
into the list of its descriptor through a field of its own, `ev_io_init` clears
`active` without unlinking, and a descriptor's epoll interest ends when it is
closed. `Watchers` is what libev reaches from a descriptor's list head: the smallest
set that holds the head and what its members link to; the list is `Cyclic` if a
member links back into it. `epoch` numbers connections so that a reused descriptor number can be told
from the old connection. Messages are whole reads; only their kind matters.

### RangeSelect and Headers

Bytes are positions, so "the hash input" is a sequence of positions and a
reference definition can be written from the manual or the packet format. In
`Headers` a packet is described by what `findHeaders` reads; bytes inside an
extension header that the code takes for a header are any value; of the values such
a byte has as a length, TLC tries those of `LengthBytes`. A field of a
record is its length, the variable it is read from and, for bytes of the packet, their
positions. An item of an offset list may have several modifiers, or one without an
offset, as `parseRange` allows and the manual does not. Captured lengths
lie on both sides of every header border. `findHeaders` does not check the IPv4
header length, so packets with an impossible one (8 bytes) are among the inputs;
there the transport header overlaps the TTL, and `HopInvariant` is about packets a
router forwards (`Forwarded`). It tells what every router rewrites (`Rewritten`: TTL,
checksum, hop limit), which no preset hashes, from what only some change: IPv4 options,
which `PACKET` hashes from byte 20 on, and the TOS byte or traffic class, which all
presets but `REC8` hash. So two probes need not compute the same hash where a router
remarks a packet or fills in an option.

### Options

`stack` is the chain of sources being read (`-c` inside a file pushes another).
An option is a letter with its numbers or its word. The one-assignment options
share `opt_assign`; `-i`, `-t`, `-c`, `-m`, `-M`, `-r`, unknown and exiting options
and `-v` have their own actions. `Expand` is the reference: every file written
out in its place.

After the last option `main` completes what was not given: the probe name from
the host name, the devices opened one after the other (a failure ends the
program), the observation domain from the first device's address in the byte order
`ntohl` gives it, and libipfix.

The logger is driven by `-v`. An expression is a sequence of characters, since the
matching is about characters; a filter string is a sequence of tokens. Two facts
of the code are kept: the lists only grow, and `strtok` leaves only the first token
of the string it has parsed. Of the lists only the members matter, so they are sets.
`AsDocumented` is the manual's meaning of an expression. The manual gives an asterix a
meaning at the start and at the end of an expression only (`Documented`);
`LogAsAsked` says nothing of the log once another expression was given, since in
the middle the code lets it match any rest. The verbosity asked for (`Asked`) is the
last number and all that was added since; the code keeps it in a byte, so the
property speaks of it modulo 256. It is counted from 0, as in the code, and not from
the level without any `-v`: see the differences below.

### Capture

A message is a sequence of bytes, byte `k` of message `n` being `<<n, k>>`, so
mixing or losing bytes is visible. A stream keeps what waits as one piece
(`Enqueue`), datagrams stay apart. `CapturedInOrder` says of a stream that its reads
follow each other without gap or repetition and that what waits follows the last
one, of datagrams and captured packets that the n-th handled is the n-th sent, cut
to `snapLength` at most. `handle_packet` skips the link header of the device's type and
then what `-O` says; a packet that is too short gets length 0 and keeps its pointer, as
in `apply_offset`. What `findHeaders` and the presets then do with it is beyond this
module: they do not look at the length (`hash.c:126`, `hash.c:605`) and read the bytes
that were to be skipped. Messages arrive between any two steps, also
between the peek and the read of `socket_dispatch_inet`. `Fail` is any failing
system call.

### Stats

The kernel is external: `now` holds its counters, and a tick goes to the probe, to
other processes or to idle time between any two steps. `get_probe_stats` is one
action per file it reads, each of which may fail and end the call; what was
overwritten before stays so. The program sees counters modulo `Word` (2^64 scaled
down), and differences are taken modulo it; one `Word` for all counters, that is, a
64-bit build, where `unsigned long` and `unsigned long long` have the same width.
`fscanf` is compared with EOF only, so a file in another format counts as read and
leaves the rest at 0: `understood` says what is in the format expected, for a whole
run. Shares are pairs of numerator and
denominator, sizes are names of their source; units are not modelled. `start`, `seen`, `reported` and
`failed` are history. The record is decoded by position from the template, so the
order of the exported array matters.

## Runs

Every passing run finishes within two minutes with two workers.

| Run | Instance | Shows |
|---|---|---|
| `config` | 50 hash values, 2 devices, inputs on both sides of every clamp; 243k states | `RangeOrdered`, `BoundMovesOther` (the named bound is the number typed, the other moves only to avoid inversion) and `ResponseInForce` (ratio, template, repeat value of a timer) for every sequence of commands |
| `probe` | 1 device, 3 packets, counters of three values, threshold 2, batch 2, packet and interface timers on or off, `I` commands that arm and stop the packet timer, `K 0`; 195k states | conservation through failures and overflow, bound on the cache, completeness of records, none under `-I 0`, and losses explained (`RecordsAccounted`), refinement of `Accounting`; cached records are flushed, packets reported, SIGINT ends the process |
| `netcon` | 2 descriptor numbers, 4 connections; 18k states | `DistinctSlots`, `SlotsBounded`, `CurrentSlotWatched`, `SlotFollowsCollector` |
| `netcon_reconnects` | violation | see findings |
| `netcon_commands` | violation | see findings |
| `ranges` | lists of two items over five numbers, up to two modifiers each, both directions; 4.1M states | items of the manual's form that select something are parsed as it says (`RangesAsDocumented`), copies are the longest prefix that fits (`CopiesSelection`) and inside the packet (`InsidePacket`) |
| `headers` | IPv4 with options, IPv6 with up to two extension headers, length bytes 0, 1 and 255 inside them, IPv4 protocol 0, a damaged header length, cut at every border; 233k states | `TransportFound`, `OffsetsOrdered`, `HopInvariant`, `RecordMatchesTemplate` |
| `headers_options` | violation | see findings |
| `options` | all command lines of up to four options of devices, ranges and files, shorter ones of the others, nested and self-including files, every startup failure; 275k states | `PrecedenceByOrder`, `DevicesAsGiven`, `LogAsAsked`, `ParsingEnds` |
| `options_precedence` | violation | see findings |
| `capture` | every device type, 4 messages of 4 lengths, batch 2; 36k states | `CapturedInOrder`, `OffsetAfterLink`, `StopsExplained`, `ArrivedIsHandled`, refinement of `Dispatch` |
| `stats` | words of 6 values, 3 ticks, started at 0 and just before a counter wraps, every set of values understood; 403k states | `CpuTimeTiled`, `ProcessTimeOnce`, `ProcessWithinBusy`, `ReportDelivered` |

Why the bounds are enough. In `probe` three packets make a counter of three values
wrap and pass the threshold in the middle of a batch. Several devices share the
cache and each flushes the others' records; there the proofs take over, which hold
for any set of devices. In `netcon` four connections over two numbers allow both
reuse of a number and change of it, each twice. In `ranges` two items are what the
room left in the buffer needs. In `options` two devices and three open sources
reach the full table and the limit on open files; the `-v` inputs have expressions
with an asterix at the start, the end, both and neither, included and excluded. In
`capture` two batches and one message longer than `snapLength` occur. In `stats`
three ticks fall between any of the reads of several calls. All invariants
are proved and hold for all values anyway.

Deadlock is not checked in the models that end (a stopped process, a parsed
command line, a finished copy) or wait for an environment that may stay silent.

### Fairness

* `Probe`: a callback returns (weak fairness of `DispatchReturn`). libev calls
  expired timers in every iteration, also when packet callbacks are due each time,
  so an active timer is served although packet steps disable it in between: strong
  fairness of the packet id and sampling timers, which are the two the liveness
  properties are about. It asks for occurrences that fail nothing new, since
  fairness of the whole callback would force a failure whenever there is nothing to
  send. After `ev_unloop` the loop finishes the pending callbacks and returns:
  strong fairness of `impd4e_shutdown`. Packets, commands and signals have none.
* `Netcon`: `main` goes on, the loop polls, runs due callbacks and its timer, and
  `calloc` does not fail for ever. Nothing is assumed of the collector or libipfix.
* `Capture`: a watched device with something to read is called and its dispatch
  function goes on. Nothing is assumed of the network or of failures.
* `Options`: sequential code runs to its end.

## Findings

Four statements in the source are refuted by a run:

* `netcon_reconnects`: `netcon.c:388` "Periodically checks ipfix export fd and
  reconnects it to netcon". `netcon_resync` cleans a slot without stopping its
  watcher and later starts it again while libev has it in a list; with the same
  descriptor number the watcher is linked to itself and the loop hangs. If the
  connection is replaced between two timer calls and keeps its number, it is
  taken for the registered one and is not watched.
* `netcon_commands`: `config_handler.c:90` "register runtime configuration callback
  to netcon". `main` calls `netcon_init` afterwards, which sets the list to NULL.
* `headers_options`: `hash.c:630` "IPv6 skip options". The next protocol is read at
  the start of the following header instead of from the header skipped.
* `options_precedence`: `config-full:6-7` "parameters on command line will always
  supersede those in the config file / independently of order of CLI commands". `opt_c`
  reads the file in its place, so one that is named behind an option overrides it
  (`-G 7 -c main.conf`). The manual (`doc/impd4e.1:49`) has precedence by order, which
  is what the code does and `PrecedenceByOrder` shows.

The models also contain, as the code does, these smaller differences between
documents and code. They are part of the definitions named and no run is about
them:

* `doc/impd4e.1:161` lists `^` as "range modifier (exclude borders)": a range that
  excludes everything gets length 0, which means the rest of the packet
  (`RangeSelect!Wanted`; `RangesAsDocumented` is about the other ranges).
* `config_handler.c:325` answers "new filter expression set" whatever the devices say:
  `set_all_filter` (`helper.c:552`) drops the result for each device and returns 0, so
  an expression that a device rejects is reported as set and the devices filter
  differently (`RuntimeConfig!configuration_set_filter`).
* `doc/impd4e.1:97` says `-I 0` disables the export of packet ids; the command `I 0`
  only stops the timer (`RuntimeConfig!configuration_set_export_to_pktid`).
* `doc/impd4e.1:76` gives the host name as default probe name; `gethostname` is
  called with the size of a pointer and fails for eight characters or more
  (`Options!CompleteProbeName`).
* `socket_handler.c:360` takes an empty datagram for a shutdown and capture ends
  (`Capture!PeekEmpty`; `StopsExplained` names it as a reason).
* `config_handler.c:112` lists `-t`; a terminated line matches no template
  (`RuntimeConfig!parse_template`).
* `doc/impd4e.1:102` says `-J 0` disables probe statistics; they are exported once
  at startup (`RuntimeConfig!export_handler_init`).
* `stats.h:62` calls the CPU fields a percentage; a share between 0 and 1 is
  exported. `ipfix_templates.h:126` gives kilobytes for the process's memory,
  which is exported in bytes (`Stats!Measured`). Units are in no property.
* What `fscanf` does not match in `/proc/meminfo` or `/proc/pid/stat` is exported as a
  measured 0 (`Stats!Size`; `ReportDelivered` allows it).
* One report of the probe statistics may show the probe using more than all of the
  busy time, since `/proc` files are read one after the other; only the sums are
  bounded (`ProcessWithinBusy`).
* `systemMemTotal` is not initialised and the result of `get_probe_stats` is not
  looked at, so the record of a failed call holds what the stack had there
  (`Stats!Missing`).
* `doc/impd4e.1` says `-v` increases output; the first one lowers the level from
  warnings (2) to 1, because the count starts at 0. `config-full:10` gives 0 as the
  default, which is 2 (`Options!opt_v`; `LogAsAsked` has both as the code does).
* For an IPv4 packet whose transport header was not captured the record has protocol 0
  and not the header's protocol field (`RecordMatchesTemplate` says so).
* The result of the ioctl that asks for a device's address is not looked at
  (`helper.c:83`): `Options!getIPv4AddressFromDevice` may be any bytes.

## Proofs

The provers check, for every value of the constants that the named assumptions
(`SelectionAssumption`, `ConfigAssumption`, `ProbeAssumption`, `NetconAssumption`,
`RangeAssumption`, `HeadersAssumption`, `CaptureAssumption`, `StatsAssumption`,
`OptionsAssumption`) allow:

* `ProbeProofs`, on `Selection`: the setters return a range within `uint32_t` that is not
  inverted, and a ratio's range has exactly the requested width. The lemma on the
  ratio is where the 90% switch matters: below it the sum cannot wrap.
* `ProbeProofs`, on `RuntimeConfig`: `RangeNeverInverted`, `ResponsesTrue` and `BoundCommands`, from
  `ConfigInvariant`. That invariant is inductive as it stands because a command sets
  the response with what it reports.
* `ProbeProofs`, on `Probe`: `Invariant` shows `IInv`, the checked invariants together with two
  facts they need: `StoppedIdle`, no dispatch function runs in a stopped process (a
  packet handled after the final flush would break `RecordsAccounted`), and
  `NoRecordsWhenOff`, with `-I 0` there are no packet records (there
  `export_packet_count` wraps and would stop bounding the cache; a part of
  `RecordsAccounted`). One lemma per
  kind of step; `FlushEffect`, `CacheEffect` and `StatsMove` say once what libipfix
  and the statistics export do to the totals. `TypeCorrect`, `DeltaAccounting`,
  `SizeAccounting`, `BufferBounded` and `RecordsCorrect` follow.
  `ImplementsAccounting` shows that every step is a step of the abstract specification
  or leaves its variables alone.
* `NetconProofs`: `ConsoleTypes`, `SlotsDistinct`, `SlotListBounded` and
  `CurrentConnectionRead`. The inductive invariant adds that there is no slot before
  the loop runs (`NoSlotBeforeLoop`), that a slot's epoch is not in the future
  (`EpochsPast`) and that a slot of the present connection heads the list of its
  descriptor (`CurrentSlotFirst`). `RoomForOne` is the pigeonhole argument: a slot is
  allocated only for a descriptor that has none, and slots are distinct.
* `RangeSelectProofs`: `RangeTypes`, `ParsedAsDocumented`, `CopyStaysInside` and
  `CopyIsSelection`. The inductive invariant gives the range each item was parsed to
  (`ParsedAs`; only the last item may still get a modifier, and nothing is said of one
  the manual does not have) and says that while there
  is room the copy is exactly the sections up to the present range (`Copied`): the
  property alone does not say which range comes next. The reference is a recursive
  function of the library (`FlattenSeq`).
* `SequenceLemmas`: that `FlattenSeq` is well defined, that the first sequences are
  a prefix of all, and how it unfolds from the front, by induction: `UpTo`, which
  follows from `LeastElement`, that is from the well-foundedness of the naturals,
  stated over sets so that no theorem has to be instantiated with an operator.
  `RecursionExists` shows in the same way that a recursive function exists.
* `HeadersProofs`: `HeaderTypes`, `TransportIsFound`, `OffsetsInside`,
  `RewrittenNotHashed` and `RecordsDecode`, for packets of every length and content.
  The inductive invariant follows the search: nothing is found before the transport
  header is reached (`NotYetFound`), where the search is (`SearchAt`) and what it has
  found (`FoundThere`). `SelectionSafe` shows from it, preset by preset, that selected
  positions are `Safe`, `RecordMatches`, template by template, that fields fit.
* `CaptureProofs`: `CaptureTypes`, `CaptureInOrder`, `OffsetIsApplied`,
  `StopsForAReason` and `ImplementsDispatch`. The inductive invariant adds what the
  control point implies about the device (`WatchedInside`), that a length peeked is
  that of the message still first in the queue, whatever has arrived behind it
  (`PeekHolds`), and that the queue holds what was sent and not yet handled
  (`MessagesWait`, `StreamWaits`).
* `StatsProofs`: `ReportsTile`, `OwnTimeOnce`, `OwnTimeWithinBusy` and
  `ReportsDelivered`. The word
  lemmas say that a difference modulo `Word` is the true growth if that is below
  `Word` (`DeltaExact`), which `StatsAssumption` gives for one run. The inductive
  invariant adds to the properties that the kernel's counters and the readings only
  grow (`Monotone`), that each static variable holds the reading of its time modulo
  `Word` (`Copies`, `Saved`), which history the control point implies (`Control`),
  and the two sums with the reading in progress (`Tiled`, `Owned`). Without them the
  properties say nothing of what the next difference is taken from.
* `OptionsProofs`: `OptionsTypes`, `LastComesLast`, `DevicesInOrder` and
  `MessagesAsAsked`, for all command lines, all configuration files (also ones that
  include each other or themselves) and any limit on open files. The properties speak of
  the end of parsing and of the whole expanded command line, so the inductive invariant
  (`OptionsInv`) has to say what holds in the middle of a file: there is a sequence of
  options that the state is what they ask for (`Processed`), and followed by what is
  still to come from the sources on the stack (`Remaining`) it is the expanded command
  line. `Remaining` gives each source the contents of files with as many levels as may
  still be opened inside it; `RemainingNext`, `RemainingOpen`, `RemainingEnd` and
  `RemainingClose` say how an option, a `-c` and an end of file change it, and
  `ContentsDef` that the recursion over levels is well defined. `Processed` is kept by
  every `opt_*` function (`FieldsStep`, `RangeStep`, `DevicesI`, `DevicesT`): for `-t`
  it needs the number of `-t` so far and that the unused part of the device table is
  untouched (`SpareDevices`), since a device type without a known prefix keeps the old
  value. For the log it says (`LogAfter`) that the two lists are the texts of all tokens
  said so far, the verbosity is the number asked for in a byte, and what `strtok` has
  left of the filter string is among the tokens said: that is why parsing it again on a
  later `-v` (`LogV`) adds nothing new. `AskedAppend` unfolds the recursion that counts
  the verbosity, by the same argument as `ContentsDef`. `LogMeans` then goes from the
  lists to the messages; its core is `MatchesDocumented`: for every documented
  expression and every name, the search of `is_filter` finds a match exactly if the
  expression's text is the part of the name that its asterixes allow.

Only model-checked: the liveness properties (`CachedIsFlushed`, `SeenIsReported`,
`InterruptStops`, `SlotFollowsCollector`, `ArrivedIsHandled`, `ParsingEnds`), since
fairness and ENABLED are beyond the prover.

## Not modelled

* The hash functions (`bobhash.c`, `hsieh.c`, `twmx.c`, OAAT and SBOX of `hash.c`):
  pure mixing of 32-bit words without state. No property depends on their values;
  everywhere a hash is any value.
* PF_RING (`pfring_filter.c`, parts of `helper.c`, `packet_handler.c`): compiled only
  with `PFRING`, which the default build does not set.
* Code that is not called: `parse_cmdline` and `read_options_file` (the older option
  parser), the `decode_*` helpers of `packet_handler.c`, the `event_register_io*`
  variants nobody uses, and `libipfix_open` and `libipfix_reconnect`, which are
  commented out.
* Printing and formatting helpers (`print_*`, the hex dumps, the text of log lines
  and of responses): they change no state.
* Console messages split over reads or merged in one, `runtime_configuration_cb` and
  the sync records it exports: `netcon_init` has emptied the registry, so no message
  reaches them (`netcon_commands`). The listening server in `netcon.c` is behind the
  unconditional return of `netcon_init`.
* The fields of interface statistics, sync and location records and the creation of
  templates by libipfix: only whether and when such records are exported is modelled
  (`Probe`).
* Whether a captured packet is classified as IP (`get_nettype`, which reads the type at
  bytes 12, 6 or 14 without a look at the length, or at byte 0 for sockets, also with
  `-O`): `Probe` has both outcomes for every packet.
* What the hash functions read of a packet that is shorter than link header and `-O`:
  `Capture` leaves length 0 and the pointer unmoved, `Headers` starts with a packet
  whose IP header is at position 0.
* 32-bit builds, where `utime` and `stime` are narrower than the previous values they
  are compared with (`stats.c:91`, `stats.c:284`). A mismatch in `/proc/stat` is taken
  for a failed read, since it leaves CPU times that do not move.
* What libpcap does with the `bpf_program` that `setFilter` has not initialised when
  `pcap_compile` fails: the code does not determine it. Nor does it determine what
  becomes of the section heading that `read_options_file_v2` declares inside its loop
  (`settings.c:906`); `Options` takes it to be kept, as every build does.
* A first connection to the collector that never succeeds: whether libipfix then
  leaves the list that `resync_timer_cb` follows empty is decided by the library.
  `Netcon` starts with a collector in the list.

## Plan

Done: the core (Selection, RuntimeConfig, Probe with its abstract specifications),
Netcon, the hash input, options with the logger and startup, capture, the probe
statistics, and the proofs above, which cover every safety property of the passing
runs. Left: the fields of the remaining templates and their
records.
