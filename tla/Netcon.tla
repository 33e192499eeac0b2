-------------------------------- MODULE Netcon --------------------------------
(***************************************************************************)
(* The network console (netcon.c): commands that arrive on the connection  *)
(* libipfix keeps to the collector.  A timer looks at the collector's      *)
(* descriptor and registers it in a list of connection slots, each with a  *)
(* libev read watcher; registered callbacks get the messages.              *)
(*                                                                         *)
(* External, modelled as netcon.c relies on them: libipfix, which closes   *)
(* and reopens its connection by itself; the kernel, which forgets the     *)
(* epoll interest in a descriptor that is closed; and libev, which links   *)
(* the watchers of a descriptor through a field of the watcher.            *)
(***************************************************************************)
EXTENDS Integers, Sequences, FiniteSets

CONSTANTS
  Fds,          \* descriptor numbers the collector connection may get
  MaxConnects   \* bound: connections libipfix ever makes

ASSUME NetconAssumption ==
  /\ Fds \subseteq Nat \ {0}
  /\ IsFiniteSet(Fds)
  /\ MaxConnects \in Nat

VARIABLES
  pc,        \* main(): "config", "netcon", then "loop"
  reg,       \* netcon.reg: the command callbacks
  conn,      \* netcon.conn: the slots
  result,    \* the last message and what became of it
  head,      \* libev: first watcher of each descriptor, 0 for none
  pending,   \* libev: slots whose read_cb is due in this iteration
  hung,      \* libev walks a cyclic watcher list for ever
  interest,  \* kernel: descriptors in the epoll set
  col,       \* libipfix: descriptor of the collector, -1 while disconnected
  epoch,     \* connections made so far
  input      \* what the collector connection has to read

loopVars == <<head, pending, hung>>
ipfixVars == <<col, epoch, input>>
vars == <<pc, reg, conn, result, loopVars, interest, ipfixVars>>

Callbacks == {"runtime_configuration_cb"}
Messages  == {"mid", "other"}   \* "mid: <id> -<cmd>", anything else

\* A slot: its fd, its watcher (active, descriptor, link) and, as history, the
\* connection it was registered for.
Slot == [fd : Fds \cup {-1}, active : BOOLEAN, wfd : Fds, next : Nat, epoch : Nat]

-----------------------------------------------------------------------------
(* libev                                                                   *)

\* The watchers in descriptor f's list, for slots cs and list heads h: the first
\* one, and every one that a watcher of the list links to.
Watchers(cs, h, f) ==
  {i \in DOMAIN cs :
     \A L \in SUBSET DOMAIN cs :
       (\A j \in DOMAIN cs : j = h[f] \/ (\E w \in L : cs[w].next = j) => j \in L) => i \in L}

\* None of them is the last one.
Cyclic(cs, h, f) ==
  /\ Watchers(cs, h, f) # {}
  /\ \A i \in Watchers(cs, h, f) : cs[i].next # 0

\* ev_io_stop: the watcher leaves the list of its descriptor, if it is there.
ev_io_stop(i) ==
  LET w  == conn[i]
      ps == {p \in Watchers(conn, head, w.wfd) : conn[p].next = i}
      cs == [p \in DOMAIN conn |->
               IF p \in ps THEN [conn[p] EXCEPT !.next = w.next] ELSE conn[p]]
  IN  IF ~w.active THEN [conn |-> conn, head |-> head]
      ELSE [conn |-> [cs EXCEPT ![i].active = FALSE],
            head |-> IF head[w.wfd] = i THEN [head EXCEPT ![w.wfd] = w.next] ELSE head]

\* ev_io_init and ev_io_start on slot i of cs: init clears `active` whether or
\* not the watcher is linked somewhere, so start always links it.
ev_io_init_start(cs, i, f) ==
  /\ conn' = [cs EXCEPT ![i] = [fd |-> f, active |-> TRUE, wfd |-> f,
                                next |-> head[f], epoch |-> epoch]]
  /\ head' = [head EXCEPT ![f] = i]
  /\ interest' = interest \cup {f}
  /\ hung' = Cyclic(conn', head', f)
  /\ UNCHANGED pending

Running == pc = "loop" /\ ~hung

\* A poll finds the collector connection readable.
Poll ==
  /\ Running /\ pending = {}
  /\ col \in interest /\ input # "none"
  /\ pending' = Watchers(conn, head, col)
  /\ pending' # {}
  /\ UNCHANGED <<pc, reg, conn, result, head, hung, interest, ipfixVars>>

-----------------------------------------------------------------------------
(* main.c, config_handler.c: the order of initialisation                   *)

netcon_register(cmd) == reg' = Append(reg, cmd)

config_handler_init ==
  /\ pc = "config"
  /\ pc' = "netcon"
  /\ netcon_register("runtime_configuration_cb")
  /\ UNCHANGED <<conn, result, loopVars, interest, ipfixVars>>

netcon_init ==
  /\ pc = "netcon"
  /\ pc' = "loop"
  /\ reg' = << >>
  /\ conn' = << >>
  /\ UNCHANGED <<result, loopVars, interest, ipfixVars>>

-----------------------------------------------------------------------------
(* netcon.c                                                                *)

\* Faulty variant: the slots are freed, with callbacks possibly pending.
netcon_clean_Frees == conn' = << >> /\ UNCHANGED <<loopVars, interest>>

\* fd < 0: every slot is cleaned, its watcher is left as it is.  The descriptor
\* is closed a second time, which fails: libipfix has closed it.
netcon_clean ==
  /\ conn' = [i \in DOMAIN conn |-> [conn[i] EXCEPT !.fd = -1]]
  /\ UNCHANGED <<loopVars, interest>>

\* Slots whose fd is f.
SlotsOf(f) == {i \in DOMAIN conn : conn[i].fd = f}

\* Faulty variants: no look for a slot that has the descriptor; no reuse of free
\* slots; no allocation of a new slot.
netcon_resync_NoCheck(fd, calloc) ==
  \/ /\ fd < 0 /\ netcon_clean
  \/ /\ fd >= 0
     /\ ev_io_init_start(Append(conn, [fd |-> -1, active |-> FALSE, wfd |-> fd,
                                       next |-> 0, epoch |-> 0]),
                         Len(conn) + 1, fd)
     /\ Len(conn) < 2
netcon_resync_NoReuse(fd, calloc) ==
  \/ /\ fd < 0 /\ netcon_clean
  \/ /\ fd >= 0 /\ SlotsOf(fd) = {}
     /\ ev_io_init_start(Append(conn, [fd |-> -1, active |-> FALSE, wfd |-> fd,
                                       next |-> 0, epoch |-> 0]),
                         Len(conn) + 1, fd)
netcon_resync_NoCalloc(fd, calloc) ==
  \/ /\ fd < 0 /\ netcon_clean
  \/ /\ fd >= 0 /\ SlotsOf(fd) = {}
     /\ \E first \in SlotsOf(-1) : ev_io_init_start(conn, first, fd)

\* fd >= 0: nothing if it is registered, else the first free slot or a new one
\* unless calloc fails.
netcon_resync(fd, calloc) ==
  \/ /\ fd < 0 /\ netcon_clean
  \/ /\ fd >= 0 /\ SlotsOf(fd) # {}
     /\ UNCHANGED <<conn, loopVars, interest>>
  \/ /\ fd >= 0 /\ SlotsOf(fd) = {}
     /\ \E first \in SlotsOf(-1) :
          /\ \A i \in SlotsOf(-1) : first <= i
          /\ ev_io_init_start(conn, first, fd)
  \/ /\ fd >= 0 /\ SlotsOf(fd) = {} /\ SlotsOf(-1) = {}
     /\ IF calloc
        THEN ev_io_init_start(Append(conn, [fd |-> -1, active |-> FALSE, wfd |-> fd,
                                            next |-> 0, epoch |-> 0]),
                              Len(conn) + 1, fd)
        ELSE UNCHANGED <<conn, loopVars, interest>>

resync_timer_cb(calloc) ==
  /\ Running
  /\ netcon_resync(col, calloc)
  /\ UNCHANGED <<pc, reg, result, ipfixVars>>

\* runtime_configuration_cb consumes "mid:" messages.
Matches(cmd, msg) == cmd = "runtime_configuration_cb" /\ msg = "mid"

\* The callbacks are tried in turn until one consumes the message.
connection_read(msg) ==
  result' = [msg |-> msg,
             matched |-> \E k \in DOMAIN reg : Matches(reg[k], msg)]

\* Faulty variant: the slot keeps its descriptor.
connection_close_KeepsFd(i) == conn' = ev_io_stop(i).conn /\ head' = ev_io_stop(i).head

\* A sync connection is stopped but not closed: it belongs to libipfix.
connection_close(i) ==
  /\ conn' = [ev_io_stop(i).conn EXCEPT ![i].fd = -1]
  /\ head' = ev_io_stop(i).head

\* read() succeeds only on the open connection; with end of file, a closed or no
\* descriptor, or nothing to read it returns <= 0.
read_cb(i) ==
  /\ Running /\ i \in pending
  /\ pending' = pending \ {i}
  /\ \/ /\ conn[i].fd = col /\ input \in Messages
        /\ connection_read(input)
        /\ input' = "none"
        /\ UNCHANGED <<conn, head>>
     \/ /\ conn[i].fd # col \/ input \notin Messages
        /\ connection_close(i)
        /\ UNCHANGED <<result, input>>
  /\ UNCHANGED <<pc, reg, hung, interest, col, epoch>>

-----------------------------------------------------------------------------
(* libipfix and the collector                                              *)

\* A reconnect is part of an export, so it needs a running loop (or startup).
Connect(f) ==
  /\ ~hung /\ col = -1 /\ epoch < MaxConnects
  /\ col' = f
  /\ epoch' = epoch + 1
  /\ input' = "none"
  /\ UNCHANGED <<pc, reg, conn, result, loopVars, interest>>

\* A failing write closes the connection.
Drop ==
  /\ ~hung /\ col # -1
  /\ col' = -1
  /\ interest' = interest \ {col}
  /\ input' = "none"
  /\ UNCHANGED <<pc, reg, conn, result, loopVars, epoch>>

CollectorSends(m) ==
  /\ col # -1 /\ input = "none"
  /\ input' = m
  /\ UNCHANGED <<pc, reg, conn, result, loopVars, interest, col, epoch>>

CollectorCloses ==
  /\ col # -1 /\ input # "eof"
  /\ input' = "eof"
  /\ UNCHANGED <<pc, reg, conn, result, loopVars, interest, col, epoch>>

-----------------------------------------------------------------------------
Init ==
  /\ pc = "config"
  /\ reg = << >> /\ conn = << >>
  /\ result = [msg |-> "none", matched |-> FALSE]
  /\ head = [f \in Fds |-> 0]
  /\ pending = {} /\ hung = FALSE
  /\ interest = {}
  /\ col = -1 /\ epoch = 0 /\ input = "none"

Next ==
  \/ config_handler_init
  \/ netcon_init
  \/ \E m \in BOOLEAN : resync_timer_cb(m)
  \/ Poll
  \/ \E i \in pending : read_cb(i)
  \/ \E f \in Fds : Connect(f)
  \/ Drop
  \/ \E m \in Messages : CollectorSends(m)
  \/ CollectorCloses

Spec == Init /\ [][Next]_vars

\* main() goes on, the loop runs due callbacks and its timer, and calloc does not
\* fail for ever.  Nothing is assumed of the collector or of the connection.
Fairness ==
  /\ WF_vars(config_handler_init)
  /\ WF_vars(netcon_init)
  /\ WF_vars(Poll)
  /\ WF_vars(\E i \in pending : read_cb(i))
  /\ WF_vars(resync_timer_cb(TRUE))

FairSpec == Spec /\ Fairness

-----------------------------------------------------------------------------
(* Properties                                                              *)

\* Types of the console's state.
TypeOK ==
  /\ pc \in {"config", "netcon", "loop"}
  /\ reg \in Seq(Callbacks)
  /\ conn \in Seq(Slot)
  /\ result \in [msg : Messages \cup {"none"}, matched : BOOLEAN]
  /\ head \in [Fds -> Nat]
  /\ pending \subseteq DOMAIN conn
  /\ hung \in BOOLEAN
  /\ interest \subseteq Fds
  /\ col \in Fds \cup {-1}
  /\ epoch \in 0..MaxConnects
  /\ input \in Messages \cup {"none", "eof"}

\* No descriptor is in two slots, however connections, cleanings and read errors
\* interleave: two slots would read one stream in turns.
DistinctSlots ==
  \A i, j \in DOMAIN conn : conn[i].fd = conn[j].fd /\ conn[i].fd # -1 => i = j

\* Slots are reused, so reconnecting does not grow the list beyond the number of
\* descriptors that occur.
SlotsBounded == Len(conn) <= Cardinality(Fds)

\* A connection is open and libev will call the read_cb of a slot that reads it.
Watched ==
  /\ ~hung /\ col \in interest
  /\ \E i \in Watchers(conn, head, col) : conn[i].fd = col

\* A slot that was registered for the connection now open is watched: cleaning
\* and closing never leave such a slot deaf.
CurrentSlotWatched ==
  \A i \in DOMAIN conn :
    ~hung /\ conn[i].fd = col /\ col # -1 /\ conn[i].epoch = epoch => Watched

\* The slots follow the collector: its descriptor gets a slot while it is open.
SlotFollowsCollector ==
  \A f \in Fds : col = f ~> SlotsOf(f) # {} \/ col # f \/ hung

\* "Periodically checks ipfix export fd and reconnects it to netcon": an open
\* connection is eventually watched.
Reconnects ==
  \A e \in 1..MaxConnects :
    col # -1 /\ epoch = e ~> Watched \/ col = -1 \/ epoch # e

\* "register runtime configuration callback to netcon": a "mid:" message that is
\* read is consumed by runtime_configuration_cb.
CommandsMatched == result.msg = "mid" => result.matched
=============================================================================
