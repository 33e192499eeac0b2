----------------------------- MODULE NetconProofs -----------------------------
(***************************************************************************)
(* Theorems about the slots of the network console, for any descriptors    *)
(* and any number of connections.                                          *)
(***************************************************************************)
EXTENDS Netcon, SequenceTheorems, FiniteSetTheorems, TLAPS

\* A function on the domain of a sequence of slots with slots as values.
LEMMA SlotSeq ==
  ASSUME conn \in Seq(Slot), NEW g, g = [i \in DOMAIN conn |-> g[i]],
         \A i \in DOMAIN conn : g[i] \in Slot
  PROVE  g \in Seq(Slot) /\ DOMAIN g = DOMAIN conn
<1>1. PICK n \in Nat : conn \in [1..n -> Slot]
  BY SeqDef
<1>2. g \in [1..n -> Slot]
  BY <1>1
<1>3. QED BY <1>1, <1>2, SeqDef

\* The watchers of a descriptor are slots, the first one among them.
LEMMA WatchersAreSlots ==
  ASSUME NEW cs, NEW h, NEW f
  PROVE  /\ Watchers(cs, h, f) \subseteq DOMAIN cs
         /\ h[f] \in DOMAIN cs => h[f] \in Watchers(cs, h, f)
BY DEF Watchers

\* Stopping a watcher changes links only.
LEMMA StopEffect ==
  ASSUME TypeOK, NEW i \in DOMAIN conn
  PROVE  /\ ev_io_stop(i).head \in [Fds -> Nat]
         /\ ev_io_stop(i).conn \in Seq(Slot)
         /\ DOMAIN ev_io_stop(i).conn = DOMAIN conn
         /\ \A j \in DOMAIN conn : /\ ev_io_stop(i).conn[j].fd = conn[j].fd
                                  /\ ev_io_stop(i).conn[j].epoch = conn[j].epoch
         /\ \A f \in Fds : head[f] # i => ev_io_stop(i).head[f] = head[f]
<1> DEFINE w  == conn[i]
           ps == {p \in Watchers(conn, head, w.wfd) : conn[p].next = i}
           cs == [p \in DOMAIN conn |->
                    IF p \in ps THEN [conn[p] EXCEPT !.next = w.next] ELSE conn[p]]
<1>1. conn \in Seq(Slot) /\ head \in [Fds -> Nat] /\ \A j \in DOMAIN conn : conn[j] \in Slot
  BY DEF TypeOK
<1>2. CASE ~w.active
  <2>1. ev_io_stop(i) = [conn |-> conn, head |-> head]
    BY <1>2 DEF ev_io_stop
  <2>2. QED BY <1>1, <2>1
<1>3. CASE w.active
  <2>1. /\ ev_io_stop(i).conn = [cs EXCEPT ![i].active = FALSE]
        /\ ev_io_stop(i).head =
             IF head[w.wfd] = i THEN [head EXCEPT ![w.wfd] = w.next] ELSE head
    BY <1>3 DEF ev_io_stop
  <2>2. /\ ev_io_stop(i).head \in [Fds -> Nat]
        /\ \A f \in Fds : head[f] # i => ev_io_stop(i).head[f] = head[f]
    BY <1>1, <2>1 DEF Slot
  <2>3. \A j \in DOMAIN conn : /\ cs[j] \in Slot /\ cs[j].fd = conn[j].fd
                              /\ cs[j].epoch = conn[j].epoch
    BY <1>1 DEF Slot
  <2>4. /\ ev_io_stop(i).conn = [j \in DOMAIN conn |-> ev_io_stop(i).conn[j]]
        /\ \A j \in DOMAIN conn : /\ ev_io_stop(i).conn[j] \in Slot
                                  /\ ev_io_stop(i).conn[j].fd = conn[j].fd
                                  /\ ev_io_stop(i).conn[j].epoch = conn[j].epoch
    <3> HIDE DEF cs
    <3>1. cs = [j \in DOMAIN conn |-> cs[j]]
      BY DEF cs
    <3>2. /\ [cs[i] EXCEPT !.active = FALSE] \in Slot
          /\ [cs[i] EXCEPT !.active = FALSE].fd = cs[i].fd
          /\ [cs[i] EXCEPT !.active = FALSE].epoch = cs[i].epoch
      BY <2>3 DEF Slot
    <3>3. ev_io_stop(i).conn = [cs EXCEPT ![i] = [cs[i] EXCEPT !.active = FALSE]]
      BY <2>1, <3>1
    <3>4. QED BY <2>3, <3>1, <3>2, <3>3
  <2>5. QED BY <1>1, <2>2, <2>4, SlotSeq
<1>4. QED BY <1>2, <1>3

\* No slot exists before the loop runs, so that netcon_init forgets none.
NoSlotBeforeLoop == pc # "loop" => conn = << >>

\* Connections are numbered upwards.
EpochsPast == \A i \in DOMAIN conn : conn[i].epoch <= epoch

\* The slot of the connection now open is the first in libev's list of its
\* descriptor: only a slot for the same descriptor could come before it, and there
\* is none.  The interest in the descriptor lasts until it is closed.
CurrentSlotFirst ==
  \A i \in DOMAIN conn :
    conn[i].fd = col /\ col # -1 /\ conn[i].epoch = epoch
      => head[col] = i /\ col \in interest

\* The inductive invariant.
Inv ==
  /\ TypeOK
  /\ DistinctSlots
  /\ SlotsBounded
  /\ NoSlotBeforeLoop
  /\ EpochsPast
  /\ CurrentSlotFirst

\* What an operation on the slots must show.
SlotsKept ==
  /\ conn \in Seq(Slot) /\ head \in [Fds -> Nat]
  /\ DistinctSlots /\ SlotsBounded /\ EpochsPast /\ CurrentSlotFirst

\* Linking slot i of cs to descriptor f, which no slot of cs has.
LEMMA StartEffect ==
  ASSUME Inv, NEW cs \in Seq(Slot), NEW i \in DOMAIN cs, NEW f \in Fds,
         \A j \in DOMAIN cs : cs[j].fd # f,
         \A j, k \in DOMAIN cs : cs[j].fd = cs[k].fd /\ cs[j].fd # -1 => j = k,
         \A j \in DOMAIN cs : cs[j].epoch <= epoch,
         Len(cs) <= Cardinality(Fds),
         ev_io_init_start(cs, i, f), col = f, col' = col, epoch' = epoch
  PROVE  /\ SlotsKept'
         /\ interest' \subseteq Fds
         /\ hung' \in BOOLEAN
         /\ pending' = pending
         /\ DOMAIN conn' = DOMAIN cs
<1> DEFINE new == [fd |-> f, active |-> TRUE, wfd |-> f, next |-> head[f], epoch |-> epoch]
<1>1. /\ conn' = [cs EXCEPT ![i] = new]
      /\ head' = [head EXCEPT ![f] = i] /\ interest' = interest \cup {f}
      /\ hung' = Cyclic(conn', head', f) /\ pending' = pending
  BY DEF ev_io_init_start
<1>2. head \in [Fds -> Nat] /\ interest \subseteq Fds /\ epoch \in Nat
  BY DEF Inv, TypeOK
<1>3. new \in Slot /\ new.fd = f /\ new.epoch = epoch
  BY <1>2 DEF Slot
<1> HIDE DEF new
<1>4. conn' \in Seq(Slot) /\ DOMAIN conn' = DOMAIN cs /\ Len(conn') = Len(cs)
  BY <1>1, <1>3
<1>5. \A j \in DOMAIN cs : conn'[j] = IF j = i THEN new ELSE cs[j]
  BY <1>1
<1>6. DistinctSlots'
  BY <1>3, <1>4, <1>5 DEF DistinctSlots
<1>7. i \in Nat
  OBVIOUS
<1>8. hung' \in BOOLEAN
  BY <1>1, Zenon DEF Cyclic
<1>9. SlotsBounded'
  BY <1>4 DEF SlotsBounded
<1>10. EpochsPast'
  BY <1>2, <1>3, <1>4, <1>5 DEF EpochsPast
<1>11. head' \in [Fds -> Nat] /\ head'[f] = i
  BY <1>1, <1>2, <1>7
<1>12. CurrentSlotFirst'
  <2>1. \A j \in DOMAIN conn' : conn'[j].fd = f => j = i
    BY <1>4, <1>5
  <2>2. QED BY <1>1, <1>11, <2>1 DEF CurrentSlotFirst
<1>13. QED BY <1>1, <1>2, <1>4, <1>6, <1>8, <1>9, <1>10, <1>11, <1>12 DEF SlotsKept

\* Slots that are all taken by descriptors other than f leave room for one more:
\* descriptors are distinct and f is not among them.
LEMMA RoomForOne ==
  ASSUME TypeOK, DistinctSlots, NEW f \in Fds,
         \A j \in DOMAIN conn : conn[j].fd # f /\ conn[j].fd # -1
  PROVE  Len(conn) + 1 <= Cardinality(Fds)
<1> DEFINE Others == Fds \ {f}
           fdOf == [j \in 1..Len(conn) |-> conn[j].fd]
<1>1. conn \in Seq(Slot) /\ DOMAIN conn = 1..Len(conn) /\ Len(conn) \in Nat
  BY DEF TypeOK
<1>2. \A j \in 1..Len(conn) : conn[j].fd \in Others
  <2>1. \A j \in DOMAIN conn : conn[j] \in Slot
    BY <1>1
  <2>2. QED BY <1>1, <2>1 DEF Slot
<1>3. fdOf \in Injection(1..Len(conn), Others)
  BY <1>1, <1>2 DEF Injection, IsInjective, DistinctSlots
<1>4. IsFiniteSet(Others) /\ Cardinality(Others) = Cardinality(Fds) - 1
  BY FS_RemoveElement, NetconAssumption
<1>5. Cardinality(1..Len(conn)) <= Cardinality(Others)
  <2> HIDE DEF Others, fdOf
  <2> QED BY <1>3, <1>4, FS_Injection
<1>6. Cardinality(1..Len(conn)) = Len(conn)
  BY <1>1, FS_Interval
<1>7. Cardinality(Fds) \in Nat
  BY FS_CardinalityType, NetconAssumption
<1>8. QED BY <1>1, <1>4, <1>5, <1>6, <1>7

\* The timer: clean, keep, reuse the first free slot, append or give up.
LEMMA ResyncStep ==
  ASSUME Inv, NEW m \in BOOLEAN, resync_timer_cb(m)
  PROVE  Inv'
<1>1. netcon_resync(col, m) /\ UNCHANGED <<pc, reg, result, ipfixVars>>
  BY DEF resync_timer_cb
<1>2. TypeOK /\ conn \in Seq(Slot) /\ \A i \in DOMAIN conn : conn[i] \in Slot
  BY DEF Inv, TypeOK
<1>3. SUFFICES /\ SlotsKept'
               /\ interest' \subseteq Fds
               /\ hung' \in BOOLEAN /\ pending' = pending
               /\ DOMAIN conn \subseteq DOMAIN conn'
  BY <1>1, <1>2 DEF Inv, SlotsKept, TypeOK, ipfixVars, NoSlotBeforeLoop, resync_timer_cb, Running
<1>4. CASE UNCHANGED <<conn, loopVars, interest>>
  BY <1>1, <1>2, <1>4 DEF Inv, SlotsKept, TypeOK, DistinctSlots, SlotsBounded, EpochsPast,
     CurrentSlotFirst, loopVars, ipfixVars
<1>5. CASE netcon_clean
  <2>1. \A i \in DOMAIN conn : /\ conn'[i] \in Slot /\ conn'[i].fd = -1
                               /\ conn'[i].epoch = conn[i].epoch
    BY <1>2, <1>5 DEF netcon_clean, Slot
  <2>2. conn' = [i \in DOMAIN conn |-> conn'[i]]
    BY <1>5 DEF netcon_clean
  <2>3. conn' \in Seq(Slot) /\ DOMAIN conn' = DOMAIN conn
    BY <1>2, <2>1, <2>2, SlotSeq
  <2>4. Len(conn') = Len(conn)
    BY <1>2, <2>3
  <2>5. DistinctSlots' /\ CurrentSlotFirst'
    BY <2>1, <2>3 DEF DistinctSlots, CurrentSlotFirst
  <2>6. SlotsBounded' /\ EpochsPast'
    BY <1>1, <2>1, <2>3, <2>4 DEF Inv, SlotsBounded, EpochsPast, ipfixVars
  <2>7. QED BY <1>2, <1>5, <2>3, <2>5, <2>6 DEF netcon_clean, loopVars, TypeOK, SlotsKept
<1>6. ASSUME col >= 0, SlotsOf(col) = {}
      PROVE  col \in Fds /\ \A j \in DOMAIN conn : conn[j].fd # col
  BY <1>2, <1>6 DEF TypeOK, SlotsOf
<1>7. CASE /\ col >= 0 /\ SlotsOf(col) = {}
           /\ \E first \in SlotsOf(-1) : ev_io_init_start(conn, first, col)
  <2>1. PICK first \in DOMAIN conn : ev_io_init_start(conn, first, col)
    BY <1>7 DEF SlotsOf
  <2>2. QED BY <1>1, <1>2, <1>6, <1>7, <2>1, StartEffect
            DEF Inv, DistinctSlots, SlotsBounded, EpochsPast, ipfixVars
<1>8. CASE /\ col >= 0 /\ SlotsOf(col) = {} /\ SlotsOf(-1) = {}
           /\ ev_io_init_start(Append(conn, [fd |-> -1, active |-> FALSE, wfd |-> col,
                                             next |-> 0, epoch |-> 0]),
                               Len(conn) + 1, col)
  <2> DEFINE free == [fd |-> -1, active |-> FALSE, wfd |-> col, next |-> 0, epoch |-> 0]
             cs == Append(conn, free)
  <2>1. free \in Slot /\ free.fd = -1 /\ free.epoch = 0
    BY <1>6, <1>8 DEF Slot
  <2>2. ev_io_init_start(cs, Len(conn) + 1, col)
    BY <1>8
  <2> HIDE DEF free
  <2>3. /\ cs \in Seq(Slot) /\ DOMAIN cs = 1..(Len(conn) + 1)
        /\ cs[Len(conn) + 1] = free
        /\ \A j \in DOMAIN conn : cs[j] = conn[j]
        /\ DOMAIN conn = 1..Len(conn) /\ Len(conn) \in Nat
        /\ Len(cs) = Len(conn) + 1
    BY <1>2, <2>1
  <2> HIDE DEF cs
  <2>4. \A j \in DOMAIN cs : cs[j].fd # col
    BY <1>6, <1>8, <2>1, <2>3
  <2>5. \A j, k \in DOMAIN cs : cs[j].fd = cs[k].fd /\ cs[j].fd # -1 => j = k
    BY <2>1, <2>3 DEF Inv, DistinctSlots
  <2>6. Len(conn) + 1 \in DOMAIN cs
    BY <2>3
  <2>7. Len(cs) <= Cardinality(Fds)
    <3>1. \A j \in DOMAIN conn : conn[j].fd # col /\ conn[j].fd # -1
      BY <1>6, <1>8 DEF SlotsOf
    <3>2. QED BY <1>2, <1>6, <1>8, <2>3, <3>1, RoomForOne DEF Inv
  <2>8. \A j \in DOMAIN cs : cs[j].epoch <= epoch
    BY <1>2, <2>1, <2>3 DEF Inv, EpochsPast, TypeOK
  <2>9. /\ SlotsKept' /\ interest' \subseteq Fds
        /\ hung' \in BOOLEAN /\ pending' = pending
        /\ DOMAIN conn' = DOMAIN cs
    BY <1>1, <1>6, <1>8, <2>2, <2>3, <2>4, <2>5, <2>6, <2>7, <2>8, StartEffect DEF ipfixVars
  <2>10. DOMAIN conn \subseteq DOMAIN cs
    BY <2>3
  <2>11. QED BY <2>9, <2>10
<1>9. QED BY <1>1, <1>4, <1>5, <1>7, <1>8 DEF netcon_resync

\* A read keeps the slot or closes it.
LEMMA ReadStep ==
  ASSUME Inv, NEW i \in pending, read_cb(i)
  PROVE  Inv'
<1>1. /\ TypeOK /\ i \in DOMAIN conn /\ pending' = pending \ {i} /\ NoSlotBeforeLoop'
      /\ UNCHANGED <<pc, reg, hung, interest, col, epoch>>
  BY DEF Inv, TypeOK, read_cb, Running, NoSlotBeforeLoop
<1>2. CASE UNCHANGED <<conn, head>> /\ connection_read(input) /\ input \in Messages /\ input' = "none"
  <2>1. result' \in [msg : Messages \cup {"none"}, matched : BOOLEAN]
    BY <1>2, Zenon DEF connection_read
  <2>2. TypeOK'
    BY <1>1, <1>2, <2>1 DEF TypeOK
  <2>3. DistinctSlots' /\ SlotsBounded' /\ EpochsPast' /\ CurrentSlotFirst'
    BY <1>1, <1>2 DEF Inv, DistinctSlots, SlotsBounded, EpochsPast, CurrentSlotFirst
  <2>4. QED BY <1>1, <2>2, <2>3 DEF Inv
<1>3. CASE connection_close(i) /\ UNCHANGED <<result, input>>
  <2> DEFINE cs == ev_io_stop(i).conn
  <2>1. conn' = [cs EXCEPT ![i].fd = -1] /\ head' = ev_io_stop(i).head
    BY <1>3 DEF connection_close
  <2>2. /\ cs \in Seq(Slot) /\ DOMAIN cs = DOMAIN conn /\ head' \in [Fds -> Nat]
        /\ \A j \in DOMAIN conn : cs[j].fd = conn[j].fd /\ cs[j].epoch = conn[j].epoch
        /\ \A f \in Fds : head[f] # i => head'[f] = head[f]
    BY <1>1, <2>1, StopEffect
  <2> HIDE DEF cs
  <2>3. /\ [cs[i] EXCEPT !.fd = -1] \in Slot /\ [cs[i] EXCEPT !.fd = -1].fd = -1
        /\ [cs[i] EXCEPT !.fd = -1].epoch = cs[i].epoch
    <3>1. cs[i] \in Slot
      BY <1>1, <2>2
    <3>2. QED BY <3>1 DEF Slot
  <2>4. conn' = [cs EXCEPT ![i] = [cs[i] EXCEPT !.fd = -1]]
    BY <1>1, <2>1, <2>2
  <2>5. /\ conn' \in Seq(Slot) /\ DOMAIN conn' = DOMAIN conn
        /\ \A j \in DOMAIN conn : /\ conn'[j].fd = IF j = i THEN -1 ELSE conn[j].fd
                                  /\ conn'[j].epoch = conn[j].epoch
    BY <1>1, <2>2, <2>3, <2>4
  <2>6. DistinctSlots'
    BY <2>5 DEF Inv, DistinctSlots
  <2>7. Len(conn') = Len(conn)
    BY <1>1, <2>5 DEF TypeOK
  <2>8. SlotsBounded' /\ EpochsPast'
    BY <1>1, <2>5, <2>7 DEF Inv, SlotsBounded, EpochsPast
  <2>9. CurrentSlotFirst'
    <3> SUFFICES ASSUME NEW j \in DOMAIN conn, conn'[j].fd = col, col # -1,
                        conn'[j].epoch = epoch
                 PROVE  head'[col] = j /\ col \in interest
      BY <1>1, <2>5 DEF CurrentSlotFirst
    <3>1. j # i /\ conn[j].fd = col /\ conn[j].epoch = epoch
      BY <2>5
    <3>2. head[col] = j /\ col \in interest
      BY <3>1 DEF Inv, CurrentSlotFirst
    <3>3. QED BY <1>1, <2>2, <3>1, <3>2 DEF TypeOK
  <2>10. TypeOK'
    BY <1>1, <1>3, <2>2, <2>5 DEF TypeOK
  <2>11. QED BY <1>1, <2>6, <2>8, <2>9, <2>10 DEF Inv
<1>4. QED BY <1>2, <1>3 DEF read_cb

\* Startup, polling, libipfix and the collector touch no slot.
LEMMA OtherStep ==
  ASSUME Inv,
         \/ config_handler_init \/ netcon_init \/ Poll \/ Drop \/ CollectorCloses
         \/ \E f \in Fds : Connect(f)
         \/ \E m \in Messages : CollectorSends(m)
         \/ UNCHANGED vars
  PROVE  Inv'
<1>1. TypeOK /\ NoSlotBeforeLoop
  BY DEF Inv
<1>2. conn' = conn /\ head' = head
  BY <1>1 DEF config_handler_init, netcon_init, Poll, Drop, CollectorCloses, Connect,
     CollectorSends, vars, NoSlotBeforeLoop, loopVars
<1>3. DistinctSlots' /\ SlotsBounded' /\ NoSlotBeforeLoop'
  BY <1>1, <1>2 DEF Inv, DistinctSlots, SlotsBounded, NoSlotBeforeLoop, config_handler_init,
     netcon_init, Poll, Drop, CollectorCloses, Connect, CollectorSends, vars
<1>4. EpochsPast' /\ CurrentSlotFirst'
  <2>1. CASE UNCHANGED <<col, epoch, interest>>
    BY <1>2, <2>1 DEF Inv, EpochsPast, CurrentSlotFirst
  <2>2. CASE Drop
    BY <1>2, <2>2 DEF Inv, EpochsPast, CurrentSlotFirst, Drop
  <2>3. ASSUME NEW f \in Fds, Connect(f)
        PROVE  EpochsPast' /\ CurrentSlotFirst'
    <3>1. epoch' = epoch + 1 /\ epoch \in Nat
      BY <1>1, <2>3 DEF Connect, TypeOK
    <3>2. \A i \in DOMAIN conn : conn[i].epoch \in Nat /\ conn[i].epoch <= epoch
      <4>1. \A i \in DOMAIN conn : conn[i] \in Slot
        BY <1>1 DEF TypeOK
      <4>2. QED BY <4>1 DEF Inv, EpochsPast, Slot
    <3>3. QED BY <1>2, <3>1, <3>2 DEF EpochsPast, CurrentSlotFirst
  <2>4. QED BY <2>1, <2>2, <2>3 DEF config_handler_init, netcon_init, Poll, CollectorCloses,
            CollectorSends, vars, ipfixVars
<1>5. TypeOK'
  <2>1. CASE config_handler_init \/ netcon_init
    <3>1. reg' \in Seq(Callbacks)
      <4>1. "runtime_configuration_cb" \in Callbacks /\ reg \in Seq(Callbacks)
        BY <1>1 DEF Callbacks, TypeOK
      <4>2. Append(reg, "runtime_configuration_cb") \in Seq(Callbacks)
        BY <4>1, AppendProperties
      <4>3. << >> \in Seq(Callbacks)
        BY EmptySeq
      <4>4. QED BY <2>1, <4>2, <4>3 DEF config_handler_init, netcon_init, netcon_register
    <3>2. QED BY <1>1, <1>2, <2>1, <3>1 DEF TypeOK, config_handler_init, netcon_init,
              loopVars, ipfixVars
  <2>2. CASE Poll
    BY <1>1, <1>2, <2>2, WatchersAreSlots DEF TypeOK, Poll, ipfixVars
  <2>3. CASE \/ Drop \/ CollectorCloses
             \/ \E f \in Fds : Connect(f)
             \/ \E m \in Messages : CollectorSends(m)
    <3>1. UNCHANGED <<pc, reg, result, loopVars>>
      BY <2>3 DEF Drop, CollectorCloses, Connect, CollectorSends
    <3>2. /\ interest' \subseteq Fds /\ col' \in Fds \cup {-1}
          /\ input' \in Messages \cup {"none", "eof"}
      BY <1>1, <2>3 DEF TypeOK, Drop, CollectorCloses, Connect, CollectorSends
    <3>3. epoch' \in 0..MaxConnects
      BY <1>1, <2>3, NetconAssumption DEF TypeOK, Drop, CollectorCloses, Connect, CollectorSends
    <3>4. QED BY <1>1, <1>2, <3>1, <3>2, <3>3 DEF TypeOK, loopVars
  <2>4. CASE UNCHANGED vars
    BY <1>1, <2>4 DEF TypeOK, vars, loopVars, ipfixVars
  <2>5. QED BY <2>1, <2>2, <2>3, <2>4
<1>6. QED BY <1>3, <1>4, <1>5 DEF Inv

\* The invariant holds of every state of the console.
LEMMA Invariant == Spec => []Inv
<1>1. Init => Inv
  <2> SUFFICES ASSUME Init PROVE Inv
    OBVIOUS
  <2>1. conn \in Seq(Slot) /\ reg \in Seq(Callbacks) /\ DOMAIN conn = {} /\ Len(conn) = 0
    BY EmptySeq DEF Init
  <2>2. result \in [msg : Messages \cup {"none"}, matched : BOOLEAN] /\ hung \in BOOLEAN
    BY Zenon DEF Init
  <2>3. SlotsBounded
    BY <2>1, FS_CardinalityType, NetconAssumption DEF SlotsBounded
  <2>4. QED
    BY <2>1, <2>2, <2>3, NetconAssumption DEF Init, Inv, TypeOK, DistinctSlots,
       NoSlotBeforeLoop, EpochsPast, CurrentSlotFirst
<1>2. Inv /\ [Next]_vars => Inv'
  BY ResyncStep, ReadStep, OtherStep DEF Next
<1>3. QED BY <1>1, <1>2, PTL DEF Spec

\* The state of netcon.c, and what it relies on in libev, the kernel and libipfix,
\* is well typed; a pending read_cb always finds its slot.
THEOREM ConsoleTypes == Spec => []TypeOK
<1>1. Inv => TypeOK
  BY DEF Inv
<1>2. QED BY <1>1, Invariant, PTL

\* No descriptor is ever registered in two slots, whatever libipfix, the
\* collector and the resync timer do in between.
THEOREM SlotsDistinct == Spec => []DistinctSlots
<1>1. Inv => DistinctSlots
  BY DEF Inv
<1>2. QED BY <1>1, Invariant, PTL

\* However often the collector connection is reopened, netcon_resync allocates no
\* more slots than there are descriptors.
THEOREM SlotListBounded == Spec => []SlotsBounded
<1>1. Inv => SlotsBounded
  BY DEF Inv
<1>2. QED BY <1>1, Invariant, PTL

\* A slot that was registered for the connection now open is called by libev when
\* there is something to read, unless the loop hangs.
THEOREM CurrentConnectionRead == Spec => []CurrentSlotWatched
<1>1. Inv => CurrentSlotWatched
  <2> SUFFICES ASSUME Inv, NEW i \in DOMAIN conn,
                      ~hung, conn[i].fd = col, col # -1, conn[i].epoch = epoch
               PROVE  Watched
    BY DEF CurrentSlotWatched
  <2>1. head[col] = i /\ col \in interest
    BY DEF Inv, CurrentSlotFirst
  <2>2. i \in Watchers(conn, head, col)
    BY <2>1, WatchersAreSlots
  <2>3. QED BY <2>1, <2>2 DEF Watched
<1>2. QED BY <1>1, Invariant, PTL

=============================================================================
