------------------------------- MODULE Capture -------------------------------
(***************************************************************************)
(* How packets come in: a device is opened (main.c, pcap_handler.c,        *)
(* socket_handler.c) and gets a watcher; packet_watcher_cb lets the        *)
(* device's dispatch function read a batch and pass each packet to         *)
(* handle_packet, which skips the link header and -O.  Whether what is     *)
(* left goes to handle_ip_packet or to handle_default_packet is left out:  *)
(* Probe has both outcomes for every packet.                               *)
(*                                                                         *)
(* External: the senders, the kernel's queues and libpcap.  The network    *)
(* goes on between any two system calls of a dispatch function.            *)
(***************************************************************************)
EXTENDS Integers, Sequences

CONSTANTS
  Types,       \* device types to try
  Links,       \* link types of pcap devices
  Messages,    \* lengths of messages
  MaxSent,     \* bound: messages sent
  SnapLength,  \* g_options.snapLength
  LinkHeader,  \* size of each link type's header, scaled down; 0 for the others
  Offset,      \* g_options.offset (-O)
  PCAP_DISPATCH_PACKET_COUNT

Sockets == {"TYPE_SOCKET_INET", "TYPE_SOCKET_UNIX"}
Pcaps   == {"TYPE_PCAP", "TYPE_PCAP_FILE"}
LinkTypes == {"DLT_EN10MB", "DLT_ATM_RFC1483", "DLT_LINUX_SLL", "DLT_RAW", "other"}

ASSUME CaptureAssumption ==
  /\ Types \subseteq Sockets \cup Pcaps \cup {"TYPE_FILE", "TYPE_UNKNOWN"}
  /\ Links \subseteq LinkTypes
  /\ Messages \subseteq Nat
  /\ MaxSent \in Nat
  /\ SnapLength \in Nat \ {0}
  /\ LinkHeader \in [LinkTypes -> Nat]
  /\ Offset \in Nat
  /\ PCAP_DISPATCH_PACKET_COUNT \in Nat \ {0}

VARIABLES
  type, link,   \* the device
  phase,        \* "start", "loop", "peeked" or "reading" in dispatch, "exit", "crash"
  watcher,      \* "none", "io" or "timer"
  hdr_len,      \* hdr.len
  nPackets,     \* packets of this batch
  queue,        \* kernel: messages that wait, each a sequence of bytes, or the
                \* bytes of a stream that wait
  closed,       \* the peer of a unix socket has closed it
  handled,      \* calls of handle_packet
  sent,         \* history: messages sent
  failed        \* history: a system call failed

devVars == <<type, link>>
netVars == <<queue, closed, sent>>
vars == <<devVars, phase, watcher, hdr_len, nPackets, netVars, handled, failed>>

\* Byte k of the n-th message is <<n, k>>.
Bytes(n, m) == [k \in 1..m |-> <<n, k>>]
Prefix(s, n) == SubSeq(s, 1, IF n < Len(s) THEN n ELSE Len(s))

-----------------------------------------------------------------------------
(* open_device                                                             *)

\* A failing open ends the program, but for a pcap file only a message is
\* printed and libpcap is used without a handle.
open_device(ok) ==
  /\ phase = "start"
  /\ failed' = ~ok
  /\ \/ /\ ok /\ type \in Sockets \cup Pcaps
        /\ phase' = "loop"
        /\ watcher' = IF type = "TYPE_PCAP_FILE" THEN "timer" ELSE "io"
     \/ /\ ok /\ type \notin Sockets \cup Pcaps   \* not yet implemented
        /\ phase' = "loop"
        /\ UNCHANGED watcher
     \/ /\ ~ok /\ type \in Sockets \cup Pcaps
        /\ phase' = IF type = "TYPE_PCAP_FILE" THEN "crash" ELSE "exit"
        /\ UNCHANGED watcher
  /\ UNCHANGED <<devVars, hdr_len, nPackets, netVars, handled>>

-----------------------------------------------------------------------------
(* packet_watcher_cb                                                       *)

Readable == queue # << >> \/ closed

\* Faulty variant: the loop waits for a full batch.
Callback_FullBatch ==
  /\ phase = "loop" /\ watcher # "none"
  /\ Len(queue) >= PCAP_DISPATCH_PACKET_COUNT
  /\ phase' = "reading"
  /\ nPackets' = 0
  /\ UNCHANGED <<devVars, watcher, hdr_len, netVars, handled, failed>>

\* The loop calls back when there is something to read, a timer at any time.
Callback ==
  /\ phase = "loop"
  /\ \/ watcher = "io" /\ Readable
     \/ watcher = "timer"
  /\ phase' = "reading"
  /\ nPackets' = 0
  /\ UNCHANGED <<devVars, watcher, hdr_len, netVars, handled, failed>>

\* Faulty variant: a callback without packets counts as an error.
Deregisters_OnZero(result) == 0 >= result

\* dispatch returns; a negative result deregisters the watcher for good.
Deregisters(result) == 0 > result
Return(result) ==
  /\ phase' = "loop"
  /\ watcher' = IF Deregisters(result) THEN "none" ELSE watcher
  /\ UNCHANGED <<devVars, hdr_len, nPackets, netVars, handled>>

\* A system call or pcap_dispatch fails.
Fail ==
  /\ phase \in {"reading", "peeked"} /\ nPackets < PCAP_DISPATCH_PACKET_COUNT
  /\ failed' = TRUE
  /\ Return(-1)

\* The batch is complete.
BatchDone ==
  /\ phase = "reading" /\ nPackets = PCAP_DISPATCH_PACKET_COUNT
  /\ Return(nPackets)
  /\ UNCHANGED failed

\* Faulty variant: one packet too many.
Reading_OneMore(T) == phase = "reading" /\ type \in T /\ nPackets <= PCAP_DISPATCH_PACKET_COUNT

Reading(T) == phase = "reading" /\ type \in T /\ nPackets < PCAP_DISPATCH_PACKET_COUNT

\* Nothing left: EAGAIN, or pcap_dispatch returns what it has delivered.
NothingToRead ==
  /\ Reading(Sockets \cup Pcaps)
  /\ ~Readable
  /\ Return(nPackets)
  /\ UNCHANGED failed

-----------------------------------------------------------------------------
(* handle_packet                                                           *)

\* determineLinkType: the link header of pcap devices; nothing sets it for sockets.
pkt_offset == IF type \in Pcaps THEN LinkHeader[link] ELSE 0

\* Faulty variant: a packet that is too short keeps its length.
apply_offset_Keeps(pkt, offset) ==
  IF offset < pkt.len THEN [ptr |-> pkt.ptr + offset, len |-> pkt.len - offset] ELSE pkt

\* The packet from position ptr on.  One that is not longer than the offset gets
\* length 0, and ptr stays where it is.
apply_offset(pkt, offset) ==
  IF offset < pkt.len THEN [ptr |-> pkt.ptr + offset, len |-> pkt.len - offset]
  ELSE [pkt EXCEPT !.len = 0]

\* Link header and -O are skipped one after the other.
handle_packet(bytes, len) ==
  handled' = Append(handled,
    [bytes |-> bytes, len |-> len,
     pkt |-> apply_offset(apply_offset([ptr |-> 0, len |-> Len(bytes)], pkt_offset), Offset)])

Handle(bytes, len) ==
  /\ handle_packet(bytes, len)
  /\ nPackets' = nPackets + 1
  /\ phase' = "reading"
  /\ UNCHANGED <<devVars, watcher, closed, sent, failed>>

-----------------------------------------------------------------------------
(* The dispatch functions                                                  *)

\* socket_dispatch_inet asks for the length of the next message first; an empty
\* one is taken for a shutdown of the connection.
Peek ==
  /\ Reading({"TYPE_SOCKET_INET"}) /\ queue # << >>
  /\ hdr_len' = Len(Head(queue))
  /\ phase' = "peeked"
  /\ Len(Head(queue)) > 0
  /\ UNCHANGED <<devVars, watcher, nPackets, netVars, handled, failed>>

PeekEmpty ==
  /\ Reading({"TYPE_SOCKET_INET"}) /\ queue # << >>
  /\ Len(Head(queue)) = 0
  /\ Return(-1)
  /\ UNCHANGED failed

\* Faulty variant: the captured length is reported as the length.
RecvInet_Caplen ==
  /\ phase = "peeked"
  /\ Handle(Prefix(Head(queue), SnapLength), Len(Prefix(Head(queue), SnapLength)))
  /\ queue' = Tail(queue)
  /\ UNCHANGED hdr_len

RecvInet ==
  /\ phase = "peeked"
  /\ Handle(Prefix(Head(queue), SnapLength), hdr_len)
  /\ queue' = Tail(queue)
  /\ UNCHANGED hdr_len

\* socket_dispatch_unix reads from a stream: what has arrived, up to snapLength.
RecvUnix ==
  LET stream == Head(queue)
      bytes  == Prefix(stream, SnapLength)
      rest   == SubSeq(stream, Len(bytes) + 1, Len(stream))
  IN  /\ Reading({"TYPE_SOCKET_UNIX"}) /\ queue # << >>
      /\ hdr_len' = Len(bytes)
      /\ Handle(bytes, hdr_len')
      /\ queue' = IF rest = << >> THEN << >> ELSE <<rest>>

RecvEndOfStream ==
  /\ Reading({"TYPE_SOCKET_UNIX"}) /\ queue = << >> /\ closed
  /\ Return(-1)
  /\ UNCHANGED failed

\* pcap_dispatch passes frames on.  snapLength does not apply to files.
PcapFrame ==
  /\ Reading(Pcaps) /\ queue # << >>
  /\ hdr_len' = Len(Head(queue))
  /\ Handle(IF type = "TYPE_PCAP" THEN Prefix(Head(queue), SnapLength) ELSE Head(queue), hdr_len')
  /\ queue' = Tail(queue)

-----------------------------------------------------------------------------
(* The network                                                             *)

\* Datagrams and frames wait one by one; a stream keeps no borders.
Enqueue(bytes) ==
  IF type = "TYPE_SOCKET_UNIX" /\ queue # << >> THEN <<Head(queue) \o bytes>>
  ELSE Append(queue, bytes)

\* A message arrives; a file is complete before it is opened.  Streams and links
\* have no empty messages.
Send(m) ==
  /\ phase \notin {"exit", "crash"} /\ type \in Sockets \cup Pcaps
  /\ type = "TYPE_PCAP_FILE" <=> phase = "start"
  /\ Len(sent) < MaxSent /\ ~closed
  /\ m = 0 => type = "TYPE_SOCKET_INET"
  /\ sent' = Append(sent, m)
  /\ queue' = Enqueue(Bytes(Len(sent'), m))
  /\ UNCHANGED <<devVars, phase, watcher, hdr_len, nPackets, closed, handled, failed>>

PeerCloses ==
  /\ type = "TYPE_SOCKET_UNIX" /\ phase \notin {"start", "exit"} /\ ~closed
  /\ closed' = TRUE
  /\ UNCHANGED <<devVars, phase, watcher, hdr_len, nPackets, queue, handled, sent, failed>>

Init ==
  /\ type \in Types
  /\ link \in IF type \in Pcaps THEN Links ELSE {"other"}
  /\ phase = "start" /\ watcher = "none"
  /\ hdr_len = 0 /\ nPackets = 0
  /\ queue = << >> /\ closed = FALSE /\ handled = << >>
  /\ sent = << >> /\ failed = FALSE

Dispatch ==
  \/ Callback \/ BatchDone \/ NothingToRead
  \/ Peek \/ PeekEmpty \/ RecvInet \/ RecvUnix \/ RecvEndOfStream \/ PcapFrame

Next ==
  \/ \E ok \in BOOLEAN : open_device(ok)
  \/ Dispatch
  \/ Fail
  \/ \E m \in Messages : Send(m)
  \/ PeerCloses

Spec == Init /\ [][Next]_vars

\* Callbacks run and return; nothing is assumed of the network or of failures.
FairSpec == Spec /\ WF_vars(Dispatch)

-----------------------------------------------------------------------------
(* Properties                                                              *)

\* Types of the capture state; a callback never exceeds its batch.
TypeOK ==
  /\ type \in Types /\ link \in LinkTypes
  /\ phase \in {"start", "loop", "reading", "peeked", "exit", "crash"}
  /\ watcher \in {"none", "io", "timer"}
  /\ hdr_len \in Nat /\ nPackets \in 0..PCAP_DISPATCH_PACKET_COUNT
  /\ queue \in Seq(Seq(Nat \X Nat))
  /\ closed \in BOOLEAN /\ failed \in BOOLEAN
  /\ handled \in Seq([bytes : Seq(Nat \X Nat), len : Nat, pkt : [ptr : Nat, len : Nat]])
  /\ sent \in Seq(Messages)

\* The byte behind byte b, and the first one behind bytes s, in the stream of the
\* messages ms.
After(ms, b) == IF b[2] < ms[b[1]] THEN <<b[1], b[2] + 1>> ELSE <<b[1] + 1, 1>>
Behind(ms, s) == After(ms, s[Len(s)])

\* s is a piece of that stream that starts with byte b.
StreamFrom(ms, b, s) ==
  /\ s # << >> /\ s[1] = b
  /\ \A k \in 1..(Len(s) - 1) : s[k + 1] = After(ms, s[k])

\* The first byte the stream has not delivered with the first i packets.
NextByte(i) == IF i = 0 THEN <<1, 1>> ELSE Behind(sent, handled[i].bytes)

\* A stream loses and repeats no byte, whatever pieces of it are read: the packets
\* follow each other without a gap, then comes what waits, up to the last message.
StreamInOrder ==
  /\ \A i \in DOMAIN handled :
       /\ StreamFrom(sent, NextByte(i - 1), handled[i].bytes)
       /\ handled[i].len = Len(handled[i].bytes)
  /\ IF queue = << >> THEN NextByte(Len(handled)) = <<Len(sent) + 1, 1>>
     ELSE /\ StreamFrom(sent, NextByte(Len(handled)), Head(queue))
          /\ Behind(sent, Head(queue)) = <<Len(sent) + 1, 1>>

\* Every message is handled once, in order and with its true length, cut to
\* snapLength only.  Messages that arrive between the peek and the read of
\* socket_dispatch_inet do not mix two of them up.
MessagesInOrder ==
  \A n \in DOMAIN handled :
    /\ n \in DOMAIN sent
    /\ handled[n].len = sent[n]
    /\ handled[n].bytes = IF type = "TYPE_PCAP_FILE" THEN Bytes(n, sent[n])
                          ELSE Prefix(Bytes(n, sent[n]), SnapLength)

\* What handle_packet gets is what was sent, in order and complete, for streams and
\* for messages.
CapturedInOrder ==
  IF type = "TYPE_SOCKET_UNIX" THEN StreamInOrder ELSE MessagesInOrder

\* "the offset is applied after the link layer" (doc/impd4e.1): a packet of which
\* more was captured starts behind link header and -O together and has the rest of
\* the bytes; of any other, length 0 is left, in whichever of the two steps it got
\* too short.  Its ptr then still points at the bytes to be skipped, and the
\* presets and findHeaders read there without a look at the length (hash.c).
OffsetAfterLink ==
  \A n \in DOMAIN handled :
    LET skip == pkt_offset + Offset
        rest == Len(handled[n].bytes) - skip
        pkt  == handled[n].pkt
    IN  IF rest > 0 THEN pkt.ptr = skip /\ pkt.len = rest
        ELSE pkt.len = 0 /\ pkt.ptr \in {0, pkt_offset}

\* A device stops capturing only after a failure, the end of a stream or an empty
\* datagram, and then nothing before that datagram is left unread.
StopsExplained ==
  phase = "loop" /\ watcher = "none" /\ type \in Sockets \cup Pcaps =>
    failed \/ closed \/ (queue # << >> /\ Head(queue) = << >>)

\* Opening, the three dispatch functions and packet_watcher_cb together keep what
\* the metering loop relies on: packets only inside a callback, at most one batch
\* of them, and none from a device that was deregistered.
Disp == INSTANCE Dispatch WITH
          device <- IF phase = "start" THEN "closed"
                    ELSE IF watcher = "none" THEN "dead" ELSE "open",
          left <- IF phase \in {"reading", "peeked"}
                  THEN PCAP_DISPATCH_PACKET_COUNT - nPackets ELSE -1,
          count <- Len(handled)
DispatchSpec == Disp!Spec

\* What has arrived is read while the device is watched, although a callback takes
\* at most one batch and new messages keep coming.
ArrivedIsHandled ==
  \A n \in 1..MaxSent :
    Len(sent) >= n /\ watcher # "none"
      ~> watcher = "none" \/ queue = << >> \/ Len(handled) >= n
=============================================================================
