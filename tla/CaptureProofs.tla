---------------------------- MODULE CaptureProofs ----------------------------
(***************************************************************************)
(* Proofs about Capture: what a dispatch function passes on is what was    *)
(* sent, in order and complete; the bytes left behind link header and      *)
(* offset; why a device stops; and that every device type implements       *)
(* Dispatch.                                                               *)
(***************************************************************************)
EXTENDS Capture, SequenceTheorems, TLAPS

Byte == Nat \X Nat
Call == [bytes : Seq(Byte), len : Nat, pkt : [ptr : Nat, len : Nat]]

-----------------------------------------------------------------------------
(* Sequences                                                               *)

\* Prefix keeps the first bytes of a sequence, n of them or all.
LEMMA PrefixIs ==
  ASSUME NEW S, NEW s \in Seq(S), NEW n \in Nat
  PROVE  /\ Prefix(s, n) \in Seq(S)
         /\ Len(Prefix(s, n)) = (IF n < Len(s) THEN n ELSE Len(s))
         /\ \A k \in 1..Len(Prefix(s, n)) : Prefix(s, n)[k] = s[k]
BY SMT DEF Prefix

\* What Prefix leaves out.
LEMMA RestIs ==
  ASSUME NEW S, NEW s \in Seq(S), NEW n \in 0..Len(s)
  PROVE  LET r == SubSeq(s, n + 1, Len(s))
         IN  /\ r \in Seq(S)
             /\ Len(r) = Len(s) - n
             /\ \A k \in 1..Len(r) : r[k] = s[n + k]
BY SMT

\* The bytes of a message.
LEMMA BytesOf ==
  ASSUME NEW n \in Nat, NEW m \in Messages
  PROVE  /\ Bytes(n, m) \in Seq(Byte)
         /\ Len(Bytes(n, m)) = m
         /\ \A k \in 1..m : Bytes(n, m)[k] = <<n, k>>
<1>1. m \in Nat
  BY CaptureAssumption
<1>. QED
  BY <1>1, SMT DEF Bytes, Byte

\* Two offsets one after the other are their sum while there are bytes behind them.
LEMMA OffsetsAdd ==
  ASSUME NEW n \in Nat, NEW a \in Nat, NEW b \in Nat
  PROVE  LET r == apply_offset(apply_offset([ptr |-> 0, len |-> n], a), b)
         IN  /\ r \in [ptr : Nat, len : Nat]
             /\ IF n - (a + b) > 0 THEN r.ptr = a + b /\ r.len = n - (a + b)
                ELSE r.len = 0 /\ r.ptr \in {0, a}
<1>1. PICK t, r : /\ t = apply_offset([ptr |-> 0, len |-> n], a)
                  /\ r = apply_offset(t, b)
  OBVIOUS
<1>2. t = IF a < n THEN [ptr |-> a, len |-> n - a] ELSE [ptr |-> 0, len |-> 0]
  BY <1>1 DEF apply_offset
<1>3. r = IF b < t.len THEN [ptr |-> t.ptr + b, len |-> t.len - b]
          ELSE [ptr |-> t.ptr, len |-> 0]
  BY <1>1, <1>2 DEF apply_offset
<1>4. /\ r \in [ptr : Nat, len : Nat]
      /\ IF n - (a + b) > 0 THEN r.ptr = a + b /\ r.len = n - (a + b)
         ELSE r.len = 0 /\ r.ptr \in {0, a}
  BY <1>2, <1>3
<1>. QED
  BY <1>1, <1>4

-----------------------------------------------------------------------------
(* The inductive invariant                                                 *)

\* A dispatch function runs only for a device that is watched.
WatchedInside == phase \in {"reading", "peeked"} => watcher # "none"

\* Between peek and read the first message of the queue stays the one peeked at.
PeekHolds ==
  phase = "peeked" =>
    /\ type = "TYPE_SOCKET_INET"
    /\ queue # << >> /\ hdr_len = Len(Head(queue))
    /\ nPackets < PCAP_DISPATCH_PACKET_COUNT

\* Messages that wait are those sent and not yet handled, whole and in order.
MessagesWait ==
  type # "TYPE_SOCKET_UNIX" =>
    /\ Len(handled) + Len(queue) = Len(sent)
    /\ \A j \in 1..Len(queue) :
         queue[j] = Bytes(Len(handled) + j, sent[Len(handled) + j])

\* A stream waits as one piece; its bytes are bytes of messages that were sent.
StreamWaits ==
  type = "TYPE_SOCKET_UNIX" =>
    /\ Len(queue) <= 1
    /\ \A j \in 1..Len(queue) : \A k \in 1..Len(queue[j]) :
         queue[j][k][1] \in 1..Len(sent)
    /\ \A i \in 1..Len(handled) : \A k \in 1..Len(handled[i].bytes) :
         handled[i].bytes[k][1] \in 1..Len(sent)

Inv ==
  /\ TypeOK /\ WatchedInside /\ PeekHolds
  /\ MessagesWait /\ StreamWaits /\ CapturedInOrder
  /\ OffsetAfterLink /\ StopsExplained

-----------------------------------------------------------------------------
(* Types                                                                   *)

\* An offset is never negative.
LEMMA OffsetTypes == TypeOK => pkt_offset \in Nat
BY CaptureAssumption DEF TypeOK, pkt_offset

\* What handle_packet leaves of the bytes.
Window(bytes) ==
  apply_offset(apply_offset([ptr |-> 0, len |-> Len(bytes)], pkt_offset), Offset)

\* handle_packet is called once more, with these bytes and this length.
LEMMA HandleEffect ==
  ASSUME TypeOK, NEW bytes \in Seq(Byte), NEW len \in Nat, Handle(bytes, len)
  PROVE  \E r \in Call :
           /\ handled' = Append(handled, r)
           /\ r.bytes = bytes /\ r.len = len
           /\ r.pkt = Window(bytes)
<1>. DEFINE p == Window(bytes)
            r == [bytes |-> bytes, len |-> len, pkt |-> p]
<1>1. p \in [ptr : Nat, len : Nat]
  BY OffsetTypes, CaptureAssumption, OffsetsAdd, LenProperties DEF Window
<1>2. handled' = Append(handled, r)
  BY DEF Handle, handle_packet, Window
<1>. HIDE DEF p
<1>3. r \in Call
  BY <1>1, Zenon DEF Call
<1>4. r.bytes = bytes /\ r.len = len /\ r.pkt = p
  OBVIOUS
<1>. QED
  BY <1>2, <1>3, <1>4 DEF p

\* Reading and handling keeps the types.
LEMMA HandleTypes ==
  ASSUME TypeOK, NEW bytes \in Seq(Byte), NEW len \in Nat, Handle(bytes, len),
         nPackets < PCAP_DISPATCH_PACKET_COUNT,
         queue' \in Seq(Seq(Byte)), hdr_len' \in Nat
  PROVE  TypeOK'
<1>1. handled' \in Seq(Call)
  <2>1. PICK r \in Call : handled' = Append(handled, r)
    BY HandleEffect
  <2>2. handled \in Seq(Call)
    BY DEF TypeOK, Call, Byte
  <2>. QED
    BY <2>1, <2>2
<1>2. nPackets' \in 0..PCAP_DISPATCH_PACKET_COUNT
  BY CaptureAssumption DEF TypeOK, Handle
<1>. QED
  BY <1>1, <1>2 DEF TypeOK, Handle, Call, Byte, devVars

\* The first message of the queue and the rest.
LEMMA QueueHead ==
  ASSUME TypeOK, queue # << >>
  PROVE  /\ Head(queue) \in Seq(Byte) /\ Head(queue) = queue[1]
         /\ Tail(queue) \in Seq(Seq(Byte))
         /\ Len(queue) \in Nat \ {0} /\ Len(Tail(queue)) = Len(queue) - 1
         /\ \A j \in 1..Len(Tail(queue)) : Tail(queue)[j] = queue[j + 1]
BY SMT DEF TypeOK, Byte

\* Every step keeps the types.
LEMMA TypeStep ==
  ASSUME TypeOK, PeekHolds, Next
  PROVE  TypeOK'
<1>. USE CaptureAssumption
<1>1. ASSUME NEW ok \in BOOLEAN, open_device(ok) PROVE TypeOK'
  BY <1>1 DEF TypeOK, open_device, devVars, netVars
<1>2. CASE Callback
  BY <1>2 DEF TypeOK, Callback, devVars, netVars
<1>3. ASSUME NEW n, Return(n), failed' \in BOOLEAN PROVE TypeOK'
  BY <1>3 DEF TypeOK, Return, devVars, netVars
<1>4. CASE Peek
  <2>1. Len(Head(queue)) \in Nat
    BY <1>4, QueueHead, LenProperties DEF Peek
  <2>. QED
    BY <1>4, <2>1 DEF TypeOK, Peek, devVars, netVars
<1>5. CASE RecvInet
  <2>1. queue # << >> /\ nPackets < PCAP_DISPATCH_PACKET_COUNT
    BY <1>5 DEF RecvInet, PeekHolds
  <2>2. Prefix(Head(queue), SnapLength) \in Seq(Byte)
    BY <2>1, QueueHead, PrefixIs
  <2>3. queue' \in Seq(Seq(Byte)) /\ hdr_len' \in Nat /\ hdr_len \in Nat
    BY <1>5, <2>1, QueueHead DEF RecvInet, TypeOK
  <2>. QED
    BY <1>5, <2>1, <2>2, <2>3, HandleTypes DEF RecvInet
<1>6. CASE RecvUnix
  <2>. DEFINE stream == Head(queue)
              bytes  == Prefix(stream, SnapLength)
              rest   == SubSeq(stream, Len(bytes) + 1, Len(stream))
  <2>1. queue # << >> /\ nPackets < PCAP_DISPATCH_PACKET_COUNT
    BY <1>6 DEF RecvUnix, Reading
  <2>2. stream \in Seq(Byte)
    BY <2>1, QueueHead
  <2>3. bytes \in Seq(Byte) /\ Len(bytes) \in 0..Len(stream)
    BY <2>2, PrefixIs, LenProperties
  <2>4. rest \in Seq(Byte)
    BY <2>2, <2>3, RestIs
  <2>5. Handle(bytes, Len(bytes)) /\ hdr_len' = Len(bytes)
    BY <1>6 DEF RecvUnix
  <2>6. queue' \in Seq(Seq(Byte))
    <3>1. queue' = IF rest = << >> THEN << >> ELSE <<rest>>
      BY <1>6 DEF RecvUnix
    <3>. HIDE DEF rest
    <3>. QED
      BY <3>1, <2>4
  <2>. HIDE DEF bytes
  <2>7. Len(bytes) \in Nat
    BY <2>3, LenProperties
  <2>. QED
    BY <2>1, <2>3, <2>5, <2>6, <2>7, HandleTypes
<1>7. CASE PcapFrame
  <2>. DEFINE bytes == IF type = "TYPE_PCAP" THEN Prefix(Head(queue), SnapLength)
                       ELSE Head(queue)
  <2>1. queue # << >> /\ nPackets < PCAP_DISPATCH_PACKET_COUNT
    BY <1>7 DEF PcapFrame, Reading
  <2>2. bytes \in Seq(Byte) /\ Len(Head(queue)) \in Nat
    BY <2>1, QueueHead, PrefixIs, LenProperties
  <2>3. Handle(bytes, Len(Head(queue))) /\ hdr_len' = Len(Head(queue)) /\ queue' = Tail(queue)
    BY <1>7 DEF PcapFrame
  <2>4. queue' \in Seq(Seq(Byte))
    BY <2>1, <2>3, QueueHead
  <2>. HIDE DEF bytes
  <2>. QED
    BY <2>1, <2>2, <2>3, <2>4, HandleTypes
<1>8. ASSUME NEW m \in Messages, Send(m) PROVE TypeOK'
  <2>1. sent' \in Seq(Messages) /\ Len(sent') \in Nat
    BY <1>8, LenProperties DEF Send, TypeOK
  <2>2. Bytes(Len(sent'), m) \in Seq(Byte)
    BY <2>1, BytesOf
  <2>. DEFINE b == Bytes(Len(sent'), m)
  <2>3. queue' = Enqueue(b)
    BY <1>8 DEF Send
  <2>. HIDE DEF b
  <2>4. CASE queue # << >> /\ type = "TYPE_SOCKET_UNIX"
    <3>1. Head(queue) \o b \in Seq(Byte)
      BY <2>2, <2>4, QueueHead, ConcatProperties DEF b
    <3>2. queue' = <<Head(queue) \o b>>
      BY <2>3, <2>4 DEF Enqueue
    <3>3. queue' \in Seq(Seq(Byte))
      BY <3>1, <3>2
    <3>. QED
      BY <1>8, <2>1, <3>3 DEF TypeOK, Send, devVars, Byte
  <2>5. CASE ~(queue # << >> /\ type = "TYPE_SOCKET_UNIX")
    <3>1. queue' = Append(queue, b)
      BY <2>3, <2>5 DEF Enqueue
    <3>2. queue' \in Seq(Seq(Byte))
      BY <3>1, <2>2 DEF TypeOK, Byte, b
    <3>. QED
      BY <1>8, <2>1, <3>2 DEF TypeOK, Send, devVars, Byte
  <2>. QED
    BY <2>4, <2>5
<1>9. CASE PeerCloses
  BY <1>9 DEF TypeOK, PeerCloses, devVars
<1>10. CASE Fail
  BY <1>10, <1>3 DEF Fail
<1>11. CASE BatchDone \/ NothingToRead \/ PeekEmpty \/ RecvEndOfStream
  BY <1>11, <1>3 DEF BatchDone, NothingToRead, PeekEmpty, RecvEndOfStream, TypeOK
<1>. QED
  BY <1>1, <1>2, <1>4, <1>5, <1>6, <1>7, <1>8, <1>9, <1>10, <1>11 DEF Next, Dispatch

-----------------------------------------------------------------------------
(* Control                                                                 *)

\* Nothing but a deregistration ends the watching, and dispatch is entered only
\* while the device is watched.
LEMMA WatchStep ==
  ASSUME TypeOK, WatchedInside, Next
  PROVE  WatchedInside'
<1>1. ASSUME NEW n, Return(n) PROVE WatchedInside'
  BY <1>1 DEF WatchedInside, Return
<1>2. ASSUME NEW b, NEW n, Handle(b, n), phase \in {"reading", "peeked"} PROVE WatchedInside'
  BY <1>2 DEF WatchedInside, Handle
<1>3. CASE \E ok \in BOOLEAN : open_device(ok)
  BY <1>3 DEF WatchedInside, open_device
<1>4. CASE Fail \/ BatchDone \/ NothingToRead \/ PeekEmpty \/ RecvEndOfStream
  BY <1>4, <1>1 DEF Fail, BatchDone, NothingToRead, PeekEmpty, RecvEndOfStream
<1>5. CASE RecvInet \/ RecvUnix \/ PcapFrame
  BY <1>5, <1>2 DEF RecvInet, RecvUnix, PcapFrame, Reading
<1>6. CASE Callback \/ Peek
  BY <1>6 DEF WatchedInside, Callback, Peek, Reading
<1>7. CASE PeerCloses \/ \E m \in Messages : Send(m)
  BY <1>7 DEF WatchedInside, PeerCloses, Send
<1>. QED
  BY <1>3, <1>4, <1>5, <1>6, <1>7 DEF Next, Dispatch

\* A new message comes behind those that wait.
LEMMA SendEffect ==
  ASSUME TypeOK, NEW m \in Messages, Send(m)
  PROVE  /\ sent' = Append(sent, m) /\ Len(sent') = Len(sent) + 1
         /\ sent' \in Seq(Messages)
         /\ \A n \in 1..Len(sent) : sent'[n] = sent[n]
         /\ sent'[Len(sent')] = m
         /\ Len(sent) \in Nat /\ Len(sent') \in Nat
<1>1. sent \in Seq(Messages) /\ sent' = Append(sent, m)
  BY DEF TypeOK, Send
<1>2. PICK S : S = Messages
  OBVIOUS
<1>3. sent \in Seq(S) /\ m \in S
  BY <1>1, <1>2
<1>4. /\ sent' \in Seq(S) /\ Len(sent') = Len(sent) + 1
      /\ \A n \in 1..Len(sent) : sent'[n] = sent[n]
      /\ sent'[Len(sent) + 1] = m
      /\ Len(sent) \in Nat
  BY <1>1, <1>3
<1>. QED
  BY <1>1, <1>2, <1>4

\* A message that does not join a waiting stream goes to the end of the queue.
LEMMA EnqueueEffect ==
  ASSUME TypeOK, NEW m \in Messages, Send(m),
         ~(type = "TYPE_SOCKET_UNIX" /\ queue # << >>)
  PROVE  /\ queue' = Append(queue, Bytes(Len(sent'), m))
         /\ Len(queue') = Len(queue) + 1 /\ Len(queue) \in Nat
         /\ \A j \in 1..Len(queue) : queue'[j] = queue[j]
         /\ queue'[Len(queue')] = Bytes(Len(sent'), m)
<1>1. queue' = Append(queue, Bytes(Len(sent'), m))
  BY DEF Send, Enqueue
<1>2. Bytes(Len(sent'), m) \in Seq(Byte)
  BY SendEffect, BytesOf
<1>. QED
  BY <1>1, <1>2, SMT DEF TypeOK, Byte

\* What arrives between peek and read goes behind the message peeked at.
LEMMA PeekStep ==
  ASSUME TypeOK, PeekHolds, Next
  PROVE  PeekHolds'
<1>1. CASE phase' # "peeked"
  BY <1>1 DEF PeekHolds
<1>2. CASE Peek
  BY <1>2 DEF PeekHolds, Peek, Reading, devVars, netVars
<1>3. CASE PeerCloses
  BY <1>3 DEF PeekHolds, PeerCloses, devVars
<1>4. ASSUME NEW m \in Messages, Send(m), phase' = "peeked" PROVE PeekHolds'
  <2>1. phase = "peeked" /\ type' = type /\ hdr_len' = hdr_len /\ nPackets' = nPackets
    BY <1>4 DEF Send, devVars
  <2>2. /\ type = "TYPE_SOCKET_INET" /\ nPackets < PCAP_DISPATCH_PACKET_COUNT
        /\ queue # << >> /\ hdr_len = Len(Head(queue))
    BY <2>1 DEF PeekHolds
  <2>3. queue' = Append(queue, Bytes(Len(sent'), m)) /\ queue \in Seq(Seq(Byte))
    BY <2>2, <1>4, EnqueueEffect DEF TypeOK, Byte
  <2>4. Bytes(Len(sent'), m) \in Seq(Byte)
    BY <1>4, SendEffect, BytesOf
  <2>5. queue' # << >> /\ Head(queue') = Head(queue)
    BY <2>2, <2>3, <2>4
  <2>. QED
    BY <2>1, <2>2, <2>5 DEF PeekHolds
<1>5. CASE RecvInet \/ RecvUnix \/ PcapFrame
  BY <1>5 DEF PeekHolds, RecvInet, RecvUnix, PcapFrame, Handle
<1>6. CASE Fail \/ BatchDone \/ NothingToRead \/ PeekEmpty \/ RecvEndOfStream
  BY <1>6 DEF PeekHolds, Return, Fail, BatchDone, NothingToRead, PeekEmpty, RecvEndOfStream
<1>7. CASE Callback \/ \E ok \in BOOLEAN : open_device(ok)
  BY <1>7 DEF PeekHolds, Callback, open_device
<1>. QED
  BY <1>1, <1>2, <1>3, <1>4, <1>5, <1>6, <1>7 DEF Next, Dispatch

\* A watcher is taken away only by a failure, the end of a stream or an empty
\* datagram, and whatever arrives later does not change that.
LEMMA StopStep ==
  ASSUME TypeOK, WatchedInside, StopsExplained, CapturedInOrder, Next
  PROVE  StopsExplained'
<1>1. CASE \E ok \in BOOLEAN : open_device(ok)
  BY <1>1 DEF StopsExplained, open_device, devVars, netVars
<1>2. CASE Callback \/ Peek
  BY <1>2 DEF StopsExplained, Callback, Peek, devVars, netVars
<1>3. CASE Fail
  BY <1>3 DEF StopsExplained, Fail
<1>4. CASE BatchDone \/ NothingToRead
  <2>1. nPackets \in Nat /\ watcher # "none"
    BY <1>4 DEF TypeOK, WatchedInside, BatchDone, NothingToRead, Reading
  <2>2. watcher' = watcher
    BY <1>4, <2>1 DEF BatchDone, NothingToRead, Return, Deregisters
  <2>. QED
    BY <2>1, <2>2 DEF StopsExplained
<1>5. CASE PeekEmpty
  <2>1. queue # << >> /\ Len(Head(queue)) = 0 /\ queue' = queue
    BY <1>5 DEF PeekEmpty, Return, netVars
  <2>2. Head(queue) = << >>
    BY <2>1, QueueHead, EmptySeq
  <2>. QED
    BY <2>1, <2>2 DEF StopsExplained
<1>6. CASE RecvEndOfStream
  BY <1>6 DEF StopsExplained, RecvEndOfStream, Return, netVars
<1>7. CASE RecvInet \/ RecvUnix \/ PcapFrame
  BY <1>7 DEF StopsExplained, RecvInet, RecvUnix, PcapFrame, Handle
<1>8. CASE PeerCloses
  BY <1>8 DEF StopsExplained, PeerCloses
<1>9. ASSUME NEW m \in Messages, Send(m) PROVE StopsExplained'
  <2>1. phase' = phase /\ watcher' = watcher /\ type' = type /\ failed' = failed
        /\ closed' = closed /\ ~closed
    BY <1>9 DEF Send, devVars
  <2>2. SUFFICES ASSUME phase = "loop", watcher = "none", type \in Sockets \cup Pcaps, ~failed
                 PROVE  queue' # << >> /\ Head(queue') = << >>
    BY <2>1 DEF StopsExplained
  <2>3. queue # << >> /\ Head(queue) = << >> /\ queue \in Seq(Seq(Byte))
    BY <2>1, <2>2 DEF StopsExplained, TypeOK, Byte
  <2>4. Bytes(Len(sent'), m) \in Seq(Byte)
    BY <1>9, SendEffect, BytesOf
  <2>5. CASE type = "TYPE_SOCKET_UNIX"
    BY <2>3, <2>5 DEF CapturedInOrder, StreamInOrder, StreamFrom
  <2>6. CASE type # "TYPE_SOCKET_UNIX"
    BY <1>9, <2>3, <2>4, <2>6, EnqueueEffect
  <2>. QED
    BY <2>5, <2>6
<1>. QED
  BY <1>1, <1>2, <1>3, <1>4, <1>5, <1>6, <1>7, <1>8, <1>9 DEF Next, Dispatch

-----------------------------------------------------------------------------
(* Order and completeness                                                  *)

\* Only sending and reading touch the data, and the device stays what it is.
LEMMA DataSteps ==
  ASSUME Next
  PROVE  /\ type' = type /\ link' = link
         /\ \/ UNCHANGED <<queue, handled, sent>>
            \/ \E m \in Messages : Send(m)
            \/ RecvInet \/ RecvUnix \/ PcapFrame
<1>1. CASE \E ok \in BOOLEAN : open_device(ok)
  BY <1>1 DEF open_device, devVars, netVars
<1>2. CASE Callback \/ Peek \/ PeerCloses
  BY <1>2 DEF Callback, Peek, PeerCloses, devVars, netVars
<1>3. CASE Fail \/ BatchDone \/ NothingToRead \/ PeekEmpty \/ RecvEndOfStream
  BY <1>3 DEF Fail, BatchDone, NothingToRead, PeekEmpty, RecvEndOfStream, Return, devVars, netVars
<1>4. CASE RecvInet \/ RecvUnix \/ PcapFrame
  BY <1>4 DEF RecvInet, RecvUnix, PcapFrame, Handle, devVars
<1>5. CASE \E m \in Messages : Send(m)
  BY <1>5 DEF Send, devVars
<1>. QED
  BY <1>1, <1>2, <1>3, <1>4, <1>5 DEF Next, Dispatch

\* The step of RecvInet and PcapFrame: the first message of the queue is passed on,
\* whole or cut to snapLength, with its true length.
TakesMessage ==
  /\ queue # << >> /\ queue' = Tail(queue)
  /\ type # "TYPE_SOCKET_UNIX" /\ sent' = sent
  /\ Handle(IF type = "TYPE_PCAP_FILE" THEN Head(queue) ELSE Prefix(Head(queue), SnapLength),
            Len(Head(queue)))

\* Reading a datagram or a frame takes the first message of the queue.
LEMMA MessageTaken ==
  ASSUME TypeOK, PeekHolds, RecvInet \/ PcapFrame
  PROVE  TakesMessage
<1>1. CASE RecvInet
  BY <1>1 DEF RecvInet, PeekHolds, TakesMessage, Handle
<1>2. CASE PcapFrame
  <2>1. /\ type \in Pcaps /\ queue # << >> /\ queue' = Tail(queue) /\ sent' = sent
        /\ hdr_len' = Len(Head(queue))
        /\ Handle(IF type = "TYPE_PCAP" THEN Prefix(Head(queue), SnapLength) ELSE Head(queue),
                  hdr_len')
    BY <1>2 DEF PcapFrame, Reading, Handle
  <2>2. (type = "TYPE_PCAP") <=> ~(type = "TYPE_PCAP_FILE")
    BY <2>1 DEF Pcaps
  <2>3. CASE type = "TYPE_PCAP"
    BY <2>1, <2>3 DEF TakesMessage
  <2>4. CASE type = "TYPE_PCAP_FILE"
    BY <2>1, <2>4 DEF TakesMessage
  <2>. QED
    BY <2>2, <2>3, <2>4
<1>. QED
  BY <1>1, <1>2

\* Messages keep their order and their lengths.
LEMMA MessageStep ==
  ASSUME Inv, Next, type # "TYPE_SOCKET_UNIX"
  PROVE  MessagesWait' /\ MessagesInOrder'
<1>. USE CaptureAssumption
<1>1. type' = type
  BY DataSteps
<1>2. TypeOK /\ PeekHolds /\ MessagesInOrder
  BY DEF Inv, CapturedInOrder
<1>3. /\ Len(handled) + Len(queue) = Len(sent)
      /\ \A j \in 1..Len(queue) :
           queue[j] = Bytes(Len(handled) + j, sent[Len(handled) + j])
  BY DEF Inv, MessagesWait
<1>4. /\ handled \in Seq(Call) /\ Len(handled) \in Nat /\ DOMAIN handled = 1..Len(handled)
      /\ sent \in Seq(Messages) /\ Len(sent) \in Nat /\ DOMAIN sent = 1..Len(sent)
      /\ Len(queue) \in Nat
  BY <1>2, LenProperties DEF TypeOK, Call, Byte
<1>5. CASE UNCHANGED <<queue, handled, sent>>
  <2>1. MessagesWait'
    BY <1>1, <1>3, <1>5 DEF MessagesWait
  <2>2. MessagesInOrder'
    BY <1>1, <1>2, <1>5, Zenon DEF MessagesInOrder
  <2>. QED
    BY <2>1, <2>2
<1>6. ASSUME NEW m \in Messages, Send(m) PROVE MessagesWait' /\ MessagesInOrder'
  <2>1. /\ Len(sent') = Len(sent) + 1 /\ sent'[Len(sent')] = m
        /\ \A n \in 1..Len(sent) : sent'[n] = sent[n]
        /\ DOMAIN sent' = 1..Len(sent')
    BY <1>2, <1>6, SendEffect, LenProperties
  <2>2. /\ Len(queue') = Len(queue) + 1
        /\ \A j \in 1..Len(queue) : queue'[j] = queue[j]
        /\ queue'[Len(queue')] = Bytes(Len(sent'), m)
    BY <1>2, <1>6, EnqueueEffect
  <2>3. handled' = handled
    BY <1>6 DEF Send
  <2>4. ASSUME NEW j \in 1..Len(queue')
        PROVE  queue'[j] = Bytes(Len(handled) + j, sent'[Len(handled) + j])
    <3>1. CASE j = Len(queue')
      <4>1. PICK h \in Nat, q \in Nat : h = Len(handled) /\ q = Len(queue)
        BY <1>4
      <4>2. h + q = Len(sent) /\ j = q + 1 /\ Len(sent') = Len(sent) + 1
        BY <1>3, <2>1, <2>2, <3>1, <4>1, Zenon
      <4>3. h + j = Len(sent')
        BY <4>2
      <4>4. Len(handled) + j = Len(sent')
        BY <4>1, <4>3, Zenon
      <4>. QED
        BY <2>1, <2>2, <3>1, <4>4
    <3>2. CASE j \in 1..Len(queue)
      <4>1. Len(handled) + j \in 1..Len(sent)
        <5>1. PICK h \in Nat, q \in Nat, n \in Nat : h = Len(handled) /\ q = Len(queue) /\ n = Len(sent)
          BY <1>4
        <5>2. h + q = n /\ j \in 1..q
          BY <1>3, <3>2, <5>1, Zenon
        <5>3. h + j \in 1..n
          BY <5>2
        <5>. QED
          BY <5>1, <5>3, Zenon
      <4>2. sent'[Len(handled) + j] = sent[Len(handled) + j]
        BY <2>1, <4>1
      <4>. QED
        BY <1>3, <2>2, <3>2, <4>2
    <3>3. Len(queue') = Len(queue) + 1
      BY <2>2
    <3>4. j = Len(queue') \/ j \in 1..Len(queue)
      BY <1>4, <3>3
    <3>. QED
      BY <3>1, <3>2, <3>4
  <2>5. Len(handled) + Len(queue') = Len(sent')
    <3>1. Len(queue') = Len(queue) + 1 /\ Len(sent') = Len(sent) + 1
      BY <2>1, <2>2
    <3>2. Len(handled) + Len(queue) = Len(sent)
      BY <1>3
    <3>3. Len(handled) + (Len(queue) + 1) = (Len(handled) + Len(queue)) + 1
      BY <1>4
    <3>. QED
      BY <3>1, <3>2, <3>3, Zenon
  <2>6. MessagesWait'
    BY <2>3, <2>4, <2>5 DEF MessagesWait, Bytes
  <2>7. ASSUME NEW n \in DOMAIN handled
        PROVE  n \in DOMAIN sent' /\ sent'[n] = sent[n]
    <3>1. n \in DOMAIN sent
      BY <1>2 DEF MessagesInOrder
    <3>. QED
      BY <3>1, <1>4, <2>1
  <2>8. MessagesInOrder'
    BY <1>1, <1>2, <2>3, <2>7 DEF MessagesInOrder, Bytes, Prefix
  <2>. QED
    BY <2>6, <2>8
<1>7. CASE RecvInet \/ PcapFrame
  <2>. DEFINE n == Len(handled) + 1
              bytes == IF type = "TYPE_PCAP_FILE" THEN Head(queue)
                       ELSE Prefix(Head(queue), SnapLength)
  <2>1. TakesMessage
    BY <1>2, <1>7, MessageTaken
  <2>2. /\ Head(queue) \in Seq(Byte) /\ Head(queue) = queue[1]
        /\ queue' = Tail(queue) /\ Len(queue) >= 1 /\ Len(queue') = Len(queue) - 1
        /\ \A j \in 1..Len(queue') : queue'[j] = queue[j + 1]
        /\ sent' = sent
    BY <1>2, <2>1, QueueHead DEF TakesMessage
  <2>3. n \in 1..Len(sent) /\ sent[n] \in Messages /\ Head(queue) = Bytes(n, sent[n])
    <3>1. n \in 1..Len(sent)
      BY <1>3, <1>4, <2>2
    <3>. QED
      BY <1>3, <1>4, <2>2, <3>1
  <2>4. bytes \in Seq(Byte) /\ Len(Head(queue)) \in Nat
    BY <2>2, PrefixIs, LenProperties
  <2>5. Len(Head(queue)) = sent[n]
    <3>1. PICK i, m, q : i = n /\ m = sent[n] /\ q = Head(queue)
      OBVIOUS
    <3>2. i \in Nat /\ m \in Messages /\ q = Bytes(i, m)
      BY <1>4, <2>3, <3>1
    <3>3. Len(q) = m
      BY <3>2, BytesOf, Zenon
    <3>. QED
      BY <3>1, <3>3
  <2>6. PICK r \in Call :
          handled' = Append(handled, r) /\ r.bytes = bytes /\ r.len = Len(Head(queue))
    <3>1. Handle(bytes, Len(Head(queue)))
      BY <2>1 DEF TakesMessage
    <3>. QED
      BY <1>2, <2>4, <3>1, HandleEffect
  <2>7. /\ Len(handled') = n /\ DOMAIN handled' = 1..n /\ handled'[n] = r
        /\ \A i \in 1..Len(handled) : handled'[i] = handled[i]
    BY <1>4, <2>6
  <2>8. MessagesWait'
    <3>1. Len(handled') + Len(queue') = Len(sent)
      <4>1. Len(handled') = Len(handled) + 1 /\ Len(queue') = Len(queue) - 1
        BY <2>2, <2>7
      <4>2. Len(handled) + Len(queue) = Len(sent)
        BY <1>3
      <4>3. (Len(handled) + 1) + (Len(queue) - 1) = Len(handled) + Len(queue)
        BY <1>4
      <4>. QED
        BY <4>1, <4>2, <4>3, Zenon
    <3>2. ASSUME NEW j \in 1..Len(queue')
          PROVE  queue'[j] = Bytes(Len(handled') + j, sent[Len(handled') + j])
      <4>1. j + 1 \in 1..Len(queue) /\ Len(handled) + (j + 1) = Len(handled') + j
        BY <1>4, <2>2, <2>7
      <4>. QED
        BY <1>3, <2>2, <4>1
    <3>. QED
      BY <2>2, <3>1, <3>2 DEF MessagesWait, Bytes
  <2>9. MessagesInOrder'
    <3>. HIDE DEF bytes, n
    <3>1. ASSUME NEW i \in 1..Len(handled)
          PROVE  /\ i \in DOMAIN sent
                 /\ handled'[i].len = sent[i]
                 /\ handled'[i].bytes = IF type = "TYPE_PCAP_FILE" THEN Bytes(i, sent[i])
                                        ELSE Prefix(Bytes(i, sent[i]), SnapLength)
      BY <1>2, <1>4, <2>7 DEF MessagesInOrder
    <3>2. /\ n \in DOMAIN sent
          /\ handled'[n].len = sent[n]
          /\ handled'[n].bytes = IF type = "TYPE_PCAP_FILE" THEN Bytes(n, sent[n])
                                 ELSE Prefix(Bytes(n, sent[n]), SnapLength)
      BY <1>4, <2>3, <2>5, <2>6, <2>7 DEF bytes
    <3>3. DOMAIN handled' = 1..Len(handled) \cup {n}
      BY <1>4, <2>7 DEF n
    <3>. QED
      BY <1>1, <2>2, <3>1, <3>2, <3>3 DEF MessagesInOrder, Bytes, Prefix
  <2>. QED
    BY <2>8, <2>9
<1>8. CASE RecvUnix
  BY <1>8 DEF RecvUnix, Reading
<1>. QED
  BY <1>5, <1>6, <1>7, <1>8, DataSteps

\* A piece of a stream stays one when more messages are sent.
LEMMA StreamGrows ==
  ASSUME NEW ms \in Seq(Messages), NEW m \in Messages, NEW b, NEW s \in Seq(Byte), s # << >>,
         \A k \in 1..Len(s) : s[k][1] \in 1..Len(ms)
  PROVE  /\ StreamFrom(ms, b, s) => StreamFrom(Append(ms, m), b, s)
         /\ Behind(Append(ms, m), s) = Behind(ms, s)
<1>1. ASSUME NEW k \in 1..Len(s)
      PROVE  After(Append(ms, m), s[k]) = After(ms, s[k])
  <2>1. Append(ms, m)[s[k][1]] = ms[s[k][1]]
    BY AppendProperties
  <2>. QED
    BY <2>1 DEF After
<1>2. Len(s) \in 1..Len(s) /\ Len(s) \in Nat
  OBVIOUS
<1>3. \A k \in 1..(Len(s) - 1) : k \in 1..Len(s)
  BY <1>2
<1>. QED
  BY <1>1, <1>2, <1>3 DEF StreamFrom, Behind

\* Both parts of a piece that is cut are pieces, one behind the other.
LEMMA StreamCut ==
  ASSUME NEW ms, NEW b, NEW s \in Seq(Byte), StreamFrom(ms, b, s), NEW max \in Nat \ {0}
  PROVE  LET p == Prefix(s, max)
             r == SubSeq(s, Len(p) + 1, Len(s))
         IN  /\ p \in Seq(Byte) /\ \A k \in 1..Len(p) : k \in 1..Len(s) /\ p[k] = s[k]
             /\ r \in Seq(Byte)
             /\ \A k \in 1..Len(r) : Len(p) + k \in 1..Len(s) /\ r[k] = s[Len(p) + k]
             /\ StreamFrom(ms, b, p)
             /\ r = << >> => Behind(ms, p) = Behind(ms, s)
             /\ r # << >> => StreamFrom(ms, Behind(ms, p), r) /\ Behind(ms, r) = Behind(ms, s)
<1>. PICK p : p = Prefix(s, max)
  OBVIOUS
<1>. PICK n : n = Len(p)
  OBVIOUS
<1>. PICK r : r = SubSeq(s, n + 1, Len(s))
  OBVIOUS
<1>a. Len(s) \in Nat /\ Len(s) >= 1
  BY EmptySeq, LenProperties DEF StreamFrom
<1>b. /\ p \in Seq(Byte) /\ n = (IF max < Len(s) THEN max ELSE Len(s))
      /\ \A k \in 1..n : p[k] = s[k]
  BY PrefixIs
<1>c. n \in Nat /\ n >= 1 /\ n <= Len(s) /\ n \in 0..Len(s)
  BY <1>a, <1>b
<1>d. /\ r \in Seq(Byte) /\ Len(r) = Len(s) - n
      /\ \A k \in 1..Len(r) : r[k] = s[n + k]
  BY <1>c, RestIs
<1>1. Len(s) \in Nat /\ Len(r) \in Nat /\ n \in Nat /\ n >= 1 /\ n <= Len(s)
  BY <1>a, <1>c, <1>d, LenProperties
<1>2. /\ s[1] = b
      /\ \A k \in 1..(Len(s) - 1) : s[k + 1] = After(ms, s[k])
  BY DEF StreamFrom
<1>3. StreamFrom(ms, b, p)
  <2>1. p # << >> /\ p[1] = s[1]
    <3>1. n # 0 /\ 1 \in 1..n
      BY <1>1
    <3>. QED
      BY <1>b, <3>1, EmptySeq
  <2>2. ASSUME NEW k \in 1..(Len(p) - 1)
        PROVE  p[k + 1] = After(ms, p[k])
    <3>1. k \in 1..n /\ k + 1 \in 1..n /\ k \in 1..(Len(s) - 1)
      BY <1>1
    <3>. QED
      BY <1>b, <1>2, <3>1
  <2>. QED
    BY <1>2, <2>1, <2>2 DEF StreamFrom
<1>4. ASSUME r = << >>
      PROVE  Behind(ms, p) = Behind(ms, s)
  <2>1. Len(r) = 0
    BY <1>d, <1>4, EmptySeq
  <2>2. n = Len(s) /\ n \in 1..n
    BY <1>1, <1>d, <2>1
  <2>. QED
    BY <1>b, <2>2 DEF Behind
<1>5. ASSUME r # << >>
      PROVE  StreamFrom(ms, Behind(ms, p), r) /\ Behind(ms, r) = Behind(ms, s)
  <2>1. Len(r) >= 1 /\ n < Len(s)
    BY <1>1, <1>d, <1>5, EmptySeq
  <2>2. r[1] = Behind(ms, p)
    <3>1. 1 \in 1..Len(r) /\ n \in 1..n /\ n \in 1..(Len(s) - 1)
      BY <1>1, <2>1
    <3>2. r[1] = s[n + 1] /\ s[n] = p[n]
      BY <1>b, <1>d, <3>1
    <3>3. s[n + 1] = After(ms, s[n])
      BY <1>2, <3>1
    <3>. QED
      BY <3>2, <3>3 DEF Behind
  <2>3. ASSUME NEW k \in 1..(Len(r) - 1)
        PROVE  r[k + 1] = After(ms, r[k])
    <3>1. /\ k \in 1..Len(r) /\ k + 1 \in 1..Len(r)
          /\ n + k \in 1..(Len(s) - 1) /\ n + (k + 1) = (n + k) + 1
      BY <1>1, <1>d
    <3>2. r[k] = s[n + k] /\ r[k + 1] = s[n + (k + 1)]
      BY <1>d, <3>1
    <3>3. s[(n + k) + 1] = After(ms, s[n + k])
      BY <1>2, <3>1
    <3>. QED
      BY <3>1, <3>2, <3>3
  <2>4. r[Len(r)] = s[Len(s)]
    <3>1. Len(r) \in 1..Len(r) /\ n + Len(r) = Len(s)
      BY <1>1, <1>d, <2>1
    <3>. QED
      BY <1>d, <3>1
  <2>. QED
    BY <1>5, <2>2, <2>3, <2>4 DEF StreamFrom, Behind
<1>6. ASSUME NEW k \in 1..Len(p)
      PROVE  k \in 1..Len(s) /\ p[k] = s[k]
  BY <1>1, <1>b
<1>7. ASSUME NEW k \in 1..Len(r)
      PROVE  n + k \in 1..Len(s) /\ r[k] = s[n + k]
  BY <1>1, <1>d
<1>. QED
  BY <1>b, <1>d, <1>3, <1>4, <1>5, <1>6, <1>7

\* Two pieces, one behind the other, are one.
LEMMA StreamJoined ==
  ASSUME NEW ms, NEW b, NEW s \in Seq(Byte), StreamFrom(ms, b, s),
         NEW t \in Seq(Byte), StreamFrom(ms, Behind(ms, s), t)
  PROVE  StreamFrom(ms, b, s \o t) /\ Behind(ms, s \o t) = Behind(ms, t)
<1>. DEFINE u == s \o t
<1>1. /\ u \in Seq(Byte) /\ Len(u) = Len(s) + Len(t)
      /\ \A k \in 1..Len(s) : u[k] = s[k]
      /\ \A k \in 1..Len(t) : u[Len(s) + k] = t[k]
  OBVIOUS
<1>2. Len(s) \in Nat /\ Len(t) \in Nat /\ Len(s) >= 1 /\ Len(t) >= 1
  BY EmptySeq DEF StreamFrom
<1>. HIDE DEF u
<1>3. u # << >> /\ u[1] = b
  BY <1>1, <1>2 DEF StreamFrom
<1>4. ASSUME NEW k \in 1..(Len(u) - 1)
      PROVE  u[k + 1] = After(ms, u[k])
  <2>1. CASE k \in 1..(Len(s) - 1)
    <3>1. k \in 1..Len(s) /\ k + 1 \in 1..Len(s)
      BY <1>2, <2>1
    <3>2. s[k + 1] = After(ms, s[k])
      BY <2>1 DEF StreamFrom
    <3>. QED
      BY <1>1, <3>1, <3>2
  <2>2. CASE k = Len(s)
    <3>1. k \in 1..Len(s) /\ 1 \in 1..Len(t)
      BY <1>2, <2>2
    <3>2. u[k] = s[Len(s)] /\ u[k + 1] = t[1]
      BY <1>1, <2>2, <3>1
    <3>. QED
      BY <3>2 DEF StreamFrom, Behind
  <2>3. CASE k > Len(s)
    <3>. DEFINE j == k - Len(s)
    <3>1. /\ j \in 1..(Len(t) - 1) /\ j \in 1..Len(t) /\ j + 1 \in 1..Len(t)
          /\ k = Len(s) + j /\ k + 1 = Len(s) + (j + 1)
      BY <1>1, <1>2, <2>3
    <3>. HIDE DEF j
    <3>2. t[j + 1] = After(ms, t[j])
      BY <3>1 DEF StreamFrom
    <3>3. u[k] = t[j] /\ u[k + 1] = t[j + 1]
      BY <1>1, <3>1
    <3>. QED
      BY <3>2, <3>3
  <2>. QED
    BY <1>1, <1>2, <2>1, <2>2, <2>3
<1>5. u[Len(u)] = t[Len(t)]
  BY <1>1, <1>2
<1>. QED
  BY <1>3, <1>4, <1>5 DEF StreamFrom, Behind, u

\* A new message continues the stream.
LEMMA MessageContinues ==
  ASSUME NEW ms \in Seq(Messages), NEW m \in Messages, m > 0
  PROVE  LET n == Len(ms) + 1
         IN  /\ StreamFrom(Append(ms, m), <<n, 1>>, Bytes(n, m))
             /\ Behind(Append(ms, m), Bytes(n, m)) = <<n + 1, 1>>
             /\ \A k \in 1..Len(Bytes(n, m)) : Bytes(n, m)[k][1] = n
<1>. DEFINE n == Len(ms) + 1
            s == Bytes(n, m)
            a == Append(ms, m)
<1>1. n \in Nat /\ a[n] = m
  OBVIOUS
<1>2. m \in Nat \ {0}
  BY CaptureAssumption
<1>3. s \in Seq(Byte) /\ Len(s) = m /\ \A k \in 1..m : s[k] = <<n, k>>
  BY <1>1, BytesOf
<1>. HIDE DEF n, s, a
<1>4. ASSUME NEW k \in 1..m
      PROVE  After(a, s[k]) = IF k < m THEN <<n, k + 1>> ELSE <<n + 1, 1>>
  <2>1. s[k] = <<n, k>>
    BY <1>3
  <2>2. s[k][1] = n /\ s[k][2] = k
    BY <2>1
  <2>. QED
    BY <1>1, <2>2 DEF After
<1>5. s # << >> /\ s[1] = <<n, 1>>
  BY <1>2, <1>3
<1>6. ASSUME NEW k \in 1..(Len(s) - 1)
      PROVE  s[k + 1] = After(a, s[k])
  <2>1. k \in 1..m /\ k + 1 \in 1..m /\ k < m
    BY <1>2, <1>3
  <2>2. s[k + 1] = <<n, k + 1>>
    BY <1>3, <2>1
  <2>3. After(a, s[k]) = <<n, k + 1>>
    BY <1>4, <2>1
  <2>. QED
    BY <2>2, <2>3
<1>7. After(a, s[Len(s)]) = <<n + 1, 1>>
  <2>1. Len(s) \in 1..m /\ ~(Len(s) < m)
    BY <1>2, <1>3
  <2>. QED
    BY <1>4, <2>1
<1>8. ASSUME NEW k \in 1..Len(s)
      PROVE  s[k][1] = n
  BY <1>3
<1>. QED
  BY <1>5, <1>6, <1>7, <1>8 DEF StreamFrom, Behind, n, s, a

\* A new message does not change what the packets handled so far are followed by.
LEMMA HandledKept ==
  ASSUME Inv, type = "TYPE_SOCKET_UNIX", NEW m \in Messages, Send(m)
  PROVE  /\ handled' = handled
         /\ \A i \in 1..Len(handled) : StreamFrom(sent', NextByte(i - 1), handled[i].bytes)
         /\ \A i \in 0..Len(handled) : NextByte(i)' = NextByte(i)
<1>1. handled' = handled /\ sent' = Append(sent, m) /\ sent \in Seq(Messages)
  BY DEF Send, Inv, TypeOK
<1>2. handled \in Seq(Call) /\ DOMAIN handled = 1..Len(handled) /\ Len(handled) \in Nat
  BY LenProperties DEF Inv, TypeOK, Call, Byte
<1>3. ASSUME NEW i \in 1..Len(handled)
      PROVE  /\ StreamFrom(sent', NextByte(i - 1), handled[i].bytes)
             /\ Behind(sent', handled[i].bytes) = Behind(sent, handled[i].bytes)
  <2>1. handled[i].bytes \in Seq(Byte)
    <3>1. handled[i] \in Call
      BY <1>2
    <3>. QED
      BY <3>1 DEF Call
  <2>2. StreamFrom(sent, NextByte(i - 1), handled[i].bytes)
    BY <1>2 DEF Inv, CapturedInOrder, StreamInOrder
  <2>3. \A k \in 1..Len(handled[i].bytes) : handled[i].bytes[k][1] \in 1..Len(sent)
    BY DEF Inv, StreamWaits
  <2>4. handled[i].bytes # << >>
    BY <2>2 DEF StreamFrom
  <2>. QED
    BY <1>1, <2>1, <2>2, <2>3, <2>4, StreamGrows
<1>4. ASSUME NEW i \in 0..Len(handled)
      PROVE  NextByte(i)' = NextByte(i)
  <2>1. CASE i = 0
    BY <2>1 DEF NextByte
  <2>2. CASE i # 0
    <3>1. i \in 1..Len(handled)
      BY <1>2, <2>2
    <3>. QED
      BY <1>1, <1>3, <2>2, <3>1 DEF NextByte
  <2>. QED
    BY <2>1, <2>2
<1>. QED
  BY <1>1, <1>3, <1>4

\* A stream grows at its end.
LEMMA StreamSend ==
  ASSUME Inv, type = "TYPE_SOCKET_UNIX", NEW m \in Messages, Send(m)
  PROVE  StreamWaits' /\ StreamInOrder'
<1>. DEFINE n == Len(sent) + 1
            new == Bytes(n, m)
            rest == Head(queue)
<1>1. TypeOK /\ type' = type
  BY DEF Inv, Send, devVars
<1>2. /\ sent \in Seq(Messages) /\ Len(sent) \in Nat
      /\ sent' = Append(sent, m) /\ Len(sent') = n /\ n \in Nat
  BY <1>1, SendEffect DEF TypeOK
<1>3. m > 0
  <2>1. m \in Nat /\ m # 0
    BY CaptureAssumption DEF Send
  <2>. QED
    BY <2>1
<1>4. /\ StreamFrom(sent', <<n, 1>>, new) /\ Behind(sent', new) = <<n + 1, 1>>
      /\ \A k \in 1..Len(new) : new[k][1] = n
  BY <1>2, <1>3, MessageContinues
<1>5. new \in Seq(Byte)
  BY <1>2, BytesOf
<1>6. /\ handled' = handled /\ DOMAIN handled = 1..Len(handled) /\ Len(handled) \in Nat
      /\ handled \in Seq(Call)
  BY <1>1, LenProperties DEF Send, TypeOK, Call, Byte
<1>7. /\ \A i \in 1..Len(handled) :
           /\ StreamFrom(sent', NextByte(i - 1)', handled[i].bytes)
           /\ handled[i].len = Len(handled[i].bytes)
      /\ NextByte(Len(handled))' = NextByte(Len(handled))
  <2>1. ASSUME NEW i \in 1..Len(handled)
        PROVE  /\ StreamFrom(sent', NextByte(i - 1)', handled[i].bytes)
               /\ handled[i].len = Len(handled[i].bytes)
    <3>1. i - 1 \in 0..Len(handled)
      BY <1>6
    <3>2. handled[i].len = Len(handled[i].bytes)
      BY <1>6 DEF Inv, CapturedInOrder, StreamInOrder
    <3>. QED
      BY <3>1, <3>2, HandledKept
  <2>2. Len(handled) \in 0..Len(handled)
    BY <1>6
  <2>. QED
    BY <2>1, <2>2, HandledKept
<1>8. \A i \in 1..Len(handled) : \A k \in 1..Len(handled[i].bytes) :
        handled[i].bytes[k][1] \in 1..n
  <2>1. \A i \in 1..Len(handled) : \A k \in 1..Len(handled[i].bytes) :
          handled[i].bytes[k][1] \in 1..Len(sent)
    BY DEF Inv, StreamWaits
  <2>2. 1..Len(sent) \subseteq 1..n
    BY <1>2
  <2>. QED
    BY <2>1, <2>2
<1>. HIDE DEF n, new
\* It is enough to know what waits afterwards.
<1>9. SUFFICES \E s \in Seq(Byte) :
                 /\ queue' = <<s>>
                 /\ StreamFrom(sent', NextByte(Len(handled)), s)
                 /\ Behind(sent', s) = <<n + 1, 1>>
                 /\ \A k \in 1..Len(s) : s[k][1] \in 1..n
  <2>1. PICK s \in Seq(Byte) :
          /\ queue' = <<s>>
          /\ StreamFrom(sent', NextByte(Len(handled)), s)
          /\ Behind(sent', s) = <<n + 1, 1>>
          /\ \A k \in 1..Len(s) : s[k][1] \in 1..n
    BY <1>9
  <2>2. queue' # << >> /\ Head(queue') = s /\ Len(queue') = 1 /\ queue'[1] = s
    BY <2>1
  <2>3. StreamWaits'
    <3>1. ASSUME NEW j \in 1..Len(queue') PROVE j = 1
      BY <2>2
    <3>. QED
      BY <1>2, <1>6, <1>8, <2>1, <2>2, <3>1 DEF StreamWaits
  <2>4. StreamInOrder'
    BY <1>2, <1>6, <1>7, <2>1, <2>2 DEF StreamInOrder
  <2>. QED
    BY <2>3, <2>4
<1>10. CASE queue = << >>
  <2>1. queue' = <<new>>
    <3>1. queue' = Append(queue, new)
      BY <1>1, <1>2, <1>10, EnqueueEffect DEF n, new
    <3>. QED
      BY <3>1, <1>10
  <2>2. NextByte(Len(handled)) = <<n, 1>>
    BY <1>10 DEF Inv, CapturedInOrder, StreamInOrder, n
  <2>3. n \in 1..n
    BY <1>2 DEF n
  <2>. QED
    BY <1>4, <1>5, <2>1, <2>2, <2>3
<1>11. CASE queue # << >>
  <2>1. queue' = <<rest \o new>>
    BY <1>2, <1>11 DEF Send, Enqueue, new, n
  <2>2. rest \in Seq(Byte) /\ rest = queue[1] /\ 1 \in 1..Len(queue)
    BY <1>1, <1>11, QueueHead
  <2>3. /\ StreamFrom(sent, NextByte(Len(handled)), rest)
        /\ Behind(sent, rest) = <<n, 1>>
    BY <1>11 DEF Inv, CapturedInOrder, StreamInOrder, n
  <2>4. \A k \in 1..Len(rest) : rest[k][1] \in 1..Len(sent)
    BY <2>2 DEF Inv, StreamWaits
  <2>5. /\ StreamFrom(sent', NextByte(Len(handled)), rest)
        /\ Behind(sent', rest) = <<n, 1>>
    <3>1. rest # << >>
      BY <2>3 DEF StreamFrom
    <3>. HIDE DEF rest
    <3>. QED
      BY <1>2, <2>2, <2>3, <2>4, <3>1, StreamGrows
  <2>. DEFINE s == rest \o new
  <2>6. /\ StreamFrom(sent', NextByte(Len(handled)), s)
        /\ Behind(sent', s) = <<n + 1, 1>>
    <3>. HIDE DEF rest
    <3>1. StreamFrom(sent', Behind(sent', rest), new)
      BY <1>4, <2>5
    <3>. QED
      BY <1>4, <1>5, <2>2, <2>5, <3>1, StreamJoined
  <2>7. s \in Seq(Byte) /\ \A k \in 1..Len(s) : s[k][1] \in 1..n
    <3>. HIDE DEF rest
    <3>1. /\ s \in Seq(Byte) /\ Len(s) = Len(rest) + Len(new)
          /\ Len(rest) \in Nat /\ Len(new) \in Nat
          /\ \A k \in 1..Len(rest) : s[k] = rest[k]
          /\ \A k \in 1..Len(new) : s[Len(rest) + k] = new[k]
      BY <1>5, <2>2
    <3>2. ASSUME NEW k \in 1..Len(s) PROVE s[k][1] \in 1..n
      <4>1. CASE k \in 1..Len(rest)
        <5>1. rest[k][1] \in 1..Len(sent)
          BY <2>4, <4>1
        <5>2. 1..Len(sent) \subseteq 1..n
          BY <1>2 DEF n
        <5>. QED
          BY <3>1, <4>1, <5>1, <5>2
      <4>2. CASE k \notin 1..Len(rest)
        <5>. DEFINE j == k - Len(rest)
        <5>1. j \in 1..Len(new) /\ k = Len(rest) + j
          BY <3>1, <4>2
        <5>. HIDE DEF j, s
        <5>2. s[k] = new[j]
          BY <3>1, <5>1
        <5>3. new[j][1] = n /\ n \in 1..n
          BY <1>2, <1>4, <5>1 DEF n
        <5>. QED
          BY <5>2, <5>3
      <4>. QED
        BY <4>1, <4>2
    <3>. QED
      BY <3>1, <3>2
  <2>. QED
    BY <2>1, <2>6, <2>7
<1>. QED
  BY <1>10, <1>11

\* A stream is read from its front.
LEMMA StreamRead ==
  ASSUME Inv, RecvUnix
  PROVE  StreamWaits' /\ StreamInOrder'
<1>. DEFINE stream == Head(queue)
            bytes  == Prefix(stream, SnapLength)
            rest   == SubSeq(stream, Len(bytes) + 1, Len(stream))
<1>. PICK n : n = Len(handled)
  OBVIOUS
<1>1. /\ TypeOK /\ type = "TYPE_SOCKET_UNIX" /\ queue # << >>
      /\ type' = type /\ sent' = sent
      /\ Handle(bytes, Len(bytes))
      /\ queue' = IF rest = << >> THEN << >> ELSE <<rest>>
  BY DEF Inv, RecvUnix, Reading, Handle, devVars
<1>2. stream \in Seq(Byte) /\ stream = queue[1] /\ 1 \in 1..Len(queue)
  BY <1>1, QueueHead
<1>3. /\ StreamFrom(sent, NextByte(n), stream) /\ Behind(sent, stream) = <<Len(sent) + 1, 1>>
      /\ \A i \in DOMAIN handled : /\ StreamFrom(sent, NextByte(i - 1), handled[i].bytes)
                                   /\ handled[i].len = Len(handled[i].bytes)
  BY <1>1 DEF Inv, CapturedInOrder, StreamInOrder
<1>4. /\ \A k \in 1..Len(stream) : stream[k][1] \in 1..Len(sent)
      /\ \A i \in 1..n : \A k \in 1..Len(handled[i].bytes) :
           handled[i].bytes[k][1] \in 1..Len(sent)
  BY <1>1, <1>2 DEF Inv, StreamWaits
<1>5. /\ bytes \in Seq(Byte) /\ \A k \in 1..Len(bytes) : k \in 1..Len(stream) /\ bytes[k] = stream[k]
      /\ rest \in Seq(Byte)
      /\ \A k \in 1..Len(rest) : Len(bytes) + k \in 1..Len(stream) /\ rest[k] = stream[Len(bytes) + k]
      /\ StreamFrom(sent, NextByte(n), bytes)
      /\ rest = << >> => Behind(sent, bytes) = Behind(sent, stream)
      /\ rest # << >> => /\ StreamFrom(sent, Behind(sent, bytes), rest)
                         /\ Behind(sent, rest) = Behind(sent, stream)
  <2>1. SnapLength \in Nat \ {0}
    BY CaptureAssumption
  <2>. PICK b : b = NextByte(n)
    OBVIOUS
  <2>2. stream \in Seq(Byte) /\ StreamFrom(sent, b, stream)
    BY <1>2, <1>3
  <2>. HIDE DEF stream
  <2>. QED
    BY <2>1, <2>2, StreamCut
<1>7. PICK r \in Call : handled' = Append(handled, r) /\ r.bytes = bytes /\ r.len = Len(bytes)
  <2>1. Len(bytes) \in Nat
    BY <1>5, LenProperties
  <2>. HIDE DEF bytes
  <2>. QED
    BY <1>1, <1>5, <2>1, HandleEffect
<1>8. /\ handled \in Seq(Call) /\ n \in Nat /\ DOMAIN handled = 1..n
  BY <1>1, LenProperties DEF TypeOK, Call, Byte
<1>. HIDE DEF stream, bytes, rest
<1>9. /\ Len(handled') = n + 1 /\ DOMAIN handled' = 1..(n + 1) /\ handled'[n + 1] = r
      /\ \A i \in 1..n : handled'[i] = handled[i]
  BY <1>7, <1>8
<1>11. NextByte(n + 1)' = Behind(sent, bytes)
  <2>1. n + 1 # 0
    BY <1>8
  <2>. QED
    BY <1>1, <1>7, <1>9, <2>1 DEF NextByte
<1>12. ASSUME NEW i \in 0..n PROVE NextByte(i)' = NextByte(i)
  <2>1. CASE i = 0
    BY <2>1 DEF NextByte
  <2>2. CASE i # 0
    <3>1. i \in 1..n
      BY <1>8, <2>2
    <3>. QED
      BY <1>1, <1>9, <2>2, <3>1 DEF NextByte
  <2>. QED
    BY <2>1, <2>2
<1>13. ASSUME NEW i \in 1..(n + 1)
       PROVE  /\ StreamFrom(sent, NextByte(i - 1)', handled'[i].bytes)
              /\ handled'[i].len = Len(handled'[i].bytes)
              /\ \A k \in 1..Len(handled'[i].bytes) : handled'[i].bytes[k][1] \in 1..Len(sent)
  <2>1. i - 1 \in 0..n
    BY <1>8
  <2>2. CASE i = n + 1
    <3>1. i - 1 = n /\ handled'[i].bytes = bytes /\ handled'[i].len = Len(bytes)
      BY <1>7, <1>8, <1>9, <2>2
    <3>2. ASSUME NEW k \in 1..Len(bytes) PROVE bytes[k][1] \in 1..Len(sent)
      <4>1. k \in 1..Len(stream) /\ bytes[k] = stream[k]
        BY <1>5
      <4>. QED
        BY <1>4, <4>1
    <3>. QED
      BY <1>5, <1>12, <2>1, <3>1, <3>2
  <2>3. CASE i \in 1..n
    BY <1>3, <1>4, <1>8, <1>9, <1>12, <2>1, <2>3
  <2>. QED
    BY <1>8, <2>2, <2>3
<1>14. CASE rest = << >>
  <2>1. queue' = << >> /\ Len(queue') = 0
    BY <1>1, <1>14
  <2>2. StreamWaits'
    BY <1>1, <1>9, <1>13, <2>1 DEF StreamWaits
  <2>3. NextByte(n + 1)' = <<Len(sent) + 1, 1>>
    BY <1>3, <1>5, <1>11, <1>14
  <2>4. StreamInOrder'
    BY <1>1, <1>9, <1>13, <2>1, <2>3 DEF StreamInOrder
  <2>. QED
    BY <2>2, <2>4
<1>15. CASE rest # << >>
  <2>1. queue' = <<rest>> /\ queue' # << >> /\ Len(queue') = 1 /\ queue'[1] = rest
        /\ Head(queue') = rest
    BY <1>1, <1>15
  <2>2. ASSUME NEW k \in 1..Len(rest) PROVE rest[k][1] \in 1..Len(sent)
    <3>1. Len(bytes) + k \in 1..Len(stream) /\ rest[k] = stream[Len(bytes) + k]
      BY <1>5
    <3>. QED
      BY <1>4, <3>1
  <2>3. StreamWaits'
    <3>1. ASSUME NEW j \in 1..Len(queue') PROVE j = 1
      BY <2>1
    <3>. QED
      BY <1>1, <1>9, <1>13, <2>1, <2>2, <3>1 DEF StreamWaits
  <2>4. StreamFrom(sent, NextByte(n + 1)', rest) /\ Behind(sent, rest) = <<Len(sent) + 1, 1>>
    BY <1>3, <1>5, <1>11, <1>15
  <2>5. StreamInOrder'
    BY <1>1, <1>9, <1>13, <2>1, <2>4 DEF StreamInOrder
  <2>. QED
    BY <2>3, <2>5
<1>. QED
  BY <1>14, <1>15

\* Every step keeps the order of what is captured.
LEMMA OrderStep ==
  ASSUME Inv, Next
  PROVE  MessagesWait' /\ StreamWaits' /\ CapturedInOrder'
<1>1. type' = type
  BY DataSteps
<1>2. CASE type # "TYPE_SOCKET_UNIX"
  BY <1>1, <1>2, MessageStep DEF StreamWaits, CapturedInOrder
<1>3. CASE type = "TYPE_SOCKET_UNIX"
  <2>1. SUFFICES StreamWaits' /\ StreamInOrder'
    BY <1>1, <1>3 DEF MessagesWait, CapturedInOrder
  <2>2. CASE UNCHANGED <<queue, handled, sent>>
    BY <1>1, <1>3, <2>2 DEF Inv, StreamWaits, CapturedInOrder, StreamInOrder, NextByte
  <2>3. CASE RecvInet \/ PcapFrame
    BY <1>3, <2>3, MessageTaken DEF Inv, TakesMessage
  <2>. QED
    BY <1>3, <2>2, <2>3, DataSteps, StreamSend, StreamRead
<1>. QED
  BY <1>2, <1>3

\* Every packet handled is cut at link header and offset.
LEMMA OffsetStep ==
  ASSUME Inv, Next
  PROVE  OffsetAfterLink'
<1>1. TypeOK /\ PeekHolds /\ type' = type /\ link' = link /\ pkt_offset' = pkt_offset
  BY DataSteps DEF Inv, pkt_offset
<1>2. CASE handled' = handled
  BY <1>1, <1>2 DEF Inv, OffsetAfterLink
<1>3. ASSUME NEW bytes \in Seq(Byte), NEW len \in Nat, Handle(bytes, len)
      PROVE  OffsetAfterLink'
  <2>. PICK skip : skip = pkt_offset
    OBVIOUS
  <2>. DEFINE n == Len(handled)
              Cut(r) == IF Len(r.bytes) - (skip + Offset) > 0
                        THEN r.pkt.ptr = skip + Offset /\ r.pkt.len = Len(r.bytes) - (skip + Offset)
                        ELSE r.pkt.len = 0 /\ r.pkt.ptr \in {0, skip}
  <2>1. PICK r \in Call :
          handled' = Append(handled, r) /\ r.bytes = bytes /\ r.pkt = Window(bytes)
    BY <1>1, <1>3, HandleEffect
  <2>2. Cut(r)
    <3>1. skip \in Nat /\ Offset \in Nat /\ Len(bytes) \in Nat
      BY <1>1, OffsetTypes, CaptureAssumption, LenProperties
    <3>2. PICK q : q = Window(bytes)
      OBVIOUS
    <3>3. IF Len(bytes) - (skip + Offset) > 0
          THEN q.ptr = skip + Offset /\ q.len = Len(bytes) - (skip + Offset)
          ELSE q.len = 0 /\ q.ptr \in {0, skip}
      BY <3>1, <3>2, OffsetsAdd DEF Window
    <3>. QED
      BY <2>1, <3>2, <3>3
  <2>3. /\ handled \in Seq(Call) /\ n \in Nat /\ DOMAIN handled = 1..n
    BY <1>1, LenProperties DEF TypeOK, Call, Byte
  <2>4. /\ DOMAIN handled' = 1..n \cup {n + 1} /\ handled'[n + 1] = r
        /\ \A i \in 1..n : handled'[i] = handled[i]
    BY <2>1, <2>3
  <2>5. \A i \in 1..n : Cut(handled[i])
    BY <2>3 DEF Inv, OffsetAfterLink
  <2>. HIDE DEF n
  <2>6. \A i \in DOMAIN handled' : Cut(handled'[i])
    <3>. HIDE DEF Cut
    <3>. QED
      BY <2>2, <2>4, <2>5
  <2>. QED
    BY <1>1, <2>6 DEF OffsetAfterLink
<1>4. CASE RecvInet \/ PcapFrame
  <2>1. TakesMessage
    BY <1>1, <1>4, MessageTaken
  <2>2. Head(queue) \in Seq(Byte) /\ Len(Head(queue)) \in Nat
    BY <1>1, <2>1, QueueHead, LenProperties DEF TakesMessage
  <2>3. Prefix(Head(queue), SnapLength) \in Seq(Byte)
    BY <2>2, PrefixIs, CaptureAssumption
  <2>. QED
    BY <1>3, <2>1, <2>2, <2>3 DEF TakesMessage
<1>5. CASE RecvUnix
  <2>. DEFINE bytes == Prefix(Head(queue), SnapLength)
  <2>1. queue # << >> /\ Handle(bytes, Len(bytes))
    BY <1>5 DEF RecvUnix
  <2>2. Head(queue) \in Seq(Byte)
    BY <1>1, <2>1, QueueHead
  <2>3. bytes \in Seq(Byte)
    BY <2>2, PrefixIs, CaptureAssumption
  <2>. HIDE DEF bytes
  <2>. QED
    BY <1>3, <2>1, <2>3, LenProperties
<1>6. CASE \E m \in Messages : Send(m)
  BY <1>2, <1>6 DEF Send
<1>. QED
  BY <1>2, <1>4, <1>5, <1>6, DataSteps

-----------------------------------------------------------------------------
(* Theorems                                                                *)

\* The invariant holds before the device is opened.
LEMMA InvInit == Init => Inv
<1>. SUFFICES ASSUME Init PROVE Inv
  OBVIOUS
<1>2. link \in LinkTypes
  BY CaptureAssumption DEF Init, LinkTypes
<1>3. TypeOK
  <2>1. /\ type \in Types /\ phase = "start" /\ watcher = "none" /\ hdr_len = 0 /\ nPackets = 0
        /\ queue = << >> /\ closed = FALSE /\ handled = << >> /\ sent = << >> /\ failed = FALSE
    BY DEF Init
  <2>2. nPackets \in 0..PCAP_DISPATCH_PACKET_COUNT
    BY <2>1, CaptureAssumption
  <2>3. \A S : << >> \in Seq(S)
    OBVIOUS
  <2>. QED
    BY <1>2, <2>1, <2>2, <2>3 DEF TypeOK
<1>4. CapturedInOrder
  BY DEF Init, CapturedInOrder, StreamInOrder, MessagesInOrder, NextByte
<1>5. MessagesWait /\ StreamWaits
  BY DEF Init, MessagesWait, StreamWaits
<1>. QED
  BY <1>3, <1>4, <1>5 DEF Init, Inv, WatchedInside, PeekHolds, OffsetAfterLink, StopsExplained

\* Every step of the device, its dispatch functions and the kernel preserves it.
LEMMA InvStep == Inv /\ [Next]_vars => Inv'
<1>. SUFFICES ASSUME Inv, [Next]_vars PROVE Inv'
  OBVIOUS
<1>2. CASE Next
  <2>1. TypeOK /\ WatchedInside /\ PeekHolds /\ StopsExplained /\ CapturedInOrder
    BY DEF Inv
  <2>. QED
    BY <1>2, <2>1, TypeStep, WatchStep, PeekStep, StopStep, OrderStep, OffsetStep DEF Inv
<1>3. CASE UNCHANGED vars
  <2>1. /\ UNCHANGED <<type, link, phase, watcher, hdr_len, nPackets, queue, closed>>
        /\ UNCHANGED <<handled, sent, failed>>
    BY <1>3 DEF vars, devVars, netVars
  <2>2. TypeOK' /\ WatchedInside' /\ PeekHolds'
    BY <2>1 DEF Inv, TypeOK, WatchedInside, PeekHolds
  <2>3. MessagesWait' /\ StreamWaits'
    BY <2>1 DEF Inv, MessagesWait, StreamWaits, Bytes
  <2>4. CapturedInOrder'
    BY <2>1 DEF Inv, CapturedInOrder, StreamInOrder, MessagesInOrder, NextByte
  <2>5. OffsetAfterLink' /\ StopsExplained'
    BY <2>1 DEF Inv, OffsetAfterLink, StopsExplained, pkt_offset
  <2>. QED
    BY <2>2, <2>3, <2>4, <2>5 DEF Inv
<1>. QED
  BY <1>2, <1>3

\* The invariant holds in every reachable state.
LEMMA Invariant == Spec => []Inv
BY InvInit, InvStep, PTL DEF Spec

\* For every device type, every batch size and every mix of messages: the capture
\* state keeps its types and no callback exceeds its batch.
THEOREM CaptureTypes == Spec => []TypeOK
<1>1. Inv => TypeOK
  BY DEF Inv
<1>. QED
  BY <1>1, Invariant, PTL

\* Whatever arrives between two system calls, handle_packet gets the messages in
\* order, with their true length and cut to snapLength only, and a stream without
\* a gap or a repetition up to what still waits.
THEOREM CaptureInOrder == Spec => []CapturedInOrder
<1>1. Inv => CapturedInOrder
  BY DEF Inv
<1>. QED
  BY <1>1, Invariant, PTL

\* Link header and -O are skipped one after the other, and that is their sum, for
\* packets of which more was captured; of the others apply_offset leaves length 0
\* and a pointer to bytes that were to be skipped.
THEOREM OffsetIsApplied == Spec => []OffsetAfterLink
<1>1. Inv => OffsetAfterLink
  BY DEF Inv
<1>. QED
  BY <1>1, Invariant, PTL

\* packet_watcher_cb deregisters a device only for a failure, the end of a stream
\* or an empty datagram.
THEOREM StopsForAReason == Spec => []StopsExplained
<1>1. Inv => StopsExplained
  BY DEF Inv
<1>. QED
  BY <1>1, Invariant, PTL

-----------------------------------------------------------------------------
(* Refinement of Dispatch                                                  *)

\* The abstract device, the packets its callback may still deliver, and their count.
device == IF phase = "start" THEN "closed" ELSE IF watcher = "none" THEN "dead" ELSE "open"
left == IF phase \in {"reading", "peeked"} THEN PCAP_DISPATCH_PACKET_COUNT - nPackets ELSE -1

\* dispatch returns: with what it has delivered, or with an error that ends the
\* device.
LEMMA ReturnDispatched ==
  ASSUME Inv, NEW n \in Int, Return(n), phase \in {"reading", "peeked"},
         n < 0 => nPackets < PCAP_DISPATCH_PACKET_COUNT
  PROVE  Disp!Return \/ Disp!Error
<1>1. /\ device = "open" /\ left = PCAP_DISPATCH_PACKET_COUNT - nPackets
      /\ phase' = "loop" /\ left' = -1 /\ handled' = handled
  BY DEF Inv, WatchedInside, Return, device, left
<1>2. left >= 0 /\ (n < 0 => left > 0)
  BY <1>1, CaptureAssumption DEF Inv, TypeOK
<1>3. device' = IF n < 0 THEN "dead" ELSE "open"
  BY <1>1 DEF Return, Deregisters, device, Inv, WatchedInside
<1>4. CASE n < 0
  BY <1>1, <1>2, <1>3, <1>4 DEF Disp!Error, device, left
<1>5. CASE ~(n < 0)
  BY <1>1, <1>2, <1>3, <1>5 DEF Disp!Return, device, left
<1>. QED
  BY <1>4, <1>5

\* A packet uses up one of the batch.
LEMMA HandleDispatched ==
  ASSUME Inv, NEW bytes, NEW len, Handle(bytes, len), phase \in {"reading", "peeked"},
         nPackets < PCAP_DISPATCH_PACKET_COUNT
  PROVE  Disp!Packet
<1>1. /\ left = PCAP_DISPATCH_PACKET_COUNT - nPackets
      /\ left' = PCAP_DISPATCH_PACKET_COUNT - (nPackets + 1)
      /\ device = "open" /\ device' = "open"
  BY DEF Handle, left, device, Inv, WatchedInside
<1>2. left > 0 /\ left' = left - 1
  BY <1>1, CaptureAssumption DEF Inv, TypeOK
<1>3. Len(handled') = Len(handled) + 1
  BY DEF Handle, handle_packet, Inv, TypeOK
<1>. QED
  BY <1>1, <1>2, <1>3 DEF Disp!Packet, left, device

\* Whatever the type of the device, its callbacks are those the metering loop
\* relies on: packets only inside a callback of an open device, at most a batch,
\* and none after an error.
THEOREM ImplementsDispatch == Spec => DispatchSpec
<1>1. Init => Disp!Init
  BY DEF Init, Disp!Init
<1>2. Inv /\ [Next]_vars => [Disp!Next]_Disp!vars
  <2>. SUFFICES ASSUME Inv, [Next]_vars PROVE Disp!Next \/ UNCHANGED Disp!vars
    OBVIOUS
  <2>1. CASE \E ok \in BOOLEAN : open_device(ok)
    <3>1. /\ device = "closed" /\ device' \in {"open", "dead"}
          /\ left = -1 /\ left' = -1 /\ handled' = handled
      BY <2>1 DEF open_device, device, left
    <3>. QED
      BY <3>1 DEF Disp!Next, Disp!Open, device, left
  <2>2. CASE Callback
    <3>1. /\ device = "open" /\ device' = "open"
          /\ left = -1 /\ left' = PCAP_DISPATCH_PACKET_COUNT - 0 /\ handled' = handled
      BY <2>2 DEF Callback, device, left
    <3>2. left' = PCAP_DISPATCH_PACKET_COUNT
      BY <3>1, CaptureAssumption
    <3>. QED
      BY <3>1, <3>2 DEF Disp!Next, Disp!Begin, device, left
  <2>3. CASE BatchDone \/ NothingToRead
    <3>1. nPackets \in Int /\ ~(nPackets < 0)
      BY DEF Inv, TypeOK
    <3>. QED
      BY <2>3, <3>1, ReturnDispatched DEF BatchDone, NothingToRead, Reading, Disp!Next
  <2>4. CASE Fail \/ PeekEmpty \/ RecvEndOfStream
    BY <2>4, ReturnDispatched DEF Fail, PeekEmpty, RecvEndOfStream, Reading, Disp!Next
  <2>5. CASE Peek
    BY <2>5 DEF Peek, Reading, Disp!vars
  <2>6. CASE RecvInet \/ RecvUnix \/ PcapFrame
    <3>1. phase \in {"reading", "peeked"} /\ nPackets < PCAP_DISPATCH_PACKET_COUNT
      BY <2>6 DEF RecvInet, RecvUnix, PcapFrame, Reading, Inv, PeekHolds
    <3>2. \E bytes, len : Handle(bytes, len)
      BY <2>6 DEF RecvInet, RecvUnix, PcapFrame
    <3>. QED
      BY <3>1, <3>2, HandleDispatched DEF Disp!Next
  <2>7. CASE PeerCloses \/ \E m \in Messages : Send(m)
    BY <2>7 DEF PeerCloses, Send, Disp!vars
  <2>8. CASE UNCHANGED vars
    BY <2>8 DEF vars, Disp!vars
  <2>. QED
    BY <2>1, <2>2, <2>3, <2>4, <2>5, <2>6, <2>7, <2>8 DEF Next, Dispatch
<1>. QED
  BY <1>1, <1>2, Invariant, PTL DEF Spec, DispatchSpec, Disp!Spec
=============================================================================
