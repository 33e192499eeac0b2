------------------------------- MODULE Headers -------------------------------
(***************************************************************************)
(* The preset hash inputs (-s): findHeaders locates the transport header   *)
(* and the payload of an IP packet, and copyFields_Rec, _Only_Net,         *)
(* _U_TCP_and_Net and _Packet pick the bytes to hash.  Bytes are           *)
(* represented by their positions in the packet; the packet starts with    *)
(* the IP header (headerOffset[L_NET] is 0).  A selected packet then gets  *)
(* a record, whose fields are those of its template (ipfix_templates.h).   *)
(***************************************************************************)
EXTENDS Integers, Sequences

CONSTANTS
  Packets,     \* the packets that may arrive
  LengthBytes  \* what a byte inside an extension header is when read as a length

\* Protocol numbers by name: extension headers, then what findHeaders knows and
\* any other number.
Extensions == {"hop", "route", "frag", "dest", "ah"}
Transports == {"icmp", "icmp6", "udp", "tcp", "sctp", "other"}
Protocols  == Extensions \cup Transports
Unknown    == "zero"   \* T_UNKNOWN, which an IPv4 packet may also have as its protocol

\* version: 4, 6 or 0 for neither.  header: size of the IPv4 header.  ext: IPv6
\* extension headers with their length byte.  proto: the transport protocol.
\* first: the first byte of the transport header, read as a protocol number.
\* doff: size a TCP header declares.  len: captured bytes.
Packet == [version : {0, 4, 6}, header : Nat,
           ext : Seq([type : Extensions, hlen : Nat]),
           proto : Transports \cup {Unknown}, first : Protocols, doff : Nat, len : Nat]

\* 0 is the number of the extension header "hop" in an IPv6 packet.
ASSUME HeadersAssumption ==
  /\ Packets \subseteq Packet
  /\ \A p \in Packets : p.proto = Unknown => p.version # 6
  /\ LengthBytes \subseteq 0..255

VARIABLES
  pkt,           \* the packet handled
  stage,         \* "net", "extensions", "transport", "copy", "copied", "done"
  offs, proto,   \* findHeaders' locals
  headerOffset,  \* transport and payload, -1 when there is none
  layers,        \* network and transport protocol
  preset,        \* -s
  buffer,        \* the hash input
  template,      \* template of the record, "none" while there is no record
  record         \* its fields: [length, source, at]

recVars == <<template, record>>
vars == <<pkt, stage, offs, proto, headerOffset, layers, preset, buffer, recVars>>

Presets == {"REC8", "IP", "IP+TP", "PACKET"}
IP6_HLEN == 40

\* True size and start of extension header i.
ExtSize(h) == IF h.type = "ah" THEN h.hlen * 4 + 8 ELSE h.hlen * 8 + 8
ExtStart(p, i) ==
  LET sum[j \in 0..Len(p.ext)] == IF j = 0 THEN IP6_HLEN ELSE sum[j-1] + ExtSize(p.ext[j])
  IN  sum[i - 1]
TransportStart(p) ==
  IF p.version = 6 THEN ExtStart(p, Len(p.ext) + 1) ELSE p.header

\* The next-header field of the IPv6 header (i = 0) or of extension header i.
NextHeader(p, i) == IF i < Len(p.ext) THEN p.ext[i + 1].type ELSE p.proto

\* Byte o of an IPv6 packet as a protocol number, and byte o + 1 as a length:
\* known at the start of a header, any value inside one.
ByteAt(p, o) ==
  LET at == {i \in 1..Len(p.ext) : ExtStart(p, i) = o}
  IN  IF o = TransportStart(p) THEN {p.first}
      ELSE IF at = {} THEN Protocols
      ELSE {NextHeader(p, i) : i \in at}
LengthAt(p, o) ==
  LET at == {i \in 1..Len(p.ext) : ExtStart(p, i) = o}
  IN  IF at = {} THEN LengthBytes ELSE {p.ext[i].hlen : i \in at}

-----------------------------------------------------------------------------
(* findHeaders                                                             *)

\* Faulty variant: IPv4 options are overlooked.
FindNet_NoOptions ==
  /\ stage = "net"
  /\ pkt.version = 4
  /\ offs' = 20 /\ proto' = pkt.proto
  /\ layers' = [layers EXCEPT !.net = 4]
  /\ stage' = "transport"
  /\ UNCHANGED <<pkt, headerOffset, preset, buffer, recVars>>

\* The version decides.  Neither 4 nor 6: nothing is found.
FindNet ==
  /\ stage = "net"
  /\ \/ /\ pkt.version = 4
        /\ offs' = pkt.header /\ proto' = pkt.proto
        /\ layers' = [layers EXCEPT !.net = 4]
        /\ stage' = "transport"
     \/ /\ pkt.version = 6
        /\ offs' = IP6_HLEN /\ proto' = NextHeader(pkt, 0)
        /\ layers' = [layers EXCEPT !.net = 6]
        /\ stage' = "extensions"
     \/ /\ pkt.version = 0
        /\ stage' = "copy"
        /\ UNCHANGED <<offs, proto, layers>>
  /\ UNCHANGED <<pkt, headerOffset, preset, buffer, recVars>>

\* One turn of the loop over extension headers: the size of the header at offs is
\* added, with AH's formula if proto says so, and proto is read at the new offs.
\* Beyond the packet the bytes are undefined and the end is the same for all.
SkipExtension ==
  /\ stage = "extensions"
  /\ proto \in Extensions /\ offs < pkt.len
  /\ \E n \in LengthAt(pkt, offs) :
       /\ offs' = offs + 8 + (IF proto = "ah" THEN n * 4 ELSE n * 8)
       /\ proto' \in ByteAt(pkt, offs')
  /\ UNCHANGED <<pkt, stage, headerOffset, layers, preset, buffer, recVars>>

ExtensionsDone ==
  /\ stage = "extensions"
  /\ proto \notin Extensions \/ offs >= pkt.len
  /\ stage' = "transport"
  /\ UNCHANGED <<pkt, offs, proto, headerOffset, layers, preset, buffer, recVars>>

\* Where the payload starts.  A TCP packet that ends exactly before its data
\* offset byte is read one byte too far: any size.
PayloadStart ==
  CASE proto \in {"icmp", "icmp6"} -> {offs + 4}
    [] proto = "udp" -> {offs + 8}
    [] proto = "tcp" -> IF pkt.len > offs + 12 THEN {offs + pkt.doff}
                        ELSE IF pkt.len = offs + 12 THEN {offs + 4 * n : n \in 0..15}
                        ELSE {offs}
    [] OTHER -> {}

\* Faulty variant: a payload may start behind the captured bytes.
FindTransport_NoBound ==
  /\ stage = "transport"
  /\ stage' = "copy"
  /\ layers' = [layers EXCEPT !.trans = proto]
  /\ \E o \in PayloadStart : headerOffset' = [trans |-> offs, payload |-> o]
  /\ UNCHANGED <<pkt, offs, proto, preset, buffer, recVars>>

\* Header offsets are set when they lie in the captured packet.
FindTransport ==
  /\ stage = "transport"
  /\ stage' = "copy"
  /\ \/ /\ offs >= pkt.len
        /\ UNCHANGED <<headerOffset, layers>>
     \/ /\ offs < pkt.len
        /\ layers' = [layers EXCEPT !.trans = proto]
        /\ \/ /\ PayloadStart = {}
              /\ headerOffset' = [headerOffset EXCEPT !.trans = offs]
           \/ \E o \in PayloadStart :
                headerOffset' = [trans |-> offs, payload |-> IF o < pkt.len THEN o ELSE -1]
  /\ UNCHANGED <<pkt, offs, proto, preset, buffer, recVars>>

-----------------------------------------------------------------------------
(* The presets                                                             *)

\* append_packet: n positions from o.
Piece(o, n) == [i \in 1..n |-> o + i - 1]

\* Faulty variant: the TTL or hop limit is copied with its neighbours.
copy_NetFields_Ttl ==
  CASE layers.net = 4 -> Piece(0, 10) \o Piece(12, 8)
    [] layers.net = 6 -> Piece(0, 40)
    [] OTHER -> << >>

copy_NetFields ==
  CASE layers.net = 4 -> Piece(0, 8) \o Piece(9, 1) \o Piece(12, 8)
    [] layers.net = 6 -> Piece(0, 7) \o Piece(8, 32)
    [] OTHER -> << >>

HasTransport == headerOffset.trans # -1 /\ layers.trans # Unknown

copyFields_Rec ==
  LET t == headerOffset.trans
  IN  IF ~HasTransport \/ layers.net # 4 THEN << >>
      ELSE Piece(4, 2) \o
           CASE layers.trans = "tcp" -> Piece(t + 6, 2) \o Piece(t + 10, 2) \o Piece(t + 16, 2)
             [] layers.trans = "udp" -> Piece(t, 2) \o Piece(t + 3, 1) \o Piece(t + 5, 3)
             [] layers.trans \in {"icmp", "icmp6"} -> Piece(t + 2, 2) \o Piece(t + 12, 4)
             [] OTHER -> << >>

AtMost(n, m) == IF n < m THEN n ELSE m

copyFields_U_TCP_and_Net ==
  LET t == headerOffset.trans
  IN  IF ~HasTransport THEN << >>
      ELSE copy_NetFields \o
           CASE layers.trans \in {"tcp", "icmp", "icmp6"} -> Piece(t, AtMost(20, pkt.len - t))
             [] layers.trans = "udp" -> Piece(t, AtMost(8, pkt.len - t))
             [] OTHER -> << >>

\* Faulty variant: no limit of 50 bytes.
copyFields_Packet_NoLimit == copy_NetFields \o Piece(20, pkt.len - 20)

\* The subtraction is unsigned: a packet shorter than 20 bytes counts as long.
copyFields_Packet ==
  copy_NetFields \o Piece(20, IF pkt.len < 20 THEN 50 ELSE AtMost(pkt.len - 20, 50))

selection_function ==
  CASE preset = "REC8"   -> copyFields_Rec
    [] preset = "IP"     -> copy_NetFields
    [] preset = "IP+TP"  -> copyFields_U_TCP_and_Net
    [] preset = "PACKET" -> copyFields_Packet

CopyFields ==
  /\ stage = "copy"
  /\ stage' = "copied"
  /\ buffer' = selection_function
  /\ UNCHANGED <<pkt, offs, proto, headerOffset, layers, preset, recVars>>

-----------------------------------------------------------------------------
(* The record                                                              *)

\* Information elements and lengths of the templates -t can name.
export_fields_ts  == <<<<"TIME", 8>>, <<"HASH", 4>>>>
export_fields_min == export_fields_ts \o <<<<"TTL", 1>>>>
export_fields_ts_ttl_proto ==
  export_fields_min \o <<<<"TOTALLENGTH", 2>>, <<"PROTOCOL", 1>>, <<"VERSION", 1>>>>
export_fields_ts_ttl_proto_ip ==
  export_fields_ts_ttl_proto \o <<<<"SRCADDR", 4>>, <<"SRCPORT", 2>>, <<"DSTADDR", 4>>, <<"DSTPORT", 2>>>>
get_template == [ts |-> export_fields_ts, min |-> export_fields_min,
                 lp |-> export_fields_ts_ttl_proto, ls |-> export_fields_ts_ttl_proto_ip]

\* A field: its length and its value, the name of a variable or the bytes of the
\* packet at the given positions, none for the constant 0.
set_value(size, source, at) == <<[length |-> size, source |-> source, at |-> at]>>

get_ttl == CASE layers.net = 4 -> <<8>> [] layers.net = 6 -> <<7>> [] OTHER -> << >>
get_ip_length ==
  CASE layers.net = 4 -> Piece(2, 2) [] layers.net = 6 -> Piece(4, 2) [] OTHER -> << >>
get_ipa(o) == IF layers.net = 4 THEN Piece(o + 12, 4) ELSE << >>

get_port(o) == IF layers.trans \in {"udp", "tcp", "sctp"} THEN Piece(o, 2) ELSE << >>

\* Faulty variant: protocol and version change places.
LayerFields_Swapped ==
  set_value(2, "packet", get_ip_length)
    \o set_value(1, "layers[L_NET]", << >>) \o set_value(1, "layers[L_TRANS]", << >>)

\* Length, protocol and version.
LayerFields ==
  set_value(2, "packet", get_ip_length)
    \o set_value(1, "layers[L_TRANS]", << >>) \o set_value(1, "layers[L_NET]", << >>)

\* The fields handle_ip_packet sets for template t.
fields(t) ==
  LET TimeAndHash == set_value(8, "timestamp", << >>) \o set_value(4, "hash_id", << >>)
      Ttl    == set_value(1, "packet", get_ttl)
      Ends   == set_value(4, "packet", get_ipa(0))
                  \o set_value(2, "packet", get_port(headerOffset.trans))
                  \o set_value(4, "packet", get_ipa(4))
                  \o set_value(2, "packet", get_port(headerOffset.trans + 2))
  IN  CASE t = "ts"  -> TimeAndHash
        [] t = "min" -> TimeAndHash \o Ttl
        [] t = "lp"  -> TimeAndHash \o Ttl \o LayerFields
        [] t = "ls"  -> TimeAndHash \o Ttl \o LayerFields \o Ends

\* A packet with something to hash whose hash is in the range gets a record.
ExportRecord(t) ==
  /\ stage = "copied" /\ buffer # << >>
  /\ stage' = "done"
  /\ template' = t /\ record' = fields(t)
  /\ UNCHANGED <<pkt, offs, proto, headerOffset, layers, preset, buffer>>

\* "packet does not contain Selection", or the hash is outside the range.
NoRecord ==
  /\ stage = "copied"
  /\ stage' = "done"
  /\ UNCHANGED <<pkt, offs, proto, headerOffset, layers, preset, buffer, recVars>>

Init ==
  /\ pkt \in Packets
  /\ preset \in Presets
  /\ stage = "net"
  /\ offs = 0 /\ proto = Unknown
  /\ headerOffset = [trans |-> -1, payload |-> -1]
  /\ layers = [net |-> 0, trans |-> Unknown]
  /\ buffer = << >>
  /\ template = "none" /\ record = << >>

Next ==
  \/ FindNet
  \/ SkipExtension
  \/ ExtensionsDone
  \/ FindTransport
  \/ CopyFields
  \/ \E t \in DOMAIN get_template : ExportRecord(t)
  \/ NoRecord

Spec == Init /\ [][Next]_vars

-----------------------------------------------------------------------------
(* Properties                                                              *)

\* Types of findHeaders' and the presets' state.
TypeOK ==
  /\ pkt \in Packets
  /\ stage \in {"net", "extensions", "transport", "copy", "copied", "done"}
  /\ offs \in Nat
  /\ proto \in Protocols \cup {Unknown}
  /\ headerOffset \in [trans : Nat \cup {-1}, payload : Nat \cup {-1}]
  /\ layers \in [net : {0, 4, 6}, trans : Protocols \cup {Unknown}]
  /\ preset \in Presets
  /\ Len(buffer) <= 39 + 50   \* IPv6 fields and the rest of PACKET
  /\ \A i \in DOMAIN buffer : buffer[i] \in Nat
  /\ template \in DOMAIN get_template \cup {"none"}
  /\ \A i \in DOMAIN record : record[i].length \in Nat

\* The transport header is where the packet has it, with its protocol, if that
\* much was captured: for IPv4 and for IPv6 without extension headers.
TransportFound ==
  stage = "done" /\ pkt.version # 0 /\ pkt.ext = << >> =>
    IF TransportStart(pkt) < pkt.len
    THEN headerOffset.trans = TransportStart(pkt) /\ layers.trans = pkt.proto
    ELSE headerOffset.trans = -1

\* "IPv6 skip options" (hash.c): the same with extension headers.
OptionsSkipped ==
  stage = "done" /\ pkt.version = 6 /\ TransportStart(pkt) < pkt.len =>
    headerOffset.trans = TransportStart(pkt) /\ layers.trans = pkt.proto

\* Whatever the packet, a payload lies behind its transport header and inside the
\* captured bytes, so the length passed to copyFields_Select is positive.
OffsetsOrdered ==
  /\ headerOffset.trans < pkt.len
  /\ headerOffset.payload # -1 =>
       /\ headerOffset.trans # -1
       /\ headerOffset.trans <= headerOffset.payload
       /\ headerOffset.payload < pkt.len

\* What may differ between two probes on the path of a packet: the fields every
\* router rewrites (TTL and header checksum, or hop limit), IPv4 options such as
\* record route, and the TOS byte or traffic class where traffic is remarked.
Rewritten(p) == CASE p.version = 4 -> {8, 10, 11} [] p.version = 6 -> {7} [] OTHER -> {}
Options(p)   == IF p.version = 4 THEN 20..(p.header - 1) ELSE {}
Remarked(p)  == CASE p.version = 4 -> {1} [] p.version = 6 -> {0, 1} [] OTHER -> {}

\* Routers forward no IPv4 packet whose header is shorter than 20 bytes (RFC 1812);
\* findHeaders does not look.
Forwarded(p) == p.version = 4 => p.header >= 20

\* "we choose the fields of IP Header which are static between hops" (hash.c): how
\* far that goes, wherever the transport header is found.  No preset takes a field
\* that every router rewrites; all but PACKET keep out of IPv4 options; only REC8
\* keeps out of the TOS byte, which IP, IP+TP and PACKET hash.  Positions, not
\* values: where a preset reads behind the captured bytes nothing is said.
HopInvariant ==
  Forwarded(pkt) =>
    \A i \in DOMAIN buffer :
      /\ buffer[i] \notin Rewritten(pkt)
      /\ preset # "PACKET" => buffer[i] \notin Options(pkt)
      /\ preset = "REC8" => buffer[i] \notin Remarked(pkt)

\* The variable each information element is filled from, the packet's bytes for
\* those that are copied out of it.
Origin(ie) ==
  CASE ie = "TIME" -> "timestamp" [] ie = "HASH" -> "hash_id"
    [] ie = "PROTOCOL" -> "layers[L_TRANS]" [] ie = "VERSION" -> "layers[L_NET]"
    [] OTHER -> "packet"

\* Where the bytes of an information element are in an IPv4 packet (RFC 791; ports
\* are the first four bytes of a transport header that has ports).
Meaning(ie, p) ==
  LET Port(o) == IF p.proto \in {"udp", "tcp", "sctp"} /\ TransportStart(p) < p.len
                 THEN Piece(TransportStart(p) + o, 2) ELSE << >>
  IN  CASE ie = "TTL" -> <<8>> [] ie = "TOTALLENGTH" -> <<2, 3>>
        [] ie = "SRCADDR" -> <<12, 13, 14, 15>> [] ie = "DSTADDR" -> <<16, 17, 18, 19>>
        [] ie = "SRCPORT" -> Port(0) [] ie = "DSTPORT" -> Port(2)
        [] OTHER -> << >>

\* A record has the fields of its template, in the template's order and sizes, each
\* filled from the variable its information element stands for: a collector
\* decodes it by the template alone.  For IPv4, options included, the bytes are
\* those of the element, the version is 4, and the protocol is the packet's if the
\* transport header was captured; otherwise 0 is exported, not the protocol field.
RecordMatchesTemplate ==
  template # "none" =>
    LET ies == get_template[template]
    IN  /\ Len(record) = Len(ies)
        /\ \A i \in DOMAIN record :
             record[i].length = ies[i][2] /\ record[i].source = Origin(ies[i][1])
        /\ pkt.version = 4 =>
             /\ \A i \in DOMAIN record : record[i].at = Meaning(ies[i][1], pkt)
             /\ layers.net = 4
             /\ layers.trans = IF TransportStart(pkt) < pkt.len THEN pkt.proto ELSE Unknown
=============================================================================
