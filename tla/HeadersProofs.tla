---------------------------- MODULE HeadersProofs ----------------------------
(***************************************************************************)
(* Proofs about Headers, for packets of every length and every content:    *)
(* where findHeaders sees the transport header and the payload, which      *)
(* bytes the presets select, and that a record is what its template says.  *)
(***************************************************************************)
EXTENDS Headers, SequenceTheorems, TLAPS

-----------------------------------------------------------------------------
(* The packet                                                              *)

\* The fields of a packet.
LEMMA PacketTypes ==
  ASSUME NEW p \in Packets
  PROVE  /\ p.version \in {0, 4, 6} /\ p.header \in Nat
         /\ p.ext \in Seq([type : Extensions, hlen : Nat])
         /\ p.proto \in Transports \cup {Unknown} /\ p.first \in Protocols
         /\ p.doff \in Nat /\ p.len \in Nat
<1>1. p \in Packet
  BY HeadersAssumption
<1>. QED
  BY <1>1 DEF Packet

\* The fields of an extension header.
LEMMA ExtensionTypes ==
  ASSUME NEW p \in Packets, NEW i \in 1..Len(p.ext)
  PROVE  p.ext[i].type \in Extensions /\ p.ext[i].hlen \in Nat
<1>. DEFINE R == [type : Extensions, hlen : Nat]
<1>1. p.ext \in Seq(R)
  BY PacketTypes
<1>2. p.ext[i] \in R
  <2>. HIDE DEF R
  <2>. QED
    BY <1>1, ElementOfSeq
<1>. QED
  BY <1>2

\* Extension headers are not transport protocols, and neither is Unknown.
LEMMA ProtocolNames ==
  /\ Transports \subseteq Protocols /\ Extensions \subseteq Protocols
  /\ Transports \cap Extensions = {}
  /\ Unknown \notin Protocols
BY DEF Protocols, Transports, Extensions, Unknown

\* Whatever byte the loop reads, it is some protocol number and some length.
LEMMA NextHeaderTypes ==
  ASSUME NEW p \in Packets, NEW i \in Nat
  PROVE  NextHeader(p, i) \in Protocols \cup {Unknown}
<1>1. CASE i < Len(p.ext)
  <2>1. i + 1 \in 1..Len(p.ext)
    BY <1>1, PacketTypes, LenProperties
  <2>2. NextHeader(p, i) = p.ext[i + 1].type
    BY <1>1 DEF NextHeader
  <2>. QED
    BY <2>1, <2>2, ExtensionTypes, ProtocolNames
<1>2. CASE ~(i < Len(p.ext))
  BY <1>2, PacketTypes, ProtocolNames DEF NextHeader
<1>. QED
  BY <1>1, <1>2

\* A byte read as a protocol number is one, a length is a natural number.
LEMMA ByteTypes ==
  ASSUME NEW p \in Packets, NEW o
  PROVE  ByteAt(p, o) \subseteq Protocols \cup {Unknown} /\ LengthAt(p, o) \subseteq Nat
<1>1. ByteAt(p, o) \subseteq Protocols \cup {Unknown}
  <2>1. \A i \in 1..Len(p.ext) : NextHeader(p, i) \in Protocols \cup {Unknown}
    BY NextHeaderTypes
  <2>2. p.first \in Protocols
    BY PacketTypes
  <2>. QED
    BY <2>1, <2>2 DEF ByteAt
<1>2. LengthAt(p, o) \subseteq Nat
  <2>1. \A i \in 1..Len(p.ext) : p.ext[i].hlen \in Nat
    BY ExtensionTypes
  <2>2. LengthBytes \subseteq Nat
    BY HeadersAssumption
  <2>. QED
    BY <2>1, <2>2 DEF LengthAt
<1>. QED
  BY <1>1, <1>2

\* Without extension headers the transport header follows the fixed header.
LEMMA StartWithoutExtensions ==
  ASSUME NEW p \in Packets, p.ext = << >>, p.version = 6
  PROVE  TransportStart(p) = IP6_HLEN
<1>. DEFINE f == [j \in 0..Len(p.ext) |-> IP6_HLEN]
            S(g) == [j \in 0..Len(p.ext) |->
                       IF j = 0 THEN IP6_HLEN ELSE g[j-1] + ExtSize(p.ext[j])]
            sum == CHOOSE g : g = S(g)
<1>1. Len(p.ext) = 0 /\ 0..Len(p.ext) = {0}
  OBVIOUS
<1>2. f = S(f)
  BY <1>1
<1>3. sum = S(sum)
  <2>. HIDE DEF S, f
  <2>. QED
    BY <1>2
<1>4. sum[0] = IP6_HLEN
  <2>. HIDE DEF sum
  <2>1. S(sum)[0] = IP6_HLEN
    BY <1>1
  <2>. HIDE DEF S
  <2>. QED
    BY <1>3, <2>1
<1>5. TransportStart(p) = sum[0]
  <2>1. TransportStart(p) = ExtStart(p, 1)
    BY <1>1 DEF TransportStart
  <2>2. ExtStart(p, 1) = sum[1 - 1]
    BY DEF ExtStart
  <2>. QED
    BY <2>1, <2>2
<1>. QED
  BY <1>4, <1>5

-----------------------------------------------------------------------------
(* Selected bytes                                                          *)

\* Pieces of a packet select the positions they name.
LEMMA PieceIn ==
  ASSUME NEW S, NEW o \in Int, NEW n \in Nat, \A x \in Int : o <= x /\ x < o + n => x \in S
  PROVE  Piece(o, n) \in Seq(S) /\ Len(Piece(o, n)) = n /\ Len(Piece(o, n)) <= n
<1>1. \A i \in 1..n : o + i - 1 \in S
  OBVIOUS
<1>2. Piece(o, n) \in [1..n -> S]
  BY <1>1 DEF Piece
<1>. QED
  BY <1>2

\* The positions preset q may select of packet p.
Excluded(p, q) ==
  Rewritten(p) \cup (IF q # "PACKET" THEN Options(p) ELSE {})
               \cup (IF q = "REC8" THEN Remarked(p) ELSE {})
Safe(p, q) == {x \in Nat : Forwarded(p) => x \notin Excluded(p, q)}

\* What is excluded lies in the fixed header or among the options.
LEMMA ExcludedOnly ==
  ASSUME NEW p \in Packets, NEW q, NEW x \in Excluded(p, q)
  PROVE  /\ p.version = 4 => \/ x \in {8, 10, 11}
                             \/ q # "PACKET" /\ x >= 20 /\ x < p.header
                             \/ q = "REC8" /\ x = 1
         /\ p.version = 6 => x = 7 \/ (q = "REC8" /\ x \in {0, 1})
         /\ p.version # 0
<1>1. p.version \in {0, 4, 6} /\ p.header \in Nat
  BY PacketTypes
<1>2. CASE x \in Rewritten(p)
  <2>1. /\ p.version = 4 => Rewritten(p) = {8, 10, 11}
        /\ p.version = 6 => Rewritten(p) = {7}
        /\ p.version = 0 => Rewritten(p) = {}
    BY DEF Rewritten
  <2>2. CASE p.version = 4
    <3>1. x \in {8, 10, 11}
      BY <1>2, <2>1, <2>2
    <3>2. p.version # 6 /\ p.version # 0
      BY <2>2
    <3>. QED
      BY <3>1, <3>2, Zenon
  <2>3. CASE p.version = 6
    <3>1. x = 7
      BY <1>2, <2>1, <2>3
    <3>2. p.version # 4 /\ p.version # 0
      BY <2>3
    <3>. QED
      BY <3>1, <3>2, Zenon
  <2>4. p.version # 0
    BY <1>2, <2>1
  <2>. QED
    BY <1>1, <2>2, <2>3, <2>4, Zenon
<1>3. CASE q # "PACKET" /\ x \in Options(p)
  <2>1. /\ p.version = 4 => Options(p) = 20..(p.header - 1)
        /\ p.version # 4 => Options(p) = {}
    BY DEF Options
  <2>2. p.version = 4 /\ x \in 20..(p.header - 1)
    BY <1>3, <2>1
  <2>3. x >= 20 /\ x < p.header
    BY <1>1, <2>2
  <2>4. p.version # 6 /\ p.version # 0
    BY <2>2
  <2>. QED
    BY <1>3, <2>3, <2>4, Zenon
<1>4. CASE q = "REC8" /\ x \in Remarked(p)
  <2>1. /\ p.version = 4 => Remarked(p) = {1}
        /\ p.version = 6 => Remarked(p) = {0, 1}
        /\ p.version = 0 => Remarked(p) = {}
    BY DEF Remarked
  <2>. QED
    BY <1>1, <1>4, <2>1
<1>. QED
  BY <1>2, <1>3, <1>4 DEF Excluded

\* What the loop has found out when it copies.
Located ==
  /\ pkt \in Packets
  /\ layers.net = pkt.version
  /\ headerOffset.trans \in Nat \cup {-1} /\ headerOffset.trans < pkt.len
  /\ headerOffset.trans # -1 => pkt.version \in {4, 6}
  /\ headerOffset.trans # -1 /\ pkt.version = 4 => headerOffset.trans = pkt.header
  /\ headerOffset.trans # -1 /\ pkt.version = 6 => headerOffset.trans >= IP6_HLEN

\* The transport header is safe for every preset, and for PACKET all from byte 20.
LEMMA SafeBehind ==
  ASSUME Located, NEW x \in Nat,
         \/ preset = "PACKET" /\ x >= 20
         \/ headerOffset.trans # -1 /\ x >= headerOffset.trans
  PROVE  x \in Safe(pkt, preset)
<1>. SUFFICES ASSUME Forwarded(pkt), x \in Excluded(pkt, preset) PROVE FALSE
  BY DEF Safe
<1>1. pkt \in Packets /\ pkt.version \in {0, 4, 6} /\ pkt.header \in Nat
  BY PacketTypes DEF Located
<1>2. /\ pkt.version = 4 => \/ x \in {8, 10, 11}
                            \/ preset # "PACKET" /\ x >= 20 /\ x < pkt.header
                            \/ preset = "REC8" /\ x = 1
      /\ pkt.version = 6 => x = 7 \/ (preset = "REC8" /\ x \in {0, 1})
      /\ pkt.version # 0
  BY <1>1, ExcludedOnly, Zenon
<1>3. CASE pkt.version = 4
  <2>1. pkt.header >= 20
    BY <1>3 DEF Forwarded
  <2>2. CASE preset = "PACKET" /\ x >= 20
    BY <1>2, <1>3, <2>2
  <2>3. CASE headerOffset.trans # -1 /\ x >= headerOffset.trans
    <3>1. x >= pkt.header
      BY <1>3, <2>3 DEF Located
    <3>. QED
      BY <1>1, <1>2, <1>3, <2>1, <3>1
  <2>. QED
    BY <2>2, <2>3
<1>4. CASE pkt.version = 6
  <2>1. x >= 20
    BY <1>4 DEF Located, IP6_HLEN
  <2>. QED
    BY <1>2, <1>4, <2>1
<1>. QED
  BY <1>1, <1>2, <1>3, <1>4

\* Pieces at or behind the transport header are safe.
LEMMA TransportPiece ==
  ASSUME Located, headerOffset.trans # -1, NEW o \in Int, headerOffset.trans <= o, NEW n \in Nat
  PROVE  Piece(o, n) \in Seq(Safe(pkt, preset)) /\ Len(Piece(o, n)) <= n
<1>1. headerOffset.trans \in Nat
  BY DEF Located
<1>2. ASSUME NEW x \in Int, o <= x PROVE x \in Safe(pkt, preset)
  <2>1. x \in Nat /\ x >= headerOffset.trans
    BY <1>1, <1>2
  <2>. QED
    BY <2>1, SafeBehind
<1>3. \A x \in Int : o <= x /\ x < o + n => x \in Safe(pkt, preset)
  BY <1>2
<1>. QED
  BY <1>3, PieceIn, Zenon

\* The fields of an IPv4 header without TTL and checksum.
LEMMA Fields4 ==
  ASSUME NEW S, \A x \in Nat : x < 20 /\ x \notin {8, 10, 11} => x \in S
  PROVE  /\ Piece(0, 8) \o Piece(9, 1) \o Piece(12, 8) \in Seq(S)
         /\ Len(Piece(0, 8) \o Piece(9, 1) \o Piece(12, 8)) <= 39
<1>1. Piece(0, 8) \in Seq(S) /\ Len(Piece(0, 8)) <= 8
  <2>1. \A x \in Int : 0 <= x /\ x < 0 + 8 => x \in S
    OBVIOUS
  <2>2. 0 \in Int /\ 8 \in Nat
    OBVIOUS
  <2>. QED
    BY <2>1, <2>2, PieceIn, Zenon
<1>2. Piece(9, 1) \in Seq(S) /\ Len(Piece(9, 1)) <= 1
  <2>1. \A x \in Int : 9 <= x /\ x < 9 + 1 => x \in S
    OBVIOUS
  <2>2. 9 \in Int /\ 1 \in Nat
    OBVIOUS
  <2>. QED
    BY <2>1, <2>2, PieceIn, Zenon
<1>3. Piece(12, 8) \in Seq(S) /\ Len(Piece(12, 8)) <= 8
  <2>1. \A x \in Int : 12 <= x /\ x < 12 + 8 => x \in S
    OBVIOUS
  <2>2. 12 \in Int /\ 8 \in Nat
    OBVIOUS
  <2>. QED
    BY <2>1, <2>2, PieceIn, Zenon
<1>. DEFINE a == Piece(0, 8)
            b == Piece(9, 1)
            c == Piece(12, 8)
<1>. HIDE DEF a, b, c
<1>4. a \in Seq(S) /\ Len(a) <= 8 /\ b \in Seq(S) /\ Len(b) <= 1 /\ c \in Seq(S) /\ Len(c) <= 8
  BY <1>1, <1>2, <1>3, Zenon DEF a, b, c
<1>5. (a \o b) \o c \in Seq(S) /\ Len((a \o b) \o c) <= 39
  BY <1>4
<1>. QED
  BY <1>5 DEF a, b, c

\* The fields of an IPv6 header without the hop limit.
LEMMA Fields6 ==
  ASSUME NEW S, \A x \in Nat : x # 7 => x \in S
  PROVE  /\ Piece(0, 7) \o Piece(8, 32) \in Seq(S)
         /\ Len(Piece(0, 7) \o Piece(8, 32)) <= 39
<1>1. Piece(0, 7) \in Seq(S) /\ Len(Piece(0, 7)) <= 7
  <2>1. \A x \in Int : 0 <= x /\ x < 0 + 7 => x \in S
    OBVIOUS
  <2>2. 0 \in Int /\ 7 \in Nat
    OBVIOUS
  <2>. QED
    BY <2>1, <2>2, PieceIn, Zenon
<1>2. Piece(8, 32) \in Seq(S) /\ Len(Piece(8, 32)) <= 32
  <2>1. \A x \in Int : 8 <= x /\ x < 8 + 32 => x \in S
    OBVIOUS
  <2>2. 8 \in Int /\ 32 \in Nat
    OBVIOUS
  <2>. QED
    BY <2>1, <2>2, PieceIn, Zenon
<1>. DEFINE a == Piece(0, 7)
            b == Piece(8, 32)
<1>. HIDE DEF a, b
<1>3. a \in Seq(S) /\ Len(a) <= 7 /\ b \in Seq(S) /\ Len(b) <= 32
  BY <1>1, <1>2, Zenon DEF a, b
<1>4. a \o b \in Seq(S) /\ Len(a \o b) <= 39
  BY <1>3
<1>. QED
  BY <1>4 DEF a, b

\* The fields of the network header leave out what every router rewrites.
LEMMA NetFieldsSafe ==
  ASSUME Located, preset # "REC8"
  PROVE  copy_NetFields \in Seq(Safe(pkt, preset)) /\ Len(copy_NetFields) <= 39
<1>1. pkt.version \in {0, 4, 6} /\ pkt \in Packets /\ pkt.header \in Nat
  BY PacketTypes DEF Located
<1>2. CASE pkt.version = 4
  <2>1. \A x \in Nat : x < 20 /\ x \notin {8, 10, 11} => x \notin Excluded(pkt, preset)
    BY <1>1, <1>2, ExcludedOnly
  <2>2. \A x \in Nat : x < 20 /\ x \notin {8, 10, 11} => x \in Safe(pkt, preset)
    BY <2>1 DEF Safe
  <2>3. copy_NetFields = Piece(0, 8) \o Piece(9, 1) \o Piece(12, 8)
    BY <1>2 DEF copy_NetFields, Located
  <2>. QED
    BY <2>2, <2>3, Fields4
<1>3. CASE pkt.version = 6
  <2>1. \A x \in Nat : x # 7 => x \notin Excluded(pkt, preset)
    BY <1>1, <1>3, ExcludedOnly
  <2>2. \A x \in Nat : x # 7 => x \in Safe(pkt, preset)
    BY <2>1 DEF Safe
  <2>3. copy_NetFields = Piece(0, 7) \o Piece(8, 32)
    BY <1>3 DEF copy_NetFields, Located
  <2>. QED
    BY <2>2, <2>3, Fields6
<1>4. CASE pkt.version = 0
  <2>1. copy_NetFields = << >>
    BY <1>4 DEF copy_NetFields, Located
  <2>. QED
    BY <2>1
<1>. QED
  BY <1>1, <1>2, <1>3, <1>4

\* Short selections one after the other.
Short(S) == {s \in Seq(S) : Len(s) <= 20}

\* Up to four short pieces are at most 89 bytes.
LEMMA ShortJoined ==
  ASSUME NEW S, NEW a \in Short(S), NEW b \in Short(S), NEW c \in Short(S), NEW d \in Short(S)
  PROVE  /\ a \o (b \o c) \in Seq(S) /\ Len(a \o (b \o c)) <= 89
         /\ a \o ((b \o c) \o d) \in Seq(S) /\ Len(a \o ((b \o c) \o d)) <= 89
         /\ a \o << >> \in Seq(S) /\ Len(a \o << >>) <= 89
<1>1. /\ a \in Seq(S) /\ Len(a) <= 20 /\ b \in Seq(S) /\ Len(b) <= 20
      /\ c \in Seq(S) /\ Len(c) <= 20 /\ d \in Seq(S) /\ Len(d) <= 20
  BY DEF Short
<1>. PICK e : e = b \o c
  OBVIOUS
<1>2. e \in Seq(S) /\ Len(e) <= 40
  BY <1>1
<1>3. e \o d \in Seq(S) /\ Len(e \o d) <= 60
  BY <1>1, <1>2
<1>. QED
  BY <1>1, <1>2, <1>3

\* A piece of at most 20 positions is short.
LEMMA ShortPiece ==
  ASSUME Located, headerOffset.trans # -1, NEW o \in Int, headerOffset.trans <= o,
         NEW n \in 0..20
  PROVE  Piece(o, n) \in Short(Safe(pkt, preset))
<1>. PICK S : S = Safe(pkt, preset)
  OBVIOUS
<1>. PICK p : p = Piece(o, n)
  OBVIOUS
<1>. n \in Nat /\ n <= 20
  OBVIOUS
<1>1. Piece(o, n) \in Seq(Safe(pkt, preset)) /\ Len(Piece(o, n)) <= n
  BY TransportPiece, Zenon
<1>2. p \in Seq(S) /\ Len(p) <= n
  BY <1>1
<1>3. Len(p) \in Nat
  BY <1>2, LenProperties, Zenon
<1>4. Len(p) <= 20
  BY <1>2, <1>3
<1>. QED
  BY <1>2, <1>4 DEF Short

\* REC8 takes the identification and fields of the transport header.
LEMMA RecSafe ==
  ASSUME Located
  PROVE  copyFields_Rec \in Seq(Safe(pkt, preset)) /\ Len(copyFields_Rec) <= 89
<1>. PICK t : t = headerOffset.trans
  OBVIOUS
<1>. PICK S : S = Safe(pkt, preset)
  OBVIOUS
<1>1. CASE ~HasTransport \/ layers.net # 4
  <2>1. copyFields_Rec = << >>
    BY <1>1 DEF copyFields_Rec
  <2>. QED
    BY <2>1
<1>2. CASE HasTransport /\ layers.net = 4
  <2>1. t # -1 /\ t \in Nat /\ pkt.version = 4
    BY <1>2 DEF HasTransport, Located
  <2>2. Piece(4, 2) \in Short(S)
    <3>1. ASSUME NEW x \in Int, 4 <= x, x < 4 + 2 PROVE x \in S
      <4>1. pkt \in Packets /\ pkt.header \in Nat
        BY PacketTypes DEF Located
      <4>2. x \notin Excluded(pkt, preset)
        BY <2>1, <3>1, <4>1, ExcludedOnly
      <4>. QED
        BY <3>1, <4>2 DEF Safe
    <3>2. \A x \in Int : 4 <= x /\ x < 4 + 2 => x \in S
      BY <3>1
    <3>3. 4 \in Int /\ 2 \in Nat
      OBVIOUS
    <3>. PICK p : p = Piece(4, 2)
      OBVIOUS
    <3>4. p \in Seq(S) /\ Len(p) <= 2
      BY <3>2, <3>3, PieceIn, Zenon
    <3>5. Len(p) <= 20
      BY <3>4
    <3>. QED
      BY <3>4, <3>5 DEF Short
  <2>3. /\ Piece(t + 6, 2) \in Short(S) /\ Piece(t + 10, 2) \in Short(S)
        /\ Piece(t + 16, 2) \in Short(S) /\ Piece(t, 2) \in Short(S)
        /\ Piece(t + 3, 1) \in Short(S) /\ Piece(t + 5, 3) \in Short(S)
        /\ Piece(t + 2, 2) \in Short(S) /\ Piece(t + 12, 4) \in Short(S)
    <3>1. /\ t + 6 \in Int /\ t + 10 \in Int /\ t + 16 \in Int /\ t \in Int
          /\ t + 3 \in Int /\ t + 5 \in Int /\ t + 2 \in Int /\ t + 12 \in Int
          /\ t <= t + 6 /\ t <= t + 10 /\ t <= t + 16 /\ t <= t
          /\ t <= t + 3 /\ t <= t + 5 /\ t <= t + 2 /\ t <= t + 12
          /\ 1 \in 0..20 /\ 2 \in 0..20 /\ 3 \in 0..20 /\ 4 \in 0..20
      BY <2>1
    <3>. QED
      BY <2>1, <3>1, ShortPiece, Zenon
  <2>4. CASE layers.trans = "tcp"
    <3>1. copyFields_Rec = Piece(4, 2) \o ((Piece(t + 6, 2) \o Piece(t + 10, 2)) \o Piece(t + 16, 2))
      BY <1>2, <2>4 DEF copyFields_Rec
    <3>. QED
      BY <2>2, <2>3, <3>1, ShortJoined, Zenon
  <2>5. CASE layers.trans = "udp"
    <3>1. copyFields_Rec = Piece(4, 2) \o ((Piece(t, 2) \o Piece(t + 3, 1)) \o Piece(t + 5, 3))
      BY <1>2, <2>5 DEF copyFields_Rec
    <3>. QED
      BY <2>2, <2>3, <3>1, ShortJoined, Zenon
  <2>6. CASE layers.trans \in {"icmp", "icmp6"}
    <3>1. copyFields_Rec = Piece(4, 2) \o (Piece(t + 2, 2) \o Piece(t + 12, 4))
      BY <1>2, <2>6 DEF copyFields_Rec
    <3>. QED
      BY <2>2, <2>3, <3>1, ShortJoined, Zenon
  <2>7. CASE layers.trans \notin {"tcp", "udp", "icmp", "icmp6"}
    <3>1. copyFields_Rec = Piece(4, 2) \o << >>
      BY <1>2, <2>7 DEF copyFields_Rec
    <3>. QED
      BY <2>2, <3>1, ShortJoined, Zenon
  <2>. QED
    BY <2>4, <2>5, <2>6, <2>7
<1>. QED
  BY <1>1, <1>2

\* IP+TP takes the network fields and the first bytes of the transport header.
LEMMA TransportFieldsSafe ==
  ASSUME Located, preset = "IP+TP"
  PROVE  copyFields_U_TCP_and_Net \in Seq(Safe(pkt, preset)) /\ Len(copyFields_U_TCP_and_Net) <= 89
<1>. PICK t : t = headerOffset.trans
  OBVIOUS
<1>. PICK S : S = Safe(pkt, preset)
  OBVIOUS
<1>. PICK f : f = copy_NetFields
  OBVIOUS
<1>1. CASE ~HasTransport
  <2>1. copyFields_U_TCP_and_Net = << >>
    BY <1>1 DEF copyFields_U_TCP_and_Net
  <2>. QED
    BY <2>1
<1>2. CASE HasTransport
  <2>1. t # -1 /\ t \in Nat /\ t < pkt.len /\ pkt.len \in Nat
    BY <1>2, PacketTypes DEF HasTransport, Located
  <2>2. f \in Seq(S) /\ Len(f) <= 39
    BY NetFieldsSafe
  <2>3. PICK p \in Short(S) : copyFields_U_TCP_and_Net = f \o p
    <3>1. AtMost(20, pkt.len - t) \in 0..20 /\ AtMost(8, pkt.len - t) \in 0..20
      BY <2>1 DEF AtMost
    <3>2. t \in Int /\ t <= t
      BY <2>1
    <3>3. Piece(t, AtMost(20, pkt.len - t)) \in Short(S) /\ Piece(t, AtMost(8, pkt.len - t)) \in Short(S)
      BY <2>1, <3>1, <3>2, ShortPiece, Zenon
    <3>4. << >> \in Short(S)
      BY DEF Short
    <3>5. CASE layers.trans \in {"tcp", "icmp", "icmp6"}
      BY <1>2, <3>3, <3>5 DEF copyFields_U_TCP_and_Net
    <3>6. CASE layers.trans = "udp"
      BY <1>2, <3>3, <3>6 DEF copyFields_U_TCP_and_Net
    <3>7. CASE layers.trans \notin {"tcp", "icmp", "icmp6", "udp"}
      BY <1>2, <3>4, <3>7 DEF copyFields_U_TCP_and_Net
    <3>. QED
      BY <3>5, <3>6, <3>7
  <2>4. p \in Seq(S) /\ Len(p) <= 20
    BY DEF Short
  <2>. QED
    BY <2>2, <2>3, <2>4
<1>. QED
  BY <1>1, <1>2

\* A piece whose positions from o on are all in S.
LEMMA PieceFrom ==
  ASSUME NEW S, NEW o \in Int, NEW n \in Nat, \A x \in Int : o <= x => x \in S
  PROVE  Piece(o, n) \in Seq(S) /\ Len(Piece(o, n)) <= n
<1>1. \A x \in Int : o <= x /\ x < o + n => x \in S
  OBVIOUS
<1>. QED
  BY <1>1, PieceIn, Zenon

\* The fixed part and up to 50 bytes.
LEMMA JoinedWithin ==
  ASSUME NEW S, NEW f \in Seq(S), NEW p \in Seq(S), Len(f) <= 39, Len(p) <= 50
  PROVE  f \o p \in Seq(S) /\ Len(f \o p) <= 89
<1>1. f \o p \in Seq(S) /\ Len(f \o p) = Len(f) + Len(p)
  BY ConcatProperties, Zenon
<1>2. Len(f) \in Nat /\ Len(p) \in Nat
  BY LenProperties, Zenon
<1>. QED
  BY <1>1, <1>2

\* PACKET takes the network fields and up to 50 bytes from byte 20 on.
LEMMA PacketSafe ==
  ASSUME Located, preset = "PACKET"
  PROVE  copyFields_Packet \in Seq(Safe(pkt, preset)) /\ Len(copyFields_Packet) <= 89
<1>1. PICK n : n = IF pkt.len < 20 THEN 50 ELSE AtMost(pkt.len - 20, 50)
  OBVIOUS
<1>2. n \in Nat /\ n <= 50
  BY <1>1, PacketTypes DEF Located, AtMost
<1>3. copy_NetFields \in Seq(Safe(pkt, preset)) /\ Len(copy_NetFields) <= 39
  BY NetFieldsSafe
<1>4. ASSUME NEW x \in Int, 20 <= x PROVE x \in Safe(pkt, preset)
  <2>1. x \in Nat /\ x >= 20
    BY <1>4
  <2>. QED
    BY <2>1, SafeBehind
<1>5. PICK o \in Int : o = 20
  OBVIOUS
<1>6. \A x \in Int : o <= x => x \in Safe(pkt, preset)
  BY <1>4, <1>5
<1>7. Piece(o, n) \in Seq(Safe(pkt, preset)) /\ Len(Piece(o, n)) <= n
  BY <1>2, <1>6, PieceFrom, Zenon
<1>8. Len(Piece(o, n)) <= 50
  <2>1. Len(Piece(o, n)) \in Nat
    BY <1>7, LenProperties, Zenon
  <2>. QED
    BY <1>2, <1>7, <2>1
<1>9. copyFields_Packet = copy_NetFields \o Piece(o, n)
  BY <1>1, <1>5 DEF copyFields_Packet
<1>10. /\ copy_NetFields \o Piece(o, n) \in Seq(Safe(pkt, preset))
       /\ Len(copy_NetFields \o Piece(o, n)) <= 89
  BY <1>3, <1>7, <1>8, JoinedWithin, Zenon
<1>. QED
  BY <1>9, <1>10, Zenon

\* Every preset selects positions it may, and not too many.
LEMMA SelectionSafe ==
  ASSUME Located, preset \in Presets
  PROVE  selection_function \in Seq(Safe(pkt, preset)) /\ Len(selection_function) <= 89
<1>1. CASE preset = "REC8"
  BY <1>1, RecSafe DEF selection_function
<1>2. CASE preset = "IP"
  <2>. PICK f : f = copy_NetFields
    OBVIOUS
  <2>1. f \in Seq(Safe(pkt, preset)) /\ Len(f) <= 39
    BY <1>2, NetFieldsSafe
  <2>2. Len(f) <= 89
    BY <2>1
  <2>. QED
    BY <1>2, <2>1, <2>2 DEF selection_function
<1>3. CASE preset = "IP+TP"
  BY <1>3, TransportFieldsSafe DEF selection_function
<1>4. CASE preset = "PACKET"
  BY <1>4, PacketSafe DEF selection_function
<1>. QED
  BY <1>1, <1>2, <1>3, <1>4 DEF Presets

-----------------------------------------------------------------------------
(* Where the search is                                                     *)

\* Nothing is found before the transport header is reached.
NotYetFound ==
  stage \in {"net", "extensions", "transport"} =>
    headerOffset = [trans |-> -1, payload |-> -1] /\ layers.trans = Unknown

\* The network layer is known after the first step.
NetworkKnown ==
  /\ stage = "net" => layers.net = 0
  /\ stage # "net" => layers.net = pkt.version
  /\ stage = "extensions" => pkt.version = 6
  /\ stage = "transport" => pkt.version \in {4, 6}

\* Where the search is: behind the IPv4 header, or behind the fixed IPv6 header,
\* exactly there if no extension header follows.
SearchAt ==
  stage \in {"extensions", "transport"} =>
    /\ pkt.version = 4 => offs = pkt.header /\ proto = pkt.proto
    /\ pkt.version = 6 =>
         /\ offs >= IP6_HLEN
         /\ pkt.ext = << >> => offs = IP6_HLEN /\ proto = pkt.proto

\* The transport header of packet p is at o, if that much was captured.
FoundAt(p, o) ==
  IF o < p.len THEN headerOffset.trans = o /\ layers.trans = p.proto
  ELSE headerOffset.trans = -1 /\ layers.trans = Unknown

FoundThere ==
  stage \in {"copy", "copied", "done"} =>
    /\ pkt.version = 0 => headerOffset.trans = -1
    /\ pkt.version = 4 => FoundAt(pkt, pkt.header)
    /\ pkt.version = 6 =>
         /\ headerOffset.trans = -1 \/ headerOffset.trans >= IP6_HLEN
         /\ pkt.ext = << >> => FoundAt(pkt, IP6_HLEN)

-----------------------------------------------------------------------------
(* Records                                                                 *)

\* The templates -t can name.
LEMMA TemplateNames == DOMAIN get_template = {"ts", "min", "lp", "ls"}
BY DEF get_template

\* Tuples are their elements one after another.
LEMMA Tuple2 ==
  ASSUME NEW a, NEW b
  PROVE  <<a, b>> = <<a>> \o <<b>>
<1>. DEFINE S == {a, b}
            s == <<a>> \o <<b>>
<1>1. <<a>> \in Seq(S) /\ <<b>> \in Seq(S) /\ <<a, b>> \in Seq(S)
  OBVIOUS
<1>2. s \in Seq(S) /\ Len(s) = 2
  BY <1>1
<1>3. \A i \in 1..2 : s[i] = <<a, b>>[i]
  BY <1>1
<1>4. s = <<a, b>>
  BY <1>1, <1>2, <1>3, SeqEqual
<1>. QED
  BY <1>4

\* The same of three.
LEMMA Tuple3 ==
  ASSUME NEW a, NEW b, NEW c
  PROVE  <<a, b, c>> = <<a>> \o <<b>> \o <<c>>
<1>. DEFINE S == {a, b, c}
            s == <<a, b>> \o <<c>>
<1>1. <<a, b>> \in Seq(S) /\ <<c>> \in Seq(S) /\ <<a, b, c>> \in Seq(S)
  OBVIOUS
<1>2. s \in Seq(S) /\ Len(s) = 3
  BY <1>1
<1>3. \A i \in 1..3 : s[i] = <<a, b, c>>[i]
  BY <1>1
<1>4. s = <<a, b, c>>
  BY <1>1, <1>2, <1>3, SeqEqual
<1>. QED
  BY <1>4, Tuple2, Zenon

\* The same of four.
LEMMA Tuple4 ==
  ASSUME NEW a, NEW b, NEW c, NEW d
  PROVE  <<a, b, c, d>> = <<a>> \o <<b>> \o <<c>> \o <<d>>
<1>. DEFINE S == {a, b, c, d}
            s == <<a, b, c>> \o <<d>>
<1>1. <<a, b, c>> \in Seq(S) /\ <<d>> \in Seq(S) /\ <<a, b, c, d>> \in Seq(S)
  OBVIOUS
<1>2. s \in Seq(S) /\ Len(s) = 4
  BY <1>1
<1>3. \A i \in 1..4 : s[i] = <<a, b, c, d>>[i]
  BY <1>1
<1>4. s = <<a, b, c, d>>
  BY <1>1, <1>2, <1>3, SeqEqual
<1>5. <<a, b, c>> = <<a>> \o <<b>> \o <<c>>
  BY Tuple3
<1>. QED
  BY <1>4, <1>5

\* A field fits an information element, a sequence of fields a list of them.
Elements == {"TIME", "HASH", "TTL", "TOTALLENGTH", "PROTOCOL", "VERSION",
             "SRCADDR", "SRCPORT", "DSTADDR", "DSTPORT"}
Values == {"timestamp", "hash_id", "packet", "layers[L_TRANS]", "layers[L_NET]"}
Field == [length : Nat, source : Values, at : Seq(Int)]
Fits(f, ie) ==
  /\ f.length = ie[2] /\ f.source = Origin(ie[1])
  /\ pkt.version = 4 => f.at = Meaning(ie[1], pkt)
Matches(r, ies) ==
  /\ r \in Seq(Field) /\ ies \in Seq(Elements \X Nat) /\ Len(r) = Len(ies)
  /\ \A i \in 1..Len(r) : Fits(r[i], ies[i])

\* Fields that match can be joined.
LEMMA MatchJoined ==
  ASSUME NEW q, NEW r, NEW S, NEW T, Matches(q, S), Matches(r, T)
  PROVE  Matches(q \o r, S \o T)
<1>. DEFINE E == Elements \X Nat
            qr == q \o r
            ST == S \o T
<1>1. /\ q \in Seq(Field) /\ r \in Seq(Field) /\ S \in Seq(E) /\ T \in Seq(E)
      /\ Len(q) = Len(S) /\ Len(r) = Len(T) /\ Len(q) \in Nat /\ Len(r) \in Nat
  BY LenProperties DEF Matches
<1>. HIDE DEF E
<1>2. /\ qr \in Seq(Field) /\ Len(qr) = Len(q) + Len(r)
      /\ \A i \in 1..Len(qr) : qr[i] = IF i <= Len(q) THEN q[i] ELSE r[i - Len(q)]
  <2>1. q \in Seq(Field) /\ r \in Seq(Field)
    BY <1>1
  <2>. QED
    BY <2>1, ConcatProperties
<1>3. /\ ST \in Seq(E) /\ Len(ST) = Len(q) + Len(r)
      /\ \A i \in 1..Len(ST) : ST[i] = IF i <= Len(q) THEN S[i] ELSE T[i - Len(q)]
  BY <1>1, ConcatProperties
<1>. HIDE DEF qr, ST
<1>4. ASSUME NEW i \in 1..Len(qr) PROVE Fits(qr[i], ST[i])
  <2>1. CASE i <= Len(q)
    <3>1. i \in 1..Len(q)
      BY <1>1, <2>1
    <3>2. qr[i] = q[i] /\ ST[i] = S[i]
      BY <1>2, <1>3, <2>1
    <3>. QED
      BY <3>1, <3>2 DEF Matches
  <2>2. CASE ~(i <= Len(q))
    <3>1. i - Len(q) \in 1..Len(r)
      BY <1>1, <1>2, <2>2
    <3>2. qr[i] = r[i - Len(q)] /\ ST[i] = T[i - Len(q)]
      BY <1>2, <1>3, <2>2
    <3>. QED
      BY <3>1, <3>2 DEF Matches
  <2>. QED
    BY <2>1, <2>2
<1>. QED
  BY <1>2, <1>3, <1>4 DEF Matches, E, qr, ST

\* One field.
LEMMA MatchOne ==
  ASSUME NEW size \in Nat, NEW source \in Values, NEW at \in Seq(Int), NEW ie \in Elements,
         source = Origin(ie), pkt.version = 4 => at = Meaning(ie, pkt)
  PROVE  Matches(set_value(size, source, at), <<<<ie, size>>>>)
<1>. DEFINE f == [length |-> size, source |-> source, at |-> at]
            e == <<ie, size>>
<1>1. f \in Field /\ e \in Elements \X Nat
  BY Zenon DEF Field
<1>2. Fits(f, e)
  BY DEF Fits
<1>. HIDE DEF f, e
<1>3. <<f>> \in Seq(Field) /\ <<e>> \in Seq(Elements \X Nat) /\ Len(<<f>>) = 1 /\ Len(<<e>>) = 1
      /\ <<f>>[1] = f /\ <<e>>[1] = e
  BY <1>1
<1>4. \A i \in 1..1 : i = 1
  OBVIOUS
<1>5. Matches(<<f>>, <<e>>)
  BY <1>2, <1>3, <1>4 DEF Matches
<1>. QED
  BY <1>5 DEF f, e, set_value

\* The variable of each element.
LEMMA Origins ==
  /\ Origin("TIME") = "timestamp" /\ Origin("HASH") = "hash_id"
  /\ Origin("PROTOCOL") = "layers[L_TRANS]" /\ Origin("VERSION") = "layers[L_NET]"
  /\ \A ie \in {"TTL", "TOTALLENGTH", "SRCADDR", "SRCPORT", "DSTADDR", "DSTPORT"} :
       Origin(ie) = "packet"
BY DEF Origin

\* The first field of every template, and what the longer ones add.
LEMMA TimeAndHashMatch ==
  Matches(set_value(8, "timestamp", << >>) \o set_value(4, "hash_id", << >>), export_fields_ts)
<1>1. /\ 8 \in Nat /\ 4 \in Nat /\ "timestamp" \in Values /\ "hash_id" \in Values
      /\ << >> \in Seq(Int) /\ "TIME" \in Elements /\ "HASH" \in Elements
  BY DEF Elements, Values
<1>2. /\ Meaning("TIME", pkt) = << >> /\ Meaning("HASH", pkt) = << >>
      /\ "timestamp" = Origin("TIME") /\ "hash_id" = Origin("HASH")
  BY Origins DEF Meaning
<1>3. Matches(set_value(8, "timestamp", << >>), <<<<"TIME", 8>>>>)
  BY <1>1, <1>2, MatchOne, Zenon
<1>4. Matches(set_value(4, "hash_id", << >>), <<<<"HASH", 4>>>>)
  BY <1>1, <1>2, MatchOne, Zenon
<1>5. export_fields_ts = <<<<"TIME", 8>>>> \o <<<<"HASH", 4>>>>
  BY Tuple2, Zenon DEF export_fields_ts
<1>. QED
  BY <1>3, <1>4, <1>5, MatchJoined, Zenon

\* The bytes a piece stands for.
LEMMA Pieces ==
  ASSUME NEW o \in Int
  PROVE  /\ Piece(o, 2) = <<o, o + 1>> /\ Piece(o, 2) \in Seq(Int)
         /\ Piece(o, 4) = <<o, o + 1, o + 2, o + 3>> /\ Piece(o, 4) \in Seq(Int)
<1>1. Piece(o, 2) = <<o, o + 1>>
  BY DEF Piece
<1>2. Piece(o, 4) = <<o, o + 1, o + 2, o + 3>>
  BY DEF Piece
<1>3. <<o, o + 1>> \in Seq(Int) /\ <<o, o + 1, o + 2, o + 3>> \in Seq(Int)
  OBVIOUS
<1>. QED
  BY <1>1, <1>2, <1>3, Zenon

\* The TTL field of the templates min, lp and ls.
LEMMA TtlMatch ==
  ASSUME layers.net = pkt.version
  PROVE  Matches(set_value(1, "packet", get_ttl), <<<<"TTL", 1>>>>)
<1>1. 1 \in Nat /\ "packet" \in Values /\ "TTL" \in Elements
  BY DEF Elements, Values
<1>2. get_ttl \in Seq(Int)
  BY DEF get_ttl
<1>3. "packet" = Origin("TTL") /\ (pkt.version = 4 => get_ttl = Meaning("TTL", pkt))
  BY Origins DEF get_ttl, Meaning
<1>. QED
  BY <1>1, <1>2, <1>3, MatchOne, Zenon

\* The length and protocol fields of lp and ls.
LEMMA LayersMatch ==
  ASSUME layers.net = pkt.version
  PROVE  Matches(LayerFields,
                 <<<<"TOTALLENGTH", 2>>, <<"PROTOCOL", 1>>, <<"VERSION", 1>>>>)
<1>1. /\ 1 \in Nat /\ 2 \in Nat /\ "packet" \in Values /\ "TOTALLENGTH" \in Elements
      /\ "layers[L_TRANS]" \in Values /\ "layers[L_NET]" \in Values
      /\ "PROTOCOL" \in Elements /\ "VERSION" \in Elements /\ << >> \in Seq(Int)
  BY DEF Elements, Values
<1>2. /\ Piece(2, 2) = <<2, 2 + 1>> /\ Piece(2, 2) \in Seq(Int) /\ Piece(4, 2) \in Seq(Int)
  <2>1. 2 \in Int /\ 4 \in Int
    OBVIOUS
  <2>. QED
    BY <2>1, Pieces, Zenon
<1>3. get_ip_length \in Seq(Int)
  <2>1. CASE layers.net = 4
    BY <1>2, <2>1, Zenon DEF get_ip_length
  <2>2. CASE layers.net = 6
    BY <1>2, <2>2 DEF get_ip_length
  <2>3. CASE layers.net # 4 /\ layers.net # 6
    BY <2>3 DEF get_ip_length
  <2>. QED
    BY <2>1, <2>2, <2>3
<1>4. pkt.version = 4 => get_ip_length = Meaning("TOTALLENGTH", pkt)
  BY <1>2 DEF get_ip_length, Meaning
<1>5. /\ Meaning("PROTOCOL", pkt) = << >> /\ Meaning("VERSION", pkt) = << >>
      /\ "packet" = Origin("TOTALLENGTH")
      /\ "layers[L_TRANS]" = Origin("PROTOCOL") /\ "layers[L_NET]" = Origin("VERSION")
  BY Origins DEF Meaning
<1>6. Matches(set_value(2, "packet", get_ip_length), <<<<"TOTALLENGTH", 2>>>>)
  BY <1>1, <1>3, <1>4, <1>5, MatchOne, Zenon
<1>7. Matches(set_value(1, "layers[L_TRANS]", << >>), <<<<"PROTOCOL", 1>>>>)
  BY <1>1, <1>5, MatchOne, Zenon
<1>8. Matches(set_value(1, "layers[L_NET]", << >>), <<<<"VERSION", 1>>>>)
  BY <1>1, <1>5, MatchOne, Zenon
<1>9. <<<<"TOTALLENGTH", 2>>, <<"PROTOCOL", 1>>, <<"VERSION", 1>>>>
        = <<<<"TOTALLENGTH", 2>>>> \o <<<<"PROTOCOL", 1>>>> \o <<<<"VERSION", 1>>>>
  <2>1. \A x, y, z : <<x, y, z>> = <<x>> \o <<y>> \o <<z>>
    BY Tuple3
  <2>. QED
    BY <2>1
<1>10. Matches(set_value(2, "packet", get_ip_length) \o set_value(1, "layers[L_TRANS]", << >>),
               <<<<"TOTALLENGTH", 2>>>> \o <<<<"PROTOCOL", 1>>>>)
  BY <1>6, <1>7, MatchJoined, Zenon
<1>. QED
  BY <1>8, <1>9, <1>10, MatchJoined, Zenon DEF LayerFields

\* The addresses and ports: what findHeaders has found of an IPv4 packet is enough.
LEMMA EndsMatch ==
  ASSUME pkt \in Packets, layers.net = pkt.version, headerOffset.trans \in Int,
         pkt.version = 4 => FoundAt(pkt, pkt.header)
  PROVE  Matches(set_value(4, "packet", get_ipa(0))
                   \o set_value(2, "packet", get_port(headerOffset.trans))
                   \o set_value(4, "packet", get_ipa(4))
                   \o set_value(2, "packet", get_port(headerOffset.trans + 2)),
                 <<<<"SRCADDR", 4>>, <<"SRCPORT", 2>>, <<"DSTADDR", 4>>, <<"DSTPORT", 2>>>>)
<1>. PICK t : t = headerOffset.trans
  OBVIOUS
<1>1. /\ 2 \in Nat /\ 4 \in Nat /\ "packet" \in Values
      /\ "SRCADDR" \in Elements /\ "SRCPORT" \in Elements
      /\ "DSTADDR" \in Elements /\ "DSTPORT" \in Elements
      /\ "packet" = Origin("SRCADDR") /\ "packet" = Origin("SRCPORT")
      /\ "packet" = Origin("DSTADDR") /\ "packet" = Origin("DSTPORT")
  BY Origins DEF Elements, Values
<1>2. /\ get_ipa(0) \in Seq(Int) /\ get_ipa(4) \in Seq(Int)
      /\ pkt.version = 4 => get_ipa(0) = Meaning("SRCADDR", pkt)
      /\ pkt.version = 4 => get_ipa(4) = Meaning("DSTADDR", pkt)
  <2>1. ASSUME NEW o \in Int, NEW p, p = o + 12
        PROVE  /\ get_ipa(o) \in Seq(Int)
               /\ pkt.version = 4 => get_ipa(o) = <<p, p + 1, p + 2, p + 3>>
    <3>1. p \in Int
      BY <2>1
    <3>2. Piece(p, 4) = <<p, p + 1, p + 2, p + 3>> /\ Piece(p, 4) \in Seq(Int)
      BY <3>1, Pieces
    <3>3. get_ipa(o) = IF layers.net = 4 THEN Piece(p, 4) ELSE << >>
      BY <2>1 DEF get_ipa
    <3>. QED
      BY <3>2, <3>3
  <2>2. Meaning("SRCADDR", pkt) = <<12, 13, 14, 15>> /\ Meaning("DSTADDR", pkt) = <<16, 17, 18, 19>>
    BY DEF Meaning
  <2>3. /\ 0 \in Int /\ 12 = 0 + 12 /\ 12 + 1 = 13 /\ 12 + 2 = 14 /\ 12 + 3 = 15
        /\ 4 \in Int /\ 16 = 4 + 12 /\ 16 + 1 = 17 /\ 16 + 2 = 18 /\ 16 + 3 = 19
    OBVIOUS
  <2>4. get_ipa(0) \in Seq(Int) /\ (pkt.version = 4 => get_ipa(0) = <<12, 12 + 1, 12 + 2, 12 + 3>>)
    BY <2>1, <2>3, Zenon
  <2>5. get_ipa(4) \in Seq(Int) /\ (pkt.version = 4 => get_ipa(4) = <<16, 16 + 1, 16 + 2, 16 + 3>>)
    BY <2>1, <2>3, Zenon
  <2>. QED
    BY <2>2, <2>3, <2>4, <2>5
<1>3. /\ get_port(t) \in Seq(Int) /\ get_port(t + 2) \in Seq(Int)
      /\ pkt.version = 4 => get_port(t) = Meaning("SRCPORT", pkt)
      /\ pkt.version = 4 => get_port(t + 2) = Meaning("DSTPORT", pkt)
  <2>1. /\ Piece(t, 2) \in Seq(Int) /\ Piece(t + 2, 2) \in Seq(Int)
    <3>1. t \in Int /\ t + 2 \in Int
      OBVIOUS
    <3>. QED
      BY <3>1, Pieces, Zenon
  <2>2. get_port(t) \in Seq(Int) /\ get_port(t + 2) \in Seq(Int)
    <3>1. << >> \in Seq(Int)
      OBVIOUS
    <3>. QED
      BY <2>1, <3>1, Zenon DEF get_port
  <2>3. ASSUME pkt.version = 4
        PROVE  get_port(t) = Meaning("SRCPORT", pkt) /\ get_port(t + 2) = Meaning("DSTPORT", pkt)
    <3>. DEFINE Ports == {"udp", "tcp", "sctp"}
    <3>1. TransportStart(pkt) = pkt.header
      BY <2>3 DEF TransportStart
    <3>2. pkt.header \in Nat /\ pkt.len \in Nat
      BY PacketTypes
    <3>3. CASE pkt.header < pkt.len
      <4>1. t = pkt.header /\ layers.trans = pkt.proto
        BY <2>3, <3>3 DEF FoundAt
      <4>2. CASE pkt.proto \in Ports
        <5>1. get_port(t) = Piece(t, 2) /\ get_port(t + 2) = Piece(t + 2, 2)
          BY <4>1, <4>2 DEF get_port
        <5>2. /\ Meaning("SRCPORT", pkt) = Piece(t + 0, 2)
              /\ Meaning("DSTPORT", pkt) = Piece(t + 2, 2)
          BY <3>1, <3>3, <4>1, <4>2 DEF Meaning
        <5>3. t + 0 = t
          OBVIOUS
        <5>. QED
          BY <5>1, <5>2, <5>3
      <4>3. CASE pkt.proto \notin Ports
        BY <4>1, <4>3 DEF get_port, Meaning
      <4>. QED
        BY <4>2, <4>3
    <3>4. CASE ~(pkt.header < pkt.len)
      <4>1. layers.trans = "zero"
        BY <2>3, <3>4 DEF FoundAt, Unknown
      <4>2. get_port(t) = << >> /\ get_port(t + 2) = << >>
        BY <4>1 DEF get_port
      <4>3. Meaning("SRCPORT", pkt) = << >> /\ Meaning("DSTPORT", pkt) = << >>
        BY <3>1, <3>4 DEF Meaning
      <4>. QED
        BY <4>2, <4>3
    <3>. QED
      BY <3>3, <3>4
  <2>. QED
    BY <2>2, <2>3
<1>4. Matches(set_value(4, "packet", get_ipa(0)), <<<<"SRCADDR", 4>>>>)
  BY <1>1, <1>2, MatchOne, Zenon
<1>5. Matches(set_value(2, "packet", get_port(t)), <<<<"SRCPORT", 2>>>>)
  BY <1>1, <1>3, MatchOne, Zenon
<1>6. Matches(set_value(4, "packet", get_ipa(4)), <<<<"DSTADDR", 4>>>>)
  BY <1>1, <1>2, MatchOne, Zenon
<1>7. Matches(set_value(2, "packet", get_port(t + 2)), <<<<"DSTPORT", 2>>>>)
  BY <1>1, <1>3, MatchOne, Zenon
<1>8. <<<<"SRCADDR", 4>>, <<"SRCPORT", 2>>, <<"DSTADDR", 4>>, <<"DSTPORT", 2>>>>
        = <<<<"SRCADDR", 4>>>> \o <<<<"SRCPORT", 2>>>> \o <<<<"DSTADDR", 4>>>> \o <<<<"DSTPORT", 2>>>>
  <2>1. PICK x, y, z, w : /\ x = <<"SRCADDR", 4>> /\ y = <<"SRCPORT", 2>>
                          /\ z = <<"DSTADDR", 4>> /\ w = <<"DSTPORT", 2>>
    BY Zenon
  <2>2. <<x, y, z, w>> = <<x>> \o <<y>> \o <<z>> \o <<w>>
    BY Tuple4
  <2>. QED
    BY <2>1, <2>2, Zenon
<1>9. Matches(set_value(4, "packet", get_ipa(0)) \o set_value(2, "packet", get_port(t)),
              <<<<"SRCADDR", 4>>>> \o <<<<"SRCPORT", 2>>>>)
  BY <1>4, <1>5, MatchJoined, Zenon
<1>10. Matches(set_value(4, "packet", get_ipa(0)) \o set_value(2, "packet", get_port(t))
                 \o set_value(4, "packet", get_ipa(4)),
               <<<<"SRCADDR", 4>>>> \o <<<<"SRCPORT", 2>>>> \o <<<<"DSTADDR", 4>>>>)
  BY <1>6, <1>9, MatchJoined, Zenon
<1>. QED
  BY <1>7, <1>8, <1>10, MatchJoined, Zenon

\* A record matches its template, whichever -t has chosen.
LEMMA RecordMatches ==
  ASSUME pkt \in Packets, layers.net = pkt.version, headerOffset.trans \in Int,
         pkt.version = 4 => FoundAt(pkt, pkt.header), NEW t \in DOMAIN get_template
  PROVE  Matches(fields(t), get_template[t])
<1>. DEFINE A == set_value(8, "timestamp", << >>) \o set_value(4, "hash_id", << >>)
            B == set_value(1, "packet", get_ttl)
            C == LayerFields
            D == set_value(4, "packet", get_ipa(0))
                   \o set_value(2, "packet", get_port(headerOffset.trans))
                   \o set_value(4, "packet", get_ipa(4))
                   \o set_value(2, "packet", get_port(headerOffset.trans + 2))
<1>1. /\ fields("ts") = A /\ fields("min") = A \o B /\ fields("lp") = A \o B \o C
      /\ fields("ls") = A \o B \o C \o D
  BY DEF fields
<1>2. /\ get_template["ts"] = export_fields_ts /\ get_template["min"] = export_fields_min
      /\ get_template["lp"] = export_fields_ts_ttl_proto
      /\ get_template["ls"] = export_fields_ts_ttl_proto_ip
  BY DEF get_template
<1>. HIDE DEF A, B, C, D
<1>3. Matches(A, export_fields_ts)
  BY TimeAndHashMatch DEF A
<1>4. Matches(A \o B, export_fields_min)
  BY <1>3, TtlMatch, MatchJoined, Zenon DEF B, export_fields_min
<1>5. Matches(A \o B \o C, export_fields_ts_ttl_proto)
  BY <1>4, LayersMatch, MatchJoined, Zenon DEF C, export_fields_ts_ttl_proto
<1>6. Matches(A \o B \o C \o D, export_fields_ts_ttl_proto_ip)
  BY <1>5, EndsMatch, MatchJoined, Zenon DEF D, export_fields_ts_ttl_proto_ip
<1>7. t \in {"ts", "min", "lp", "ls"}
  BY TemplateNames
<1>. QED
  BY <1>1, <1>2, <1>3, <1>4, <1>5, <1>6, <1>7

-----------------------------------------------------------------------------
(* The inductive invariant                                                 *)

\* The hash input, once it is there, and the record, once there is one.
BufferSafe == buffer \in Seq(Safe(pkt, preset)) /\ Len(buffer) <= 89
RecordThere ==
  IF template = "none" THEN record = << >>
  ELSE template \in DOMAIN get_template /\ Matches(record, get_template[template])
RecordLate == template # "none" => stage = "done"

\* The types of the search.
SearchTypes ==
  /\ pkt \in Packets
  /\ stage \in {"net", "extensions", "transport", "copy", "copied", "done"}
  /\ offs \in Nat
  /\ proto \in Protocols \cup {Unknown}
  /\ headerOffset \in [trans : Nat \cup {-1}, payload : Nat \cup {-1}]
  /\ layers \in [net : {0, 4, 6}, trans : Protocols \cup {Unknown}]
  /\ preset \in Presets

\* What every step of a packet's way through the presets preserves.
Inv ==
  /\ SearchTypes /\ NotYetFound /\ NetworkKnown /\ SearchAt /\ FoundThere
  /\ OffsetsOrdered /\ BufferSafe /\ RecordThere /\ RecordLate

\* Components of the records that the search fills.
LEMMA SearchTypesOf ==
  ASSUME SearchTypes
  PROVE  /\ headerOffset.trans \in Nat \cup {-1} /\ headerOffset.payload \in Nat \cup {-1}
         /\ layers.net \in {0, 4, 6} /\ layers.trans \in Protocols \cup {Unknown}
         /\ headerOffset = [trans |-> headerOffset.trans, payload |-> headerOffset.payload]
         /\ layers = [net |-> layers.net, trans |-> layers.trans]
BY DEF SearchTypes

\* The search and the copy are over the record; only two steps set buffer and record.
Search == FindNet \/ SkipExtension \/ ExtensionsDone \/ FindTransport

\* The search leaves packet, hash input and record alone.
LEMMA SearchKeeps ==
  ASSUME Inv, Search
  PROVE  BufferSafe' /\ RecordThere' /\ RecordLate' /\ pkt' = pkt /\ preset' = preset
<1>1. UNCHANGED <<pkt, preset, buffer, template, record>> /\ stage # "done"
  BY DEF Search, FindNet, SkipExtension, ExtensionsDone, FindTransport, recVars
<1>. QED
  BY <1>1 DEF Inv, BufferSafe, RecordThere, RecordLate, Matches, Fits

\* FindNet.
LEMMA NetStep ==
  ASSUME Inv, FindNet
  PROVE  /\ SearchTypes' /\ NotYetFound' /\ NetworkKnown' /\ SearchAt' /\ FoundThere'
         /\ OffsetsOrdered'
<1>1. /\ pkt' = pkt /\ preset' = preset /\ headerOffset' = headerOffset /\ stage = "net"
      /\ pkt \in Packets /\ preset \in Presets
  BY DEF FindNet, Inv, SearchTypes
<1>2. /\ headerOffset = [trans |-> -1, payload |-> -1]
      /\ layers = [net |-> 0, trans |-> Unknown]
  BY <1>1, SearchTypesOf DEF Inv, NotYetFound, NetworkKnown
<1>3. OffsetsOrdered'
  BY <1>1 DEF Inv, OffsetsOrdered
<1>4. headerOffset \in [trans : Nat \cup {-1}, payload : Nat \cup {-1}]
  BY DEF Inv, SearchTypes
<1>5. CASE pkt.version = 4
  <2>1. /\ offs' = pkt.header /\ proto' = pkt.proto /\ stage' = "transport"
        /\ layers' = [net |-> 4, trans |-> Unknown]
    BY <1>2, <1>5 DEF FindNet
  <2>2. offs' \in Nat /\ proto' \in Protocols \cup {Unknown}
    BY <1>1, <2>1, PacketTypes, ProtocolNames
  <2>3. SearchTypes'
    BY <1>1, <1>4, <2>1, <2>2 DEF SearchTypes
  <2>. QED
    BY <1>1, <1>2, <1>3, <1>5, <2>1, <2>3 DEF NotYetFound, NetworkKnown, SearchAt, FoundThere
<1>6. CASE pkt.version = 6
  <2>1. /\ offs' = IP6_HLEN /\ proto' = NextHeader(pkt, 0) /\ stage' = "extensions"
        /\ layers' = [net |-> 6, trans |-> Unknown]
    BY <1>2, <1>6 DEF FindNet
  <2>2. offs' \in Nat /\ proto' \in Protocols \cup {Unknown} /\ offs' >= IP6_HLEN
    BY <1>1, <2>1, NextHeaderTypes DEF IP6_HLEN
  <2>3. SearchTypes'
    BY <1>1, <1>4, <2>1, <2>2 DEF SearchTypes
  <2>4. pkt.ext = << >> => proto' = pkt.proto
    BY <2>1 DEF NextHeader
  <2>. QED
    BY <1>1, <1>2, <1>3, <1>6, <2>1, <2>2, <2>3, <2>4
       DEF NotYetFound, NetworkKnown, SearchAt, FoundThere
<1>7. CASE pkt.version = 0
  <2>1. offs' = offs /\ proto' = proto /\ layers' = layers /\ stage' = "copy"
    BY <1>7 DEF FindNet
  <2>2. SearchTypes'
    BY <1>1, <2>1 DEF Inv, SearchTypes
  <2>. QED
    BY <1>1, <1>2, <1>3, <1>7, <2>1, <2>2 DEF NotYetFound, NetworkKnown, SearchAt, FoundThere
<1>. QED
  BY <1>1, <1>5, <1>6, <1>7, PacketTypes

\* The loop over extension headers.
LEMMA ExtensionStep ==
  ASSUME Inv, SkipExtension \/ ExtensionsDone
  PROVE  /\ SearchTypes' /\ NotYetFound' /\ NetworkKnown' /\ SearchAt' /\ FoundThere'
         /\ OffsetsOrdered'
<1>1. /\ UNCHANGED <<pkt, preset, headerOffset, layers>> /\ stage = "extensions"
      /\ pkt \in Packets /\ pkt.version = 6 /\ offs \in Nat /\ offs >= IP6_HLEN
      /\ pkt.ext = << >> => offs = IP6_HLEN /\ proto = pkt.proto
  BY DEF SkipExtension, ExtensionsDone, Inv, SearchTypes, NetworkKnown, SearchAt
<1>2. OffsetsOrdered'
  BY <1>1 DEF Inv, OffsetsOrdered
<1>3. CASE SkipExtension
  <2>1. stage' = "extensions" /\ proto \in Extensions
    BY <1>1, <1>3 DEF SkipExtension
  <2>2. PICK n \in LengthAt(pkt, offs) :
          /\ offs' = offs + 8 + (IF proto = "ah" THEN n * 4 ELSE n * 8)
          /\ proto' \in ByteAt(pkt, offs')
    BY <1>3 DEF SkipExtension
  <2>3. n \in Nat /\ proto' \in Protocols \cup {Unknown}
    BY <1>1, <2>2, ByteTypes
  <2>4. offs' \in Nat /\ offs' >= IP6_HLEN
    BY <1>1, <2>2, <2>3 DEF IP6_HLEN
  <2>5. pkt.ext # << >>
    BY <1>1, <2>1, PacketTypes, ProtocolNames
  <2>6. SearchTypes'
    BY <1>1, <2>1, <2>3, <2>4 DEF Inv, SearchTypes
  <2>. QED
    BY <1>1, <1>2, <2>1, <2>4, <2>5, <2>6 DEF Inv, NotYetFound, NetworkKnown, SearchAt, FoundThere
<1>4. CASE ExtensionsDone
  <2>1. stage' = "transport" /\ offs' = offs /\ proto' = proto
    BY <1>4 DEF ExtensionsDone
  <2>2. SearchTypes'
    BY <1>1, <2>1 DEF Inv, SearchTypes
  <2>. QED
    BY <1>1, <1>2, <2>1, <2>2 DEF Inv, NotYetFound, NetworkKnown, SearchAt, FoundThere
<1>. QED
  BY <1>3, <1>4

\* A payload starts at or behind its transport header.
LEMMA PayloadBehind ==
  ASSUME SearchTypes
  PROVE  \A o \in PayloadStart : o \in Nat /\ offs <= o
<1>1. offs \in Nat /\ pkt.doff \in Nat /\ pkt.len \in Nat
  BY PacketTypes DEF SearchTypes
<1>. QED
  BY <1>1 DEF PayloadStart

\* The step that sets the offsets.
LEMMA TransportStep ==
  ASSUME Inv, FindTransport
  PROVE  /\ SearchTypes' /\ NotYetFound' /\ NetworkKnown' /\ SearchAt' /\ FoundThere'
         /\ OffsetsOrdered'
<1>1. /\ UNCHANGED <<pkt, preset, offs, proto>> /\ stage = "transport" /\ stage' = "copy"
      /\ pkt \in Packets /\ pkt.version \in {4, 6} /\ layers.net = pkt.version /\ offs \in Nat
  BY DEF FindTransport, Inv, SearchTypes, NetworkKnown
<1>2. headerOffset = [trans |-> -1, payload |-> -1] /\ layers = [net |-> pkt.version, trans |-> Unknown]
  BY <1>1, SearchTypesOf DEF Inv, NotYetFound
<1>3. /\ pkt.version = 4 => offs = pkt.header /\ proto = pkt.proto
      /\ pkt.version = 6 =>
           /\ offs >= IP6_HLEN
           /\ pkt.ext = << >> => offs = IP6_HLEN /\ proto = pkt.proto
  BY <1>1 DEF Inv, SearchAt
<1>4. pkt.len \in Nat
  BY <1>1, PacketTypes
<1>5. CASE offs >= pkt.len
  <2>1. headerOffset' = headerOffset /\ layers' = layers
    BY <1>1, <1>4, <1>5 DEF FindTransport
  <2>2. SearchTypes'
    BY <1>1, <2>1 DEF Inv, SearchTypes
  <2>3. OffsetsOrdered'
    BY <1>1, <2>1 DEF Inv, OffsetsOrdered
  <2>4. NetworkKnown' /\ NotYetFound' /\ SearchAt'
    BY <1>1, <2>1 DEF NetworkKnown, NotYetFound, SearchAt
  <2>5. FoundThere'
    <3>1. ~(offs < pkt.len)
      BY <1>1, <1>4, <1>5
    <3>. QED
      BY <1>1, <1>2, <1>3, <2>1, <3>1 DEF FoundThere, FoundAt
  <2>. QED
    BY <2>2, <2>3, <2>4, <2>5
<1>6. CASE offs < pkt.len
  <2>1. layers' = [net |-> pkt.version, trans |-> proto]
    BY <1>1, <1>2, <1>4, <1>6 DEF FindTransport
  <2>2. PICK q : /\ headerOffset' = [trans |-> offs, payload |-> q]
                 /\ q = -1 \/ (q \in Nat /\ offs <= q /\ q < pkt.len)
    <3>1. \/ headerOffset' = [headerOffset EXCEPT !.trans = offs]
          \/ \E o \in PayloadStart :
               headerOffset' = [trans |-> offs, payload |-> IF o < pkt.len THEN o ELSE -1]
      BY <1>1, <1>4, <1>6 DEF FindTransport
    <3>2. CASE headerOffset' = [headerOffset EXCEPT !.trans = offs]
      <4>1. headerOffset' = [trans |-> offs, payload |-> -1]
        BY <1>2, <3>2
      <4>. QED
        BY <4>1
    <3>3. ASSUME NEW o \in PayloadStart,
                 headerOffset' = [trans |-> offs, payload |-> IF o < pkt.len THEN o ELSE -1]
          PROVE  \E q : /\ headerOffset' = [trans |-> offs, payload |-> q]
                        /\ q = -1 \/ (q \in Nat /\ offs <= q /\ q < pkt.len)
      <4>1. o \in Nat /\ offs <= o
        BY PayloadBehind DEF Inv
      <4>2. CASE o < pkt.len
        BY <3>3, <4>1, <4>2
      <4>3. CASE ~(o < pkt.len)
        BY <3>3, <4>3
      <4>. QED
        BY <4>2, <4>3
    <3>. QED
      BY <3>1, <3>2, <3>3
  <2>3. headerOffset'.trans = offs /\ headerOffset'.payload = q /\ layers'.net = pkt.version
        /\ layers'.trans = proto
    BY <2>1, <2>2
  <2>4. SearchTypes'
    <3>1. /\ preset \in Presets /\ proto \in Protocols \cup {Unknown}
          /\ stage' \in {"net", "extensions", "transport", "copy", "copied", "done"}
      BY <1>1 DEF Inv, SearchTypes
    <3>2. headerOffset' \in [trans : Nat \cup {-1}, payload : Nat \cup {-1}]
      BY <1>1, <2>2
    <3>3. layers' \in [net : {0, 4, 6}, trans : Protocols \cup {Unknown}]
      BY <1>1, <2>1, <3>1
    <3>. QED
      BY <1>1, <3>1, <3>2, <3>3 DEF SearchTypes
  <2>5. OffsetsOrdered'
    BY <1>1, <1>4, <1>6, <2>2, <2>3 DEF OffsetsOrdered
  <2>6. NetworkKnown' /\ NotYetFound' /\ SearchAt'
    BY <1>1, <2>3 DEF NetworkKnown, NotYetFound, SearchAt
  <2>7. FoundThere'
    BY <1>1, <1>3, <1>6, <2>3 DEF FoundThere, FoundAt
  <2>. QED
    BY <2>4, <2>5, <2>6, <2>7
<1>. QED
  BY <1>1, <1>4, <1>5, <1>6

\* What is found is what the presets rely on.
LEMMA LocatedWhenFound ==
  ASSUME Inv, stage \in {"copy", "copied", "done"}
  PROVE  Located
<1>1. pkt \in Packets /\ layers.net = pkt.version
  BY DEF Inv, SearchTypes, NetworkKnown
<1>2. headerOffset.trans \in Nat \cup {-1} /\ headerOffset.trans < pkt.len
  BY SearchTypesOf DEF Inv, OffsetsOrdered
<1>3. pkt.version \in {0, 4, 6} /\ pkt.header \in Nat
  BY <1>1, PacketTypes
<1>4. /\ pkt.version = 0 => headerOffset.trans = -1
      /\ pkt.version = 4 => headerOffset.trans = -1 \/ headerOffset.trans = pkt.header
      /\ pkt.version = 6 => headerOffset.trans = -1 \/ headerOffset.trans >= IP6_HLEN
  BY DEF Inv, FoundThere, FoundAt
<1>. QED
  BY <1>1, <1>2, <1>3, <1>4 DEF Located

\* The copy, the record and the end.
LaterKept == UNCHANGED <<pkt, offs, proto, headerOffset, layers, preset>>

\* After the search nothing it found changes.
LEMMA LaterStep ==
  ASSUME Inv, LaterKept, stage \in {"copy", "copied"}, stage' \in {"copied", "done"}
  PROVE  /\ SearchTypes' /\ NotYetFound' /\ NetworkKnown' /\ SearchAt' /\ FoundThere'
         /\ OffsetsOrdered'
<1>1. SearchTypes'
  BY DEF LaterKept, Inv, SearchTypes
<1>2. NotYetFound' /\ NetworkKnown' /\ SearchAt'
  BY DEF LaterKept, Inv, NotYetFound, NetworkKnown, SearchAt
<1>3. FoundThere' /\ OffsetsOrdered'
  BY DEF LaterKept, Inv, FoundThere, FoundAt, OffsetsOrdered
<1>. QED
  BY <1>1, <1>2, <1>3

\* Every step preserves the invariant.
LEMMA InvStep == Inv /\ [Next]_vars => Inv'
<1>. SUFFICES ASSUME Inv, [Next]_vars PROVE Inv'
  OBVIOUS
<1>1. CASE Search
  BY <1>1, SearchKeeps, NetStep, ExtensionStep, TransportStep DEF Search, Inv
<1>2. CASE CopyFields
  <2>1. /\ LaterKept /\ stage = "copy" /\ stage' = "copied" /\ buffer' = selection_function
        /\ template' = template /\ record' = record /\ pkt' = pkt
    BY <1>2 DEF CopyFields, LaterKept, recVars
  <2>2. preset \in Presets
    BY DEF Inv, SearchTypes
  <2>3. selection_function \in Seq(Safe(pkt, preset)) /\ Len(selection_function) <= 89
    BY <2>1, <2>2, LocatedWhenFound, SelectionSafe
  <2>4. BufferSafe'
    BY <2>1, <2>3 DEF BufferSafe, LaterKept
  <2>5. RecordThere' /\ RecordLate'
    BY <2>1 DEF Inv, RecordThere, RecordLate, Matches, Fits
  <2>. QED
    BY <2>1, <2>4, <2>5, LaterStep DEF Inv
<1>3. ASSUME NEW t \in DOMAIN get_template, ExportRecord(t) PROVE Inv'
  <2>1. /\ LaterKept /\ stage = "copied" /\ stage' = "done" /\ buffer' = buffer
        /\ template' = t /\ record' = fields(t) /\ pkt' = pkt
    BY <1>3 DEF ExportRecord, LaterKept
  <2>2. Located
    BY <2>1, LocatedWhenFound
  <2>3. pkt.version = 4 => FoundAt(pkt, pkt.header)
    BY <2>1 DEF Inv, FoundThere
  <2>4. Matches(fields(t), get_template[t])
    BY <2>2, <2>3, RecordMatches DEF Located
  <2>5. RecordThere' /\ RecordLate'
    <3>1. t # "none"
      BY TemplateNames
    <3>. QED
      BY <2>1, <2>4, <3>1 DEF RecordThere, RecordLate, Matches, Fits
  <2>6. BufferSafe'
    BY <2>1 DEF Inv, BufferSafe, LaterKept
  <2>. QED
    BY <2>1, <2>5, <2>6, LaterStep DEF Inv
<1>4. CASE NoRecord
  <2>1. /\ LaterKept /\ stage = "copied" /\ stage' = "done" /\ buffer' = buffer
        /\ template' = template /\ record' = record /\ pkt' = pkt
    BY <1>4 DEF NoRecord, LaterKept, recVars
  <2>2. BufferSafe' /\ RecordThere' /\ RecordLate'
    BY <2>1 DEF Inv, BufferSafe, RecordThere, RecordLate, Matches, Fits, LaterKept
  <2>. QED
    BY <2>1, <2>2, LaterStep DEF Inv
<1>5. CASE UNCHANGED vars
  <2>1. UNCHANGED <<pkt, stage, offs, proto, headerOffset, layers, preset, buffer, template, record>>
    BY <1>5 DEF vars, recVars
  <2>2. SearchTypes' /\ NotYetFound' /\ NetworkKnown' /\ SearchAt'
    BY <2>1 DEF Inv, SearchTypes, NotYetFound, NetworkKnown, SearchAt
  <2>3. FoundThere' /\ OffsetsOrdered' /\ BufferSafe'
    BY <2>1 DEF Inv, FoundThere, FoundAt, OffsetsOrdered, BufferSafe
  <2>4. RecordThere' /\ RecordLate'
    BY <2>1 DEF Inv, RecordThere, RecordLate, Matches, Fits
  <2>. QED
    BY <2>2, <2>3, <2>4 DEF Inv
<1>. QED
  BY <1>1, <1>2, <1>3, <1>4, <1>5 DEF Next, Search

\* The invariant holds when a packet arrives.
LEMMA InvInit == Init => Inv
<1>. SUFFICES ASSUME Init PROVE Inv
  OBVIOUS
<1>1. /\ pkt \in Packets /\ preset \in Presets /\ stage = "net" /\ offs = 0 /\ proto = Unknown
      /\ headerOffset = [trans |-> -1, payload |-> -1]
      /\ layers = [net |-> 0, trans |-> Unknown]
      /\ buffer = << >> /\ template = "none" /\ record = << >>
  BY DEF Init
<1>2. SearchTypes
  BY <1>1 DEF SearchTypes
<1>3. OffsetsOrdered
  BY <1>1, PacketTypes DEF OffsetsOrdered
<1>4. BufferSafe
  BY <1>1 DEF BufferSafe
<1>. QED
  BY <1>1, <1>2, <1>3, <1>4
     DEF Inv, NotYetFound, NetworkKnown, SearchAt, FoundThere, RecordThere, RecordLate

\* The invariant holds in every reachable state.
LEMMA Invariant == Spec => []Inv
BY InvInit, InvStep, PTL DEF Spec

-----------------------------------------------------------------------------
(* The theorems                                                            *)

\* findHeaders, the presets and handle_ip_packet keep their types for packets of
\* every length: no hash input is longer than 89 bytes.
THEOREM HeaderTypes == Spec => []TypeOK
<1>1. Inv => TypeOK
  <2>. SUFFICES ASSUME Inv PROVE TypeOK
    OBVIOUS
  <2>1. SearchTypes
    BY DEF Inv
  <2>2. Len(buffer) <= 39 + 50 /\ \A i \in DOMAIN buffer : buffer[i] \in Nat
    BY DEF Inv, BufferSafe, Safe
  <2>3. template \in DOMAIN get_template \cup {"none"}
    BY DEF Inv, RecordThere
  <2>4. record = << >> \/ record \in Seq(Field)
    BY DEF Inv, RecordThere, Matches
  <2>5. \A f \in Field : f.length \in Nat
    BY DEF Field
  <2>6. \A i \in DOMAIN record : record[i].length \in Nat
    <3>1. record \in Seq(Field)
      BY <2>4, EmptySeq, Zenon
    <3>2. \A i \in DOMAIN record : record[i] \in Field
      BY <3>1
    <3>. QED
      BY <2>5, <3>2
  <2>. QED
    BY <2>1, <2>2, <2>3, <2>6 DEF SearchTypes, TypeOK
<1>. QED
  BY <1>1, Invariant, PTL

\* findHeaders finds the transport header of every IPv4 packet, options included,
\* and of every IPv6 packet without extension headers, exactly when it was captured.
THEOREM TransportIsFound == Spec => []TransportFound
<1>1. Inv => TransportFound
  <2>. SUFFICES ASSUME Inv, stage = "done", pkt.version # 0, pkt.ext = << >>
                PROVE  IF TransportStart(pkt) < pkt.len
                       THEN headerOffset.trans = TransportStart(pkt) /\ layers.trans = pkt.proto
                       ELSE headerOffset.trans = -1
    BY DEF TransportFound
  <2>1. pkt \in Packets
    BY DEF Inv, SearchTypes
  <2>2. pkt.version \in {4, 6}
    BY <2>1, PacketTypes
  <2>3. CASE pkt.version = 4
    <3>1. TransportStart(pkt) = pkt.header
      BY <2>3 DEF TransportStart
    <3>. QED
      BY <2>3, <3>1 DEF Inv, FoundThere, FoundAt
  <2>4. CASE pkt.version = 6
    <3>1. TransportStart(pkt) = IP6_HLEN
      BY <2>1, <2>4, StartWithoutExtensions
    <3>. QED
      BY <2>4, <3>1 DEF Inv, FoundThere, FoundAt
  <2>. QED
    BY <2>2, <2>3, <2>4
<1>. QED
  BY <1>1, Invariant, PTL

\* Whatever findHeaders reads, a truncated or damaged packet included, transport
\* header and payload are in this order inside the captured bytes.
THEOREM OffsetsInside == Spec => []OffsetsOrdered
<1>1. Inv => OffsetsOrdered
  BY DEF Inv
<1>. QED
  BY <1>1, Invariant, PTL

\* No preset (copyFields_Rec, _Only_Net, _U_TCP_and_Net, _Packet) selects a field that
\* every router rewrites, only PACKET selects IPv4 options, and REC8 does not even
\* select the TOS byte, for every forwarded packet.
THEOREM RewrittenNotHashed == Spec => []HopInvariant
<1>1. Inv => HopInvariant
  <2>. SUFFICES ASSUME Inv, Forwarded(pkt), NEW i \in DOMAIN buffer
                PROVE  /\ buffer[i] \notin Rewritten(pkt)
                       /\ preset # "PACKET" => buffer[i] \notin Options(pkt)
                       /\ preset = "REC8" => buffer[i] \notin Remarked(pkt)
    BY DEF HopInvariant
  <2>1. buffer[i] \in Safe(pkt, preset)
    BY DEF Inv, BufferSafe
  <2>2. buffer[i] \notin Excluded(pkt, preset)
    BY <2>1 DEF Safe
  <2>. QED
    BY <2>2 DEF Excluded
<1>. QED
  BY <1>1, Invariant, PTL

\* Every record handle_ip_packet fills has the fields of its template, each filled
\* from the variable of its information element; for IPv4 the bytes are the
\* element's, and protocol and version are the packet's as far as captured.
THEOREM RecordsDecode == Spec => []RecordMatchesTemplate
<1>1. Inv => RecordMatchesTemplate
  <2>. SUFFICES ASSUME Inv, template # "none" PROVE RecordMatchesTemplate
    BY DEF RecordMatchesTemplate
  <2>1. Matches(record, get_template[template])
    BY DEF Inv, RecordThere
  <2>2. record \in Seq(Field) /\ DOMAIN record = 1..Len(record)
    BY <2>1 DEF Matches
  <2>3. ASSUME pkt.version = 4
        PROVE  /\ layers.net = 4
               /\ layers.trans = IF TransportStart(pkt) < pkt.len THEN pkt.proto ELSE Unknown
    <3>1. TransportStart(pkt) = pkt.header
      BY <2>3 DEF TransportStart
    <3>2. stage \in {"copy", "copied", "done"}
      BY DEF Inv, RecordLate
    <3>. QED
      BY <2>3, <3>1, <3>2 DEF Inv, NetworkKnown, FoundThere, FoundAt
  <2>. QED
    BY <2>1, <2>2, <2>3 DEF Matches, Fits, RecordMatchesTemplate
<1>. QED
  BY <1>1, Invariant, PTL
=============================================================================
