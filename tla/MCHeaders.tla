------------------------------ MODULE MCHeaders ------------------------------
(***************************************************************************)
(* Small instances of Headers: captured lengths on both sides of every     *)
(* header border, an IPv4 header of a damaged packet (8) among them.       *)
(***************************************************************************)
EXTENDS Headers

IPv4 == [version : {4}, header : {8, 20, 24}, ext : {<< >>}, proto : Transports \cup {Unknown},
         first : {"other"}, doff : {20, 32},
         len : {19, 20, 21, 24, 25, 28, 32, 33, 40, 44, 60, 80}]

Ext == [type : {"hop", "route", "ah"}, hlen : {0, 1}]
IPv6 == [version : {6}, header : {40}, ext : {<< >>} \cup {<<e>> : e \in Ext} \cup (Ext \X Ext),
         proto : {"tcp", "udp", "icmp6"}, first : {"hop", "tcp", "other"}, doff : {20},
         len : {39, 41, 48, 52, 60, 80}]

NotIP == [version : {0}, header : {20}, ext : {<< >>}, proto : {"other"},
          first : {"other"}, doff : {20}, len : {20, 60}]

MCPackets == IPv4 \cup IPv6 \cup NotIP
=============================================================================
