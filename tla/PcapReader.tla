----------------------------- MODULE PcapReader -----------------------------
(***************************************************************************)
(* read_pcap (pcap_reader.cpp): the loop over the frames of a capture and  *)
(* the decoding of one frame, a step per field group that is tested before *)
(* it is read.                                                             *)
(*                                                                         *)
(* The bytes of a frame are not kept: every field is read once, so its     *)
(* value is chosen when it is read.  Positions are counted from the start  *)
(* of the frame; `offset' is relative to the IP header once that is found, *)
(* as in the code.  Addresses, timestamps and byte totals are left out.    *)
(***************************************************************************)
EXTENDS Naturals, Sequences

CONSTANTS
  MaxFrames,      \* bound on the frames of a capture
  CapturedLengths,\* header->caplen
  HeaderLengths,  \* the IPv4 header length, in bytes
  TotalLengths,   \* the IPv4 total length
  PayloadLengths, \* the IPv6 payload length
  LengthBytes     \* the length byte of an IPv6 extension header

ASSUME PcapAssumption ==
  /\ MaxFrames \in Nat
  /\ CapturedLengths \subseteq Nat
  /\ HeaderLengths \subseteq Nat
  /\ TotalLengths \subseteq Nat
  /\ PayloadLengths \subseteq Nat
  /\ LengthBytes \subseteq Nat

Transports == {"tcp", "udp", "other"}
Headers == Transports \cup {"options", "fragment", "authentication"}
Rejections == {"malformed", "non_ip", "unsupported"}

VARIABLES
  link,            \* the link layer, "ethernet" or "raw"
  pc,              \* what is decoded next; "next" between two frames
  caplen, base,    \* captured bytes of the frame; where its IP header starts
  ether_type, offset, next_header, walked, ports_available, total_length,
  network,         \* record.network_layer
  reach,           \* history: one past the last byte read
  fragments, later,\* history: fragment fields read; did one say `later fragment'
  summary,         \* the counts
  packets          \* the packets decoded so far

fieldVars == <<base, ether_type, offset, next_header, walked, ports_available,
               total_length, network, reach, fragments, later>>
frameVars == <<link, caplen, fieldVars>>
resultVars == <<summary, packets>>
vars == <<pc, frameVars, resultVars>>

Counters == {"packet", "ipv4", "ipv6"} \cup Transports \cup Rejections

\* An unsupported link type is refused before any frame is read.
Init ==
  /\ link \in {"ethernet", "raw", "unsupported"}
  /\ pc = IF link = "unsupported" THEN "failed" ELSE "next"
  /\ caplen = 0
  /\ base = 0 /\ offset = 0 /\ total_length = 0 /\ walked = 0 /\ reach = 0
  /\ ether_type = "other" /\ next_header = "other" /\ network = "unknown"
  /\ ports_available = TRUE /\ fragments = 0 /\ later = FALSE
  /\ summary = [counter \in Counters |-> 0]
  /\ packets = <<>>

\* The parse ends without a packet.
Reject(result) ==
  /\ summary' = [summary EXCEPT ![result] = @ + 1]
  /\ pc' = "next"
  /\ UNCHANGED <<frameVars, packets>>

\* update_protocol_counts and push_back.
Accept(transport, ports) ==
  /\ summary' = [counter \in Counters |->
       IF counter \in {network, transport} THEN summary[counter] + 1 ELSE summary[counter]]
  /\ packets' = Append(packets, [index |-> summary["packet"] - 1, network |-> network,
                                 transport |-> transport, ports |-> ports])
  /\ pc' = "next"

\* pcap_next_ex delivers a frame.
NextFrame ==
  /\ pc = "next"
  /\ summary["packet"] < MaxFrames
  /\ caplen' \in CapturedLengths
  /\ base' = 0 /\ offset' = 0 /\ total_length' = 0 /\ walked' = 0 /\ reach' = 0
  /\ ether_type' = "other" /\ next_header' = "other" /\ network' = "unknown"
  /\ ports_available' = TRUE /\ fragments' = 0 /\ later' = FALSE
  /\ summary' = [summary EXCEPT !["packet"] = @ + 1]
  /\ pc' = IF link = "ethernet" THEN "ethernet" ELSE "ip"
  /\ UNCHANGED <<link, packets>>

\* The file ends, or turns out to be damaged.
EndOfFile == pc = "next" /\ pc' \in {"done", "failed"} /\ UNCHANGED <<frameVars, resultVars>>

EthernetHeader ==
  /\ pc = "ethernet"
  /\ \/ caplen < 14 /\ Reject("malformed")
     \/ /\ caplen >= 14
        /\ ether_type' \in {"vlan", "ip", "other"}
        /\ offset' = 14 /\ reach' = 14
        /\ pc' = "tags"
        /\ UNCHANGED <<link, caplen, base, next_header, walked, ports_available,
                       total_length, network, fragments, later, resultVars>>

\* Mutant: the offset stays, so the type that was read is read again.
TagInPlace ==
  /\ ether_type = "vlan" /\ caplen >= offset + 4
  /\ ether_type' \in IF reach = offset + 4 THEN {ether_type} ELSE {"vlan", "ip", "other"}
  /\ reach' = offset + 4
  /\ UNCHANGED <<pc, link, caplen, base, offset, next_header, walked, ports_available,
                 total_length, network, fragments, later, resultVars>>

\* One VLAN tag.
Tag ==
  /\ ether_type = "vlan" /\ caplen >= offset + 4
  /\ ether_type' \in {"vlan", "ip", "other"}
  /\ offset' = offset + 4 /\ reach' = offset + 4
  /\ UNCHANGED <<pc, link, caplen, base, next_header, walked, ports_available,
                 total_length, network, fragments, later, resultVars>>

EtherType ==
  /\ pc = "tags"
  /\ \/ Tag
     \/ ether_type = "vlan" /\ caplen < offset + 4 /\ Reject("malformed")
     \/ ether_type = "other" /\ Reject("non_ip")
     \/ /\ ether_type = "ip"
        /\ base' = offset /\ offset' = 0
        /\ pc' = "ip"
        /\ UNCHANGED <<link, caplen, ether_type, next_header, walked, ports_available,
                       total_length, network, reach, fragments, later, resultVars>>

available == caplen - base

IpVersion ==
  /\ pc = "ip"
  /\ \/ available < 1 /\ Reject("malformed")
     \/ available >= 1 /\ Reject("unsupported")
     \/ /\ available >= 1
        /\ pc' \in {"ipv4", "ipv6"}
        /\ reach' = base + 1
        /\ UNCHANGED <<link, caplen, base, ether_type, offset, next_header, walked,
                       ports_available, total_length, network, fragments, later, resultVars>>

\* Mutant: the total length is not compared with what was captured.
LengthsFitUnchecked(header, total) == header >= 20 /\ total >= header

LengthsFit(header, total) == header >= 20 /\ total >= header /\ total <= available

\* The options between the header and the transport are skipped unread.
Ipv4Header ==
  /\ pc = "ipv4"
  /\ \/ available < 20 /\ Reject("malformed")
     \/ /\ available >= 20
        /\ \E header \in HeaderLengths, total \in TotalLengths :
             \/ ~LengthsFit(header, total) /\ Reject("malformed")
             \/ /\ LengthsFit(header, total)
                /\ later' \in BOOLEAN /\ fragments' = 1
                /\ ports_available' = ~later'
                /\ total_length' = total /\ offset' = header
                /\ network' = "ipv4" /\ next_header' \in Transports
                /\ reach' = base + 20
                /\ pc' = "transport"
                /\ UNCHANGED <<link, caplen, base, ether_type, walked, resultVars>>

Ipv6Header ==
  /\ pc = "ipv6"
  /\ \/ available < 40 /\ Reject("malformed")
     \/ /\ available >= 40
        /\ \E payload \in PayloadLengths :
             \/ available < 40 + payload /\ Reject("malformed")
             \/ /\ available >= 40 + payload
                /\ total_length' = 40 + payload /\ offset' = 40
                /\ network' = "ipv6" /\ next_header' \in Headers
                /\ walked' = 0
                /\ reach' = base + 40
                /\ pc' = "extensions"
                /\ UNCHANGED <<link, caplen, base, ether_type, ports_available, fragments,
                               later, resultVars>>

Past(bytes) == offset + bytes > total_length

\* A header that says how long it is: in units of 8 bytes after the first 8, or
\* for authentication of 4 bytes after the first 8.
SizedHeader(size) ==
  \/ Past(2) /\ Reject("malformed")
  \/ /\ ~Past(2)
     /\ \/ Past(size) /\ Reject("malformed")
        \/ /\ ~Past(size)
           /\ next_header' \in Headers
           /\ offset' = offset + size /\ reach' = base + offset + 2
           /\ walked' = walked + 1
           /\ UNCHANGED <<pc, link, caplen, base, ether_type, ports_available,
                          total_length, network, fragments, later, resultVars>>

\* Mutant: a fragment header does not tell whether ports follow.
FragmentUnnoticed ==
  /\ ~Past(8)
  /\ \E says \in BOOLEAN : later' = (later \/ says)
  /\ fragments' = fragments + 1
  /\ next_header' \in Headers
  /\ offset' = offset + 8 /\ reach' = base + offset + 4
  /\ walked' = walked + 1
  /\ UNCHANGED <<pc, link, caplen, base, ether_type, ports_available, total_length,
                 network, resultVars>>

\* Every fragment header overwrites what an earlier one said.
Fragment ==
  /\ ~Past(8)
  /\ \E says \in BOOLEAN : ports_available' = ~says /\ later' = (later \/ says)
  /\ fragments' = fragments + 1
  /\ next_header' \in Headers
  /\ offset' = offset + 8 /\ reach' = base + offset + 4
  /\ walked' = walked + 1
  /\ UNCHANGED <<pc, link, caplen, base, ether_type, total_length, network, resultVars>>

\* Eight headers at most; the transport is looked for within the eight turns.
WalkedOut == walked = 8

ExtensionHeader ==
  /\ pc = "extensions"
  /\ \/ WalkedOut /\ Reject("unsupported")
     \/ /\ ~WalkedOut /\ next_header = "options"
        /\ \E byte \in LengthBytes : SizedHeader((byte + 1) * 8)
     \/ /\ ~WalkedOut /\ next_header = "authentication"
        /\ \E byte \in LengthBytes : SizedHeader((byte + 2) * 4)
     \/ /\ ~WalkedOut /\ next_header = "fragment"
        /\ \/ Past(8) /\ Reject("malformed")
           \/ Fragment
     \/ /\ ~WalkedOut /\ next_header \in Transports
        /\ pc' = "transport"
        /\ UNCHANGED <<frameVars, resultVars>>

\* Mutant: a packet too short for its ports is counted as malformed, and kept.
TransportKept ==
  /\ pc = "transport"
  /\ \/ /\ next_header = "other" \/ ~ports_available
        /\ Accept(next_header, FALSE)
        /\ UNCHANGED frameVars
     \/ /\ next_header # "other" /\ ports_available /\ Past(4)
        /\ summary' = [summary EXCEPT !["malformed"] = @ + 1, ![network] = @ + 1, ![next_header] = @ + 1]
        /\ packets' = Append(packets, [index |-> summary["packet"] - 1, network |-> network,
                                       transport |-> next_header, ports |-> FALSE])
        /\ pc' = "next"
        /\ UNCHANGED frameVars
     \/ /\ next_header # "other" /\ ports_available /\ ~Past(4)
        /\ Accept(next_header, TRUE)
        /\ reach' = base + offset + 4
        /\ UNCHANGED <<link, caplen, base, ether_type, offset, next_header, walked,
                       ports_available, total_length, network, fragments, later>>

\* parse_transport: ports only of a first fragment, and only inside the packet.
Transport ==
  /\ pc = "transport"
  /\ \/ /\ next_header = "other" \/ ~ports_available
        /\ Accept(next_header, FALSE)
        /\ UNCHANGED frameVars
     \/ /\ next_header # "other" /\ ports_available /\ Past(4)
        /\ Reject("malformed")
     \/ /\ next_header # "other" /\ ports_available /\ ~Past(4)
        /\ Accept(next_header, TRUE)
        /\ reach' = base + offset + 4
        /\ UNCHANGED <<link, caplen, base, ether_type, offset, next_header, walked,
                       ports_available, total_length, network, fragments, later>>

Decode ==
  \/ EthernetHeader \/ EtherType \/ IpVersion \/ Ipv4Header \/ Ipv6Header
  \/ ExtensionHeader \/ Transport

Over == pc \in {"done", "failed"} /\ UNCHANGED vars

Next == NextFrame \/ EndOfFile \/ Decode \/ Over

Spec == Init /\ [][Next]_vars /\ WF_vars(Decode)
-----------------------------------------------------------------------------
Decoding == {"ethernet", "tags", "ip", "ipv4", "ipv6", "extensions", "transport"}

PacketRecord ==
  [index: Nat, network: {"ipv4", "ipv6"}, transport: Transports, ports: BOOLEAN]

TypeOK ==
  /\ link \in {"ethernet", "raw", "unsupported"}
  /\ pc \in Decoding \cup {"next", "done", "failed"}
  /\ caplen \in Nat /\ base \in Nat /\ offset \in Nat /\ total_length \in Nat /\ reach \in Nat
  /\ walked \in 0 .. 8
  /\ ether_type \in {"vlan", "ip", "other"}
  /\ next_header \in Headers
  /\ network \in {"unknown", "ipv4", "ipv6"}
  /\ ports_available \in BOOLEAN
  /\ fragments \in Nat /\ later \in BOOLEAN
  /\ summary \in [Counters -> Nat]
  /\ packets \in Seq(PacketRecord)

\* No byte is read that was not captured, and once the length of the IP packet is
\* known none behind its end: ports never come from Ethernet padding.
ReadsInsidePacket ==
  /\ reach <= caplen
  /\ total_length > 0 => reach <= base + total_length

\* Every frame is counted once: it is a packet or one of three rejections, and
\* every packet has one network and one transport.
CountsAddUp ==
  pc \notin Decoding =>
    /\ summary["packet"] =
         Len(packets) + summary["malformed"] + summary["non_ip"] + summary["unsupported"]
    /\ summary["ipv4"] + summary["ipv6"] = Len(packets)
    /\ summary["tcp"] + summary["udp"] + summary["other"] = Len(packets)

\* A later fragment carries no ports.  The code keeps this for a packet with one
\* fragment field, which is what fragmentation produces; of several fragment
\* headers it believes the last.
LaterFragmentsHaveNoPorts ==
  pc = "next" /\ fragments = 1 /\ later /\ packets # <<>> =>
    LET last == packets[Len(packets)]
    IN  last.index = summary["packet"] - 1 => ~last.ports

\* Decoding ends for every frame, however its tags and headers are nested.
EveryFrameEnds == pc \in Decoding ~> pc = "next"
=============================================================================
