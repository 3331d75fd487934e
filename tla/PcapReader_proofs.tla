-------------------------- MODULE PcapReader_proofs --------------------------
(***************************************************************************)
(* What the frame decoder keeps for every capture: it reads no byte that   *)
(* was not captured or that lies behind the IP packet, its counts add up,  *)
(* and it finds no ports in a later fragment.                              *)
(***************************************************************************)
EXTENDS PcapReader, TLAPS

\* Where the decoder is inside the frame.
Layout ==
  /\ reach <= caplen
  /\ pc \in {"ethernet", "tags", "ip", "ipv4", "ipv6"} => total_length = 0
  /\ pc = "ethernet" => base = 0
  /\ pc = "tags" => base = 0 /\ offset <= caplen
  /\ pc \in {"ip", "ipv4", "ipv6"} => base <= caplen
  /\ total_length > 0 => base + total_length <= caplen /\ reach <= base + total_length
  /\ pc \in {"extensions", "transport"} => total_length > 0 /\ offset <= total_length

\* The counters, seen apart from each other.
Rejected == summary["malformed"] + summary["non_ip"] + summary["unsupported"]
Networks == summary["ipv4"] + summary["ipv6"]
Carried  == summary["tcp"] + summary["udp"] + summary["other"]

Balance ==
  /\ summary["packet"] = Len(packets) + Rejected + (IF pc \in Decoding THEN 1 ELSE 0)
  /\ Networks = Len(packets)
  /\ Carried = Len(packets)

\* What accepting a packet rests on.
Ready ==
  /\ pc \in {"extensions", "transport"} => network \in {"ipv4", "ipv6"}
  /\ pc = "transport" => next_header \in Transports
  /\ pc \in Decoding => summary["packet"] > 0

\* A rejected frame moves one of three counters by one, whichever it is.
LEMMA RejectBalances ==
  ASSUME TypeOK, Balance, pc \in Decoding, NEW result \in Rejections, Reject(result)
  PROVE  Balance' /\ summary' \in [Counters -> Nat]
<1>1. summary' = [summary EXCEPT ![result] = summary[result] + 1] /\ packets' = packets /\ pc' = "next"
  BY DEF Reject
<1>2. summary \in [Counters -> Nat]
  BY DEF TypeOK
<1>3. result \in Counters
  BY DEF Counters, Rejections
<1>4. summary' \in [Counters -> Nat]
  BY <1>1, <1>2, <1>3
<1>5. /\ summary'["packet"] = summary["packet"]
      /\ Networks' = Networks /\ Carried' = Carried
  BY <1>1, <1>2 DEF Counters, Transports, Rejections, Networks, Carried
<1>6. Rejected' = Rejected + 1
  BY <1>1, <1>2 DEF Counters, Transports, Rejections, Rejected
<1>7. packets \in Seq(PacketRecord)
  BY DEF TypeOK
<1>8. Len(packets) \in Nat /\ summary["packet"] \in Nat /\ Rejected \in Nat
  BY <1>2, <1>7 DEF Counters, Transports, Rejections, Rejected
<1> QED
  BY <1>1, <1>4, <1>5, <1>6, <1>8 DEF Balance, Decoding

\* An accepted one moves one network and one transport counter, and is kept.
LEMMA AcceptBalances ==
  ASSUME TypeOK, Balance, Ready, pc = "transport", NEW ports \in BOOLEAN,
         Accept(next_header, ports)
  PROVE  Balance' /\ summary' \in [Counters -> Nat] /\ packets' \in Seq(PacketRecord)
<1> DEFINE packet == [index |-> summary["packet"] - 1, network |-> network,
                      transport |-> next_header, ports |-> ports]
<1>1. /\ summary' = [counter \in Counters |->
           IF counter \in {network, next_header} THEN summary[counter] + 1 ELSE summary[counter]]
      /\ packets' = Append(packets, packet) /\ pc' = "next"
  BY DEF Accept
<1>2. summary \in [Counters -> Nat] /\ packets \in Seq(PacketRecord)
  BY DEF TypeOK
<1>3. network \in {"ipv4", "ipv6"} /\ next_header \in Transports /\ summary["packet"] > 0
  BY DEF Ready, Decoding
<1>4. packet \in PacketRecord
  BY <1>2, <1>3 DEF PacketRecord, Counters
<1>5. packets' \in Seq(PacketRecord) /\ Len(packets') = Len(packets) + 1 /\ Len(packets) \in Nat
  BY <1>1, <1>2, <1>4
<1>7. /\ summary' \in [Counters -> Nat]
      /\ \A c \in Counters :
           summary'[c] = IF c \in {network, next_header} THEN summary[c] + 1 ELSE summary[c]
  BY <1>1, <1>2
<1>8. {"packet", "ipv4", "ipv6", "tcp", "udp", "other", "malformed", "non_ip", "unsupported"}
         \subseteq Counters
  BY DEF Counters, Transports, Rejections
<1>9. summary'["packet"] = summary["packet"] /\ Rejected' = Rejected
  BY <1>2, <1>3, <1>7, <1>8 DEF Transports, Rejected
<1>10. Networks' = Networks + 1 /\ Carried' = Carried + 1
  <2> DEFINE ip == {"ipv4", "ipv6"}
  <2>0. \A n \in ip :
          summary'[n] = (IF n = network THEN summary[n] + 1 ELSE summary[n]) /\ summary[n] \in Nat
    BY <1>2, <1>3, <1>7, <1>8 DEF Transports
  <2>1. Networks' = Networks + 1
    BY <1>3, <2>0 DEF Networks
  <2>2. \A t \in Transports :
          summary'[t] = (IF t = next_header THEN summary[t] + 1 ELSE summary[t]) /\ summary[t] \in Nat
    BY <1>2, <1>3, <1>7 DEF Counters, Transports
  <2>3. Carried' = Carried + 1
    BY <1>3, <2>2 DEF Carried, Transports
  <2> QED
    BY <2>1, <2>3
<1>11. summary["packet"] \in Nat /\ Rejected \in Nat
  BY <1>2 DEF Counters, Transports, Rejections, Rejected
<1> QED
  BY <1>1, <1>5, <1>7, <1>9, <1>10, <1>11 DEF Balance, Decoding

DecoderInv == TypeOK /\ Layout /\ Balance /\ Ready

LEMMA RejectKeeps ==
  ASSUME DecoderInv, pc \in Decoding, NEW result \in Rejections, Reject(result)
  PROVE  DecoderInv'
<1>1. Balance' /\ summary' \in [Counters -> Nat]
  BY RejectBalances DEF DecoderInv
<1>2. pc' = "next" /\ UNCHANGED <<frameVars, packets>>
  BY DEF Reject
<1>3. TypeOK'
  BY <1>1, <1>2 DEF DecoderInv, TypeOK, frameVars, fieldVars
<1>4. Layout'
  BY <1>2 DEF DecoderInv, Layout, frameVars, fieldVars
<1>5. Ready'
  BY <1>2 DEF Ready, Decoding
<1> QED
  BY <1>1, <1>3, <1>4, <1>5 DEF DecoderInv

\* A step inside a frame leaves the results alone.
LEMMA DecodingBalances ==
  ASSUME DecoderInv, pc \in Decoding, pc' \in Decoding, UNCHANGED resultVars
  PROVE  /\ Balance' /\ summary' \in [Counters -> Nat] /\ packets' \in Seq(PacketRecord)
         /\ summary'["packet"] > 0
BY DEF DecoderInv, TypeOK, Balance, Ready, resultVars, Rejected, Networks, Carried

LEMMA InitInv == Init => DecoderInv
<1> SUFFICES ASSUME Init PROVE DecoderInv
  OBVIOUS
<1>1. /\ base = 0 /\ offset = 0 /\ total_length = 0 /\ walked = 0 /\ reach = 0 /\ caplen = 0
      /\ pc \in {"next", "failed"} /\ packets = <<>>
      /\ summary = [counter \in Counters |-> 0]
  BY DEF Init
<1>2. TypeOK
  <2>1. ports_available \in BOOLEAN /\ later \in BOOLEAN
    BY Zenon DEF Init
  <2>2. summary \in [Counters -> Nat] /\ packets \in Seq(PacketRecord)
    BY <1>1
  <2>3. /\ link \in {"ethernet", "raw", "unsupported"} /\ ether_type = "other"
        /\ next_header = "other" /\ network = "unknown" /\ fragments = 0
    BY DEF Init
  <2> QED
    BY <1>1, <2>1, <2>2, <2>3 DEF TypeOK, Headers, Transports
<1>3. Layout
  BY <1>1 DEF Layout
<1>4. \A c \in {"packet", "ipv4", "ipv6", "tcp", "udp", "other", "malformed", "non_ip",
                "unsupported"} : summary[c] = 0
  BY <1>1 DEF Counters, Transports, Rejections
<1>5. Len(packets) = 0
  BY <1>1
<1>6. Balance
  BY <1>1, <1>4, <1>5 DEF Balance, Rejected, Networks, Carried, Decoding
<1>7. Ready
  BY <1>1 DEF Ready, Decoding
<1> QED
  BY <1>2, <1>3, <1>6, <1>7 DEF DecoderInv

LEMMA NextFrameInv == DecoderInv /\ NextFrame => DecoderInv'
<1> SUFFICES ASSUME DecoderInv, NextFrame PROVE DecoderInv'
  OBVIOUS
<1>1. /\ pc = "next" /\ caplen' \in CapturedLengths /\ pc' \in {"ethernet", "ip"}
      /\ base' = 0 /\ offset' = 0 /\ total_length' = 0 /\ walked' = 0 /\ reach' = 0
      /\ summary' = [summary EXCEPT !["packet"] = summary["packet"] + 1]
      /\ packets' = packets /\ link' = link
      /\ ether_type' = "other" /\ next_header' = "other" /\ network' = "unknown"
      /\ ports_available' = TRUE /\ fragments' = 0 /\ later' = FALSE
  BY DEF NextFrame
<1>2. caplen' \in Nat
  BY <1>1, PcapAssumption
<1>3. /\ summary \in [Counters -> Nat] /\ packets \in Seq(PacketRecord)
      /\ "packet" \in Counters
  BY DEF DecoderInv, TypeOK, Counters
<1>4. summary' \in [Counters -> Nat]
  BY <1>1, <1>3
<1>5. TypeOK'
  <2>1. walked' \in 0 .. 8
    BY <1>1
  <2>2. ports_available' \in BOOLEAN /\ later' \in BOOLEAN
    BY <1>1, Zenon
  <2> QED
    BY <1>1, <1>2, <1>3, <1>4, <2>1, <2>2 DEF DecoderInv, TypeOK, Decoding, Headers, Transports
<1>6. Layout'
  BY <1>1, <1>2 DEF Layout
<1>7. /\ \A c \in {"ipv4", "ipv6", "tcp", "udp", "other", "malformed", "non_ip", "unsupported"} :
           summary'[c] = summary[c]
      /\ summary'["packet"] = summary["packet"] + 1
  BY <1>1, <1>3 DEF Counters, Transports, Rejections
<1>8. Rejected' = Rejected /\ Networks' = Networks /\ Carried' = Carried
  BY <1>7 DEF Rejected, Networks, Carried
<1>9. Rejected \in Nat /\ Len(packets) \in Nat /\ summary["packet"] \in Nat
  BY <1>3 DEF Rejected, Counters, Rejections
<1>10. Balance'
  BY <1>1, <1>7, <1>8, <1>9 DEF DecoderInv, Balance, Decoding
<1>11. Ready'
  BY <1>1, <1>7, <1>9 DEF Ready
<1> QED
  BY <1>5, <1>6, <1>10, <1>11 DEF DecoderInv

LEMMA EthernetHeaderInv == DecoderInv /\ EthernetHeader => DecoderInv'
<1> SUFFICES ASSUME DecoderInv, EthernetHeader PROVE DecoderInv'
  OBVIOUS
<1>1. CASE Reject("malformed")
  BY <1>1, RejectKeeps DEF EthernetHeader, Decoding, Rejections
<1>2. CASE ~Reject("malformed")
  <2>1. /\ pc = "ethernet" /\ pc' = "tags" /\ caplen >= 14 /\ UNCHANGED resultVars
        /\ offset' = 14 /\ reach' = 14 /\ ether_type' \in {"vlan", "ip", "other"}
        /\ UNCHANGED <<link, caplen, base, next_header, walked, ports_available,
                       total_length, network, fragments, later>>
    BY <1>2 DEF EthernetHeader
  <2>2. /\ Balance' /\ summary' \in [Counters -> Nat] /\ packets' \in Seq(PacketRecord)
        /\ summary'["packet"] > 0
    BY <2>1, DecodingBalances DEF Decoding
  <2>3. TypeOK'
    BY <2>1, <2>2 DEF DecoderInv, TypeOK, Decoding
  <2>4. Layout'
    BY <2>1 DEF DecoderInv, TypeOK, Layout
  <2>5. Ready'
    BY <2>1, <2>2 DEF Ready
  <2> QED
    BY <2>2, <2>3, <2>4, <2>5 DEF DecoderInv
<1> QED
  BY <1>1, <1>2

LEMMA EtherTypeInv == DecoderInv /\ EtherType => DecoderInv'
<1> SUFFICES ASSUME DecoderInv, EtherType PROVE DecoderInv'
  OBVIOUS
<1>1. CASE Reject("malformed") \/ Reject("non_ip")
  BY <1>1, RejectKeeps DEF EtherType, Decoding, Rejections
<1>2. CASE Tag
  <2>1. /\ pc = "tags" /\ pc' = "tags" /\ caplen >= offset + 4 /\ UNCHANGED resultVars
        /\ offset' = offset + 4 /\ reach' = offset + 4 /\ ether_type' \in {"vlan", "ip", "other"}
        /\ UNCHANGED <<link, caplen, base, next_header, walked, ports_available,
                       total_length, network, fragments, later>>
    BY <1>2 DEF EtherType, Tag
  <2>2. /\ Balance' /\ summary' \in [Counters -> Nat] /\ packets' \in Seq(PacketRecord)
        /\ summary'["packet"] > 0
    BY <2>1, DecodingBalances DEF Decoding
  <2>3. TypeOK'
    BY <2>1, <2>2 DEF DecoderInv, TypeOK, Decoding
  <2>4. Layout'
    BY <2>1 DEF DecoderInv, TypeOK, Layout
  <2>5. Ready'
    BY <2>1, <2>2 DEF Ready
  <2> QED
    BY <2>2, <2>3, <2>4, <2>5 DEF DecoderInv
<1>3. CASE ~Tag /\ ~Reject("malformed") /\ ~Reject("non_ip")
  <2>1. /\ pc = "tags" /\ pc' = "ip" /\ UNCHANGED resultVars
        /\ base' = offset /\ offset' = 0
        /\ UNCHANGED <<link, caplen, ether_type, next_header, walked, ports_available,
                       total_length, network, reach, fragments, later>>
    BY <1>3 DEF EtherType
  <2>2. /\ Balance' /\ summary' \in [Counters -> Nat] /\ packets' \in Seq(PacketRecord)
        /\ summary'["packet"] > 0
    BY <2>1, DecodingBalances DEF Decoding
  <2>3. TypeOK'
    BY <2>1, <2>2 DEF DecoderInv, TypeOK, Decoding
  <2>4. Layout'
    BY <2>1 DEF DecoderInv, TypeOK, Layout
  <2>5. Ready'
    BY <2>1, <2>2 DEF Ready
  <2> QED
    BY <2>2, <2>3, <2>4, <2>5 DEF DecoderInv
<1> QED
  BY <1>1, <1>2, <1>3

LEMMA IpVersionInv == DecoderInv /\ IpVersion => DecoderInv'
<1> SUFFICES ASSUME DecoderInv, IpVersion PROVE DecoderInv'
  OBVIOUS
<1>1. CASE Reject("malformed") \/ Reject("unsupported")
  BY <1>1, RejectKeeps DEF IpVersion, Decoding, Rejections
<1>2. CASE ~Reject("malformed") /\ ~Reject("unsupported")
  <2>1. /\ pc = "ip" /\ pc' \in {"ipv4", "ipv6"} /\ UNCHANGED resultVars
        /\ caplen - base >= 1 /\ reach' = base + 1
        /\ UNCHANGED <<link, caplen, base, ether_type, offset, next_header, walked,
                       ports_available, total_length, network, fragments, later>>
    BY <1>2 DEF IpVersion, available
  <2>2. /\ Balance' /\ summary' \in [Counters -> Nat] /\ packets' \in Seq(PacketRecord)
        /\ summary'["packet"] > 0
    BY <2>1, DecodingBalances DEF Decoding
  <2>3. TypeOK'
    BY <2>1, <2>2 DEF DecoderInv, TypeOK, Decoding
  <2>4. Layout'
    BY <2>1 DEF DecoderInv, TypeOK, Layout
  <2>5. Ready'
    BY <2>1, <2>2 DEF Ready
  <2> QED
    BY <2>2, <2>3, <2>4, <2>5 DEF DecoderInv
<1> QED
  BY <1>1, <1>2

LEMMA Ipv4HeaderInv == DecoderInv /\ Ipv4Header => DecoderInv'
<1> SUFFICES ASSUME DecoderInv, Ipv4Header PROVE DecoderInv'
  OBVIOUS
<1>1. CASE Reject("malformed")
  BY <1>1, RejectKeeps DEF Ipv4Header, Decoding, Rejections
<1>2. CASE ~Reject("malformed")
  <2>1. PICK header \in HeaderLengths, total \in TotalLengths :
          /\ LengthsFit(header, total)
          /\ pc = "ipv4" /\ pc' = "transport" /\ UNCHANGED resultVars
          /\ later' \in BOOLEAN /\ fragments' = 1 /\ ports_available' = ~later'
          /\ total_length' = total /\ offset' = header
          /\ network' = "ipv4" /\ next_header' \in Transports
          /\ reach' = base + 20
          /\ UNCHANGED <<link, caplen, base, ether_type, walked>>
    BY <1>2 DEF Ipv4Header
  <2>2. /\ header \in Nat /\ total \in Nat
        /\ header >= 20 /\ total >= header /\ total <= caplen - base
    BY <2>1, PcapAssumption DEF LengthsFit, available
  <2>3. /\ Balance' /\ summary' \in [Counters -> Nat] /\ packets' \in Seq(PacketRecord)
        /\ summary'["packet"] > 0
    BY <2>1, DecodingBalances DEF Decoding
  <2>4. ports_available' \in BOOLEAN
    BY <2>1
  <2>5. TypeOK'
    BY <2>1, <2>2, <2>3, <2>4 DEF DecoderInv, TypeOK, Decoding, Headers
  <2>6. Layout'
    BY <2>1, <2>2 DEF DecoderInv, TypeOK, Layout
  <2>7. Ready'
    BY <2>1, <2>3 DEF Ready
  <2> QED
    BY <2>3, <2>5, <2>6, <2>7 DEF DecoderInv
<1> QED
  BY <1>1, <1>2

LEMMA Ipv6HeaderInv == DecoderInv /\ Ipv6Header => DecoderInv'
<1> SUFFICES ASSUME DecoderInv, Ipv6Header PROVE DecoderInv'
  OBVIOUS
<1>1. CASE Reject("malformed")
  BY <1>1, RejectKeeps DEF Ipv6Header, Decoding, Rejections
<1>2. CASE ~Reject("malformed")
  <2>1. PICK payload \in PayloadLengths :
          /\ caplen - base >= 40 + payload
          /\ pc = "ipv6" /\ pc' = "extensions" /\ UNCHANGED resultVars
          /\ total_length' = 40 + payload /\ offset' = 40
          /\ network' = "ipv6" /\ next_header' \in Headers
          /\ walked' = 0 /\ reach' = base + 40
          /\ UNCHANGED <<link, caplen, base, ether_type, ports_available, fragments, later>>
    BY <1>2 DEF Ipv6Header, available
  <2>2. payload \in Nat
    BY PcapAssumption
  <2>3. /\ Balance' /\ summary' \in [Counters -> Nat] /\ packets' \in Seq(PacketRecord)
        /\ summary'["packet"] > 0
    BY <2>1, DecodingBalances DEF Decoding
  <2>4. TypeOK'
    BY <2>1, <2>2, <2>3 DEF DecoderInv, TypeOK, Decoding
  <2>5. Layout'
    BY <2>1, <2>2 DEF DecoderInv, TypeOK, Layout
  <2>6. Ready'
    BY <2>1, <2>3 DEF Ready
  <2> QED
    BY <2>3, <2>4, <2>5, <2>6 DEF DecoderInv
<1> QED
  BY <1>1, <1>2

\* A walked extension header, whatever its kind.
LEMMA WalkKeeps ==
  ASSUME DecoderInv, pc = "extensions", pc' = "extensions", UNCHANGED resultVars,
         walked < 8, walked' = walked + 1, next_header' \in Headers,
         NEW size \in Nat, size >= 4, offset + size <= total_length, offset' = offset + size,
         NEW read \in Nat, read <= size, reach' = base + offset + read,
         ports_available' \in BOOLEAN, later' \in BOOLEAN, fragments' \in Nat,
         UNCHANGED <<link, caplen, base, ether_type, total_length, network>>
  PROVE  DecoderInv'
<1>1. /\ Balance' /\ summary' \in [Counters -> Nat] /\ packets' \in Seq(PacketRecord)
      /\ summary'["packet"] > 0
  BY DecodingBalances DEF Decoding
<1>2. walked' \in 0 .. 8
  BY DEF DecoderInv, TypeOK
<1>3. reach' \in Nat /\ offset' \in Nat
  BY DEF DecoderInv, TypeOK
<1>4. TypeOK'
  BY <1>1, <1>2, <1>3 DEF DecoderInv, TypeOK, Decoding
<1>5. Layout'
  BY DEF DecoderInv, TypeOK, Layout
<1>6. Ready'
  BY <1>1 DEF DecoderInv, Ready
<1> QED
  BY <1>1, <1>4, <1>5, <1>6 DEF DecoderInv

LEMMA SizedHeaderInv ==
  ASSUME DecoderInv, pc = "extensions", ~WalkedOut, NEW size \in Nat, size >= 8,
         SizedHeader(size)
  PROVE  DecoderInv'
<1>1. CASE Reject("malformed")
  BY <1>1, RejectKeeps DEF Decoding, Rejections
<1>2. CASE ~Reject("malformed")
  <2>1. /\ pc' = pc /\ UNCHANGED resultVars
        /\ ~(offset + size > total_length) /\ offset' = offset + size
        /\ reach' = base + offset + 2 /\ walked' = walked + 1 /\ next_header' \in Headers
        /\ UNCHANGED <<link, caplen, base, ether_type, ports_available, total_length, network,
                       fragments, later>>
    BY <1>2 DEF SizedHeader, Past
  <2>2. /\ offset \in Nat /\ total_length \in Nat /\ walked \in 0 .. 8
        /\ ports_available \in BOOLEAN /\ later \in BOOLEAN /\ fragments \in Nat
    BY DEF DecoderInv, TypeOK
  <2>3. offset + size <= total_length /\ walked < 8 /\ size >= 4 /\ 2 <= size /\ 2 \in Nat
    BY <2>1, <2>2 DEF WalkedOut
  <2> QED
    BY <2>1, <2>2, <2>3, WalkKeeps
<1> QED
  BY <1>1, <1>2

LEMMA ExtensionHeaderInv == DecoderInv /\ ExtensionHeader => DecoderInv'
<1> SUFFICES ASSUME DecoderInv, ExtensionHeader PROVE DecoderInv'
  OBVIOUS
<1>0. pc = "extensions"
  BY DEF ExtensionHeader
<1>1. CASE Reject("malformed") \/ Reject("unsupported")
  BY <1>0, <1>1, RejectKeeps DEF Decoding, Rejections
<1>2. CASE ~WalkedOut /\ next_header = "options"
            /\ \E byte \in LengthBytes : SizedHeader((byte + 1) * 8)
  <2>1. PICK byte \in LengthBytes : SizedHeader((byte + 1) * 8)
    BY <1>2
  <2>2. (byte + 1) * 8 \in Nat /\ (byte + 1) * 8 >= 8
    BY PcapAssumption
  <2> QED
    BY <1>0, <1>2, <2>1, <2>2, SizedHeaderInv
<1>3. CASE ~WalkedOut /\ next_header = "authentication"
            /\ \E byte \in LengthBytes : SizedHeader((byte + 2) * 4)
  <2>1. PICK byte \in LengthBytes : SizedHeader((byte + 2) * 4)
    BY <1>3
  <2>2. (byte + 2) * 4 \in Nat /\ (byte + 2) * 4 >= 8
    BY PcapAssumption
  <2> QED
    BY <1>0, <1>3, <2>1, <2>2, SizedHeaderInv
<1>4. CASE ~WalkedOut /\ Fragment
  <2>1. PICK says \in BOOLEAN : ports_available' = ~says /\ later' = (later \/ says)
    BY <1>4 DEF Fragment
  <2>2. /\ pc' = pc /\ UNCHANGED resultVars
        /\ ~(offset + 8 > total_length) /\ offset' = offset + 8 /\ fragments' = fragments + 1
        /\ reach' = base + offset + 4 /\ walked' = walked + 1 /\ next_header' \in Headers
        /\ UNCHANGED <<link, caplen, base, ether_type, total_length, network>>
    BY <1>4 DEF Fragment, Past
  <2>3. /\ offset \in Nat /\ total_length \in Nat /\ walked \in 0 .. 8
        /\ later \in BOOLEAN /\ fragments \in Nat
    BY DEF DecoderInv, TypeOK
  <2>4. /\ offset + 8 <= total_length /\ walked < 8 /\ fragments' \in Nat
        /\ 8 \in Nat /\ 4 \in Nat /\ 8 >= 4 /\ 4 <= 8
    BY <1>4, <2>2, <2>3 DEF WalkedOut
  <2>5. ports_available' \in BOOLEAN /\ later' \in BOOLEAN
    BY <2>1, <2>3
  <2> QED
    BY <1>0, <2>2, <2>4, <2>5, WalkKeeps
<1>5. CASE next_header \in Transports /\ pc' = "transport" /\ UNCHANGED <<frameVars, resultVars>>
  <2>1. UNCHANGED <<link, caplen, base, ether_type, offset, next_header, walked,
                    ports_available, total_length, network, reach, fragments, later>>
    BY <1>5 DEF frameVars, fieldVars
  <2>2. /\ Balance' /\ summary' \in [Counters -> Nat] /\ packets' \in Seq(PacketRecord)
        /\ summary'["packet"] > 0
    BY <1>0, <1>5, DecodingBalances DEF Decoding
  <2>3. TypeOK'
    BY <1>5, <2>1, <2>2 DEF DecoderInv, TypeOK, Decoding
  <2>4. Layout'
    BY <1>0, <1>5, <2>1 DEF DecoderInv, TypeOK, Layout
  <2>5. Ready'
    BY <1>0, <1>5, <2>1, <2>2 DEF DecoderInv, Ready
  <2> QED
    BY <2>2, <2>3, <2>4, <2>5 DEF DecoderInv
<1> QED
  BY <1>1, <1>2, <1>3, <1>4, <1>5 DEF ExtensionHeader

LEMMA TransportInv == DecoderInv /\ Transport => DecoderInv'
<1> SUFFICES ASSUME DecoderInv, Transport PROVE DecoderInv'
  OBVIOUS
<1>0. pc = "transport"
  BY DEF Transport
<1>1. CASE Reject("malformed")
  BY <1>0, <1>1, RejectKeeps DEF Decoding, Rejections
<1>2. CASE Accept(next_header, FALSE) /\ UNCHANGED frameVars
  <2>1. /\ UNCHANGED <<link, caplen, base, ether_type, offset, next_header, walked,
                       ports_available, total_length, network, reach, fragments, later>>
        /\ pc' = "next"
    BY <1>2 DEF frameVars, fieldVars, Accept
  <2>2. Balance' /\ summary' \in [Counters -> Nat] /\ packets' \in Seq(PacketRecord)
    BY <1>0, <1>2, AcceptBalances DEF DecoderInv
  <2>3. TypeOK'
    BY <2>1, <2>2 DEF DecoderInv, TypeOK
  <2>4. Layout'
    BY <2>1 DEF DecoderInv, Layout
  <2>5. Ready'
    BY <2>1 DEF Ready, Decoding
  <2> QED
    BY <2>2, <2>3, <2>4, <2>5 DEF DecoderInv
<1>3. CASE /\ Accept(next_header, TRUE) /\ ~Past(4) /\ reach' = base + offset + 4
           /\ UNCHANGED <<link, caplen, base, ether_type, offset, next_header, walked,
                          ports_available, total_length, network, fragments, later>>
  <2>1. pc' = "next" /\ ~(offset + 4 > total_length)
    BY <1>3 DEF Accept, Past
  <2>2. Balance' /\ summary' \in [Counters -> Nat] /\ packets' \in Seq(PacketRecord)
    BY <1>0, <1>3, AcceptBalances DEF DecoderInv
  <2>3. reach' \in Nat
    BY <1>3 DEF DecoderInv, TypeOK
  <2>4. TypeOK'
    BY <1>3, <2>1, <2>2, <2>3 DEF DecoderInv, TypeOK
  <2>5. Layout'
    BY <1>0, <1>3, <2>1 DEF DecoderInv, TypeOK, Layout
  <2>6. Ready'
    BY <2>1 DEF Ready, Decoding
  <2> QED
    BY <2>2, <2>4, <2>5, <2>6 DEF DecoderInv
<1> QED
  BY <1>1, <1>2, <1>3 DEF Transport

LEMMA StutterInv ==
  ASSUME DecoderInv, UNCHANGED <<frameVars, resultVars>>,
         pc' = pc \/ (pc \notin Decoding /\ pc' \in {"next", "done", "failed"})
  PROVE  DecoderInv'
<1>1. UNCHANGED <<link, caplen, base, ether_type, offset, next_header, walked, ports_available,
                  total_length, network, reach, fragments, later, summary, packets>>
  BY DEF frameVars, fieldVars, resultVars
<1>2. TypeOK'
  BY <1>1 DEF DecoderInv, TypeOK
<1>3. Layout' /\ Balance' /\ Ready'
  BY <1>1 DEF DecoderInv, Layout, Balance, Ready, Rejected, Networks, Carried, Decoding
<1> QED
  BY <1>2, <1>3 DEF DecoderInv

LEMMA StepInv == DecoderInv /\ [Next]_vars => DecoderInv'
<1> SUFFICES ASSUME DecoderInv, [Next]_vars PROVE DecoderInv'
  OBVIOUS
<1>1. CASE NextFrame
  BY <1>1, NextFrameInv
<1>2. CASE EndOfFile
  BY <1>2, StutterInv DEF EndOfFile, Decoding
<1>3. CASE Decode
  BY <1>3, EthernetHeaderInv, EtherTypeInv, IpVersionInv, Ipv4HeaderInv, Ipv6HeaderInv,
     ExtensionHeaderInv, TransportInv DEF Decode
<1>4. CASE Over \/ UNCHANGED vars
  BY <1>4, StutterInv DEF Over, vars
<1> QED
  BY <1>1, <1>2, <1>3, <1>4 DEF Next

LEMMA DecoderInvariance == Spec => []DecoderInv
<1>1. DecoderInv /\ [Next]_vars => DecoderInv'
  BY StepInv
<1> QED
  BY <1>1, InitInv, PTL DEF Spec

\* The decoder's state has its types.
THEOREM TypeCorrect == Spec => []TypeOK
<1>1. DecoderInv => TypeOK
  BY DEF DecoderInv
<1> QED
  BY <1>1, DecoderInvariance, PTL

\* For every capture, whatever its lengths say, the decoder stays inside what was
\* captured of a frame and inside its IP packet (parse_ethernet, parse_ip).
THEOREM ReadsAreBounded == Spec => []ReadsInsidePacket
<1>1. DecoderInv => ReadsInsidePacket
  BY DEF DecoderInv, Layout, ReadsInsidePacket
<1> QED
  BY <1>1, DecoderInvariance, PTL

\* The summary of every capture adds up (read_pcap, update_protocol_counts).
THEOREM CountsBalance == Spec => []CountsAddUp
<1>1. DecoderInv => CountsAddUp
  <2> SUFFICES ASSUME DecoderInv, pc \notin Decoding
               PROVE  /\ summary["packet"] = Len(packets) + summary["malformed"] +
                                             summary["non_ip"] + summary["unsupported"]
                      /\ summary["ipv4"] + summary["ipv6"] = Len(packets)
                      /\ summary["tcp"] + summary["udp"] + summary["other"] = Len(packets)
    BY DEF CountsAddUp
  <2>1. Len(packets) \in Nat /\ summary \in [Counters -> Nat]
    BY DEF DecoderInv, TypeOK
  <2>2. summary["malformed"] \in Nat /\ summary["non_ip"] \in Nat /\ summary["unsupported"] \in Nat
    BY <2>1 DEF Counters, Rejections
  <2> QED
    BY <2>1, <2>2 DEF DecoderInv, Balance, Rejected, Networks, Carried
<1> QED
  BY <1>1, DecoderInvariance, PTL
-----------------------------------------------------------------------------
(* Fragments: what the fields read so far say, and which packet is whose.  *)

FragmentInv ==
  /\ fragments = 0 => ~later
  /\ fragments = 1 /\ later => ~ports_available
  /\ \A i \in 1 .. Len(packets) :
       packets[i].index < (IF pc \in Decoding THEN summary["packet"] - 1 ELSE summary["packet"])
  /\ LaterFragmentsHaveNoPorts

\* A step inside a frame reads no fragment field, the only one, or another one.
FieldStep ==
  \/ UNCHANGED <<fragments, later, ports_available>>
  \/ fragments' = 1 /\ later' \in BOOLEAN /\ ports_available' = ~later'
  \/ \E says \in BOOLEAN :
       fragments' = fragments + 1 /\ later' = (later \/ says) /\ ports_available' = ~says

\* The frame ends with a packet.
Delivered ==
  /\ pc = "transport" /\ UNCHANGED <<fragments, later, ports_available>>
  /\ \E ports \in BOOLEAN : Accept(next_header, ports) /\ (ports => ports_available)

LEMMA DecodeCases ==
  ASSUME Decode
  PROVE  /\ pc \in Decoding
         /\ \/ \E result \in Rejections : Reject(result)
            \/ pc' \in Decoding /\ UNCHANGED resultVars /\ FieldStep
            \/ Delivered
<1> DEFINE Rejected1 == \E result \in Rejections : Reject(result)
           Inside    == pc' \in Decoding /\ UNCHANGED resultVars /\ FieldStep
<1>1. pc \in Decoding
  BY DEF Decode, EthernetHeader, EtherType, IpVersion, Ipv4Header, Ipv6Header, ExtensionHeader,
         Transport, Decoding
<1>2. ASSUME Reject("malformed") \/ Reject("non_ip") \/ Reject("unsupported") PROVE Rejected1
  BY <1>2 DEF Rejections
<1>3. CASE EthernetHeader \/ EtherType \/ IpVersion
  <2>1. Rejected1 \/ Inside
    BY <1>2, <1>3 DEF EthernetHeader, EtherType, Tag, IpVersion, Decoding, FieldStep
  <2>2. QED
    BY <1>1, <2>1
<1>4. CASE Ipv4Header
  <2>1. \/ Reject("malformed")
        \/ /\ later' \in BOOLEAN /\ fragments' = 1 /\ ports_available' = ~later'
           /\ pc' = "transport" /\ UNCHANGED resultVars
    BY <1>4 DEF Ipv4Header
  <2>2. QED
    BY <1>1, <1>2, <2>1 DEF Decoding, FieldStep
<1>5. CASE Ipv6Header
  <2>1. \/ Reject("malformed")
        \/ /\ UNCHANGED <<ports_available, fragments, later>>
           /\ pc' = "extensions" /\ UNCHANGED resultVars
    BY <1>5 DEF Ipv6Header
  <2>2. QED
    BY <1>1, <1>2, <2>1 DEF Decoding, FieldStep
<1>6. CASE ExtensionHeader
  <2>1. ASSUME NEW size, SizedHeader(size) PROVE Rejected1 \/ Inside
    BY <1>1, <1>2, <2>1 DEF SizedHeader, FieldStep
  <2>2. ASSUME Fragment PROVE Inside
    BY <1>1, <2>2 DEF Fragment, FieldStep
  <2>3. ASSUME pc' = "transport", UNCHANGED <<frameVars, resultVars>> PROVE Inside
    BY <2>3 DEF frameVars, fieldVars, FieldStep, Decoding
  <2>4. QED
    BY <1>1, <1>2, <1>6, <2>1, <2>2, <2>3 DEF ExtensionHeader
<1>7. CASE Transport
  <2>1. Reject("malformed") \/ Delivered
    BY <1>7, TRUE \in BOOLEAN, FALSE \in BOOLEAN DEF Transport, Delivered, frameVars, fieldVars
  <2>2. QED
    BY <1>1, <1>2, <2>1
<1>8. QED
  BY <1>3, <1>4, <1>5, <1>6, <1>7 DEF Decode

LEMMA FragmentInit == Init => FragmentInv
<1> SUFFICES ASSUME Init PROVE FragmentInv
  OBVIOUS
<1>1. fragments = 0 /\ ~later /\ packets = <<>>
  BY DEF Init
<1>2. QED
  BY <1>1 DEF FragmentInv, LaterFragmentsHaveNoPorts

LEMMA FragmentStep == DecoderInv /\ FragmentInv /\ [Next]_vars => FragmentInv'
<1> SUFFICES ASSUME DecoderInv, FragmentInv, [Next]_vars PROVE FragmentInv'
  OBVIOUS
<1> DEFINE count == summary["packet"]
<1>1. /\ packets \in Seq(PacketRecord) /\ Len(packets) \in Nat
      /\ \A i \in 1 .. Len(packets) : packets[i].index \in Nat
      /\ summary \in [Counters -> Nat] /\ count \in Nat /\ "packet" \in Counters
      /\ fragments \in Nat
  <2>1. /\ packets \in Seq(PacketRecord) /\ summary \in [Counters -> Nat] /\ fragments \in Nat
    BY DEF DecoderInv, TypeOK
  <2>2. "packet" \in Counters
    BY DEF Counters
  <2>3. \A i \in 1 .. Len(packets) : packets[i] \in PacketRecord
    BY <2>1
  <2>4. \A packet \in PacketRecord : packet.index \in Nat
    BY DEF PacketRecord
  <2>5. QED
    BY <2>1, <2>2, <2>3, <2>4
<1>2. packets # <<>> => Len(packets) \in 1 .. Len(packets)
  BY <1>1
<1>3. CASE NextFrame
  <2>1. /\ pc = "next" /\ pc' \in {"ethernet", "ip"} /\ packets' = packets
        /\ fragments' = 0 /\ ~later' /\ summary'["packet"] = count + 1
    BY <1>1, <1>3 DEF NextFrame
  <2>2. \A i \in 1 .. Len(packets) : packets[i].index < (count + 1) - 1
    BY <1>1, <2>1 DEF FragmentInv, Decoding
  <2>3. QED
    BY <2>1, <2>2 DEF FragmentInv, LaterFragmentsHaveNoPorts, Decoding
<1>4. ASSUME NEW result \in Rejections, Reject(result), pc \in Decoding PROVE FragmentInv'
  <2>1. /\ UNCHANGED <<fragments, later, ports_available, packets>> /\ pc' = "next"
        /\ summary'["packet"] = count
    BY <1>1, <1>4 DEF Reject, frameVars, fieldVars, Rejections
  <2>2. \A i \in 1 .. Len(packets) : packets[i].index < count - 1 /\ packets[i].index < count
    BY <1>1, <1>4 DEF FragmentInv
  <2>3. packets # <<>> => packets[Len(packets)].index # count - 1
    BY <1>1, <1>2, <2>2
  <2>4. QED
    BY <2>1, <2>2, <2>3 DEF FragmentInv, LaterFragmentsHaveNoPorts, Decoding
<1>5. ASSUME pc \in Decoding, pc' \in Decoding, UNCHANGED resultVars, FieldStep
      PROVE  FragmentInv'
  <2>1. (fragments' = 0 => ~later') /\ (fragments' = 1 /\ later' => ~ports_available')
    <3>1. CASE UNCHANGED <<fragments, later, ports_available>>
      BY <3>1 DEF FragmentInv
    <3>2. CASE fragments' = 1 /\ later' \in BOOLEAN /\ ports_available' = ~later'
      <4>1. fragments' # 0
        BY <3>2
      <4>2. QED
        BY <3>2, <4>1, Zenon
    <3>3. ASSUME NEW says \in BOOLEAN,
                 fragments' = fragments + 1, later' = (later \/ says), ports_available' = ~says
          PROVE  (fragments' = 0 => ~later') /\ (fragments' = 1 /\ later' => ~ports_available')
      <4>1. fragments' # 0 /\ (fragments' = 1 => fragments = 0)
        BY <1>1, <3>3
      <4>2. fragments' = 1 => (later' <=> says)
        BY <3>3, <4>1 DEF FragmentInv
      <4>3. QED
        BY <3>3, <4>1, <4>2
    <3>4. QED
      BY <1>5, <3>1, <3>2, <3>3 DEF FieldStep
  <2>2. QED
    BY <1>5, <2>1 DEF FragmentInv, LaterFragmentsHaveNoPorts, Decoding, resultVars
<1>6. ASSUME Delivered PROVE FragmentInv'
  <2>1. PICK ports \in BOOLEAN : Accept(next_header, ports) /\ (ports => ports_available)
    BY <1>6 DEF Delivered
  <2> DEFINE packet == [index |-> count - 1, network |-> network,
                        transport |-> next_header, ports |-> ports]
  <2>2. /\ pc = "transport" /\ pc' = "next" /\ packets' = Append(packets, packet)
        /\ UNCHANGED <<fragments, later, ports_available>>
    BY <1>6, <2>1 DEF Delivered, Accept
  <2>3. summary'["packet"] = count
    <3>1. "packet" \notin {network, next_header}
      BY <2>2 DEF DecoderInv, Ready, Transports
    <3>2. QED
      BY <1>1, <2>1, <3>1 DEF Accept
  <2>4. packet.index = count - 1 /\ packet.ports = ports /\ count > 0
    BY <2>2 DEF DecoderInv, Ready, Decoding
  <2>5. /\ Len(packets)' = Len(packets) + 1 /\ packets'[Len(packets)'] = packet
        /\ \A i \in 1 .. Len(packets) : packets'[i] = packets[i]
    BY <1>1, <2>2
  <2>6. \A i \in 1 .. Len(packets)' : packets'[i].index < count
    <3>1. \A i \in 1 .. Len(packets) : packets[i].index < count
      BY <1>1, <2>2 DEF FragmentInv, Decoding
    <3>2. packet.index < count
      BY <1>1, <2>4
    <3>3. \A i \in 1 .. Len(packets)' : i = Len(packets)' \/ i \in 1 .. Len(packets)
      BY <1>1, <2>5
    <3>4. QED
      BY <2>5, <3>1, <3>2, <3>3
  <2>7. fragments = 1 /\ later => ~packets'[Len(packets)'].ports
    BY <2>1, <2>4, <2>5 DEF FragmentInv
  <2>8. QED
    BY <2>2, <2>3, <2>6, <2>7 DEF FragmentInv, LaterFragmentsHaveNoPorts, Decoding
<1>7. CASE Decode
  BY <1>4, <1>5, <1>6, <1>7, DecodeCases
<1>8. CASE EndOfFile \/ Over \/ UNCHANGED vars
  <2>1. /\ UNCHANGED <<fragments, later, ports_available, summary, packets>>
        /\ pc' = pc \/ (pc = "next" /\ pc' \in {"done", "failed"})
    BY <1>8 DEF EndOfFile, Over, vars, frameVars, fieldVars, resultVars
  <2>2. QED
    BY <2>1 DEF FragmentInv, LaterFragmentsHaveNoPorts, Decoding
<1>9. QED
  BY <1>3, <1>7, <1>8 DEF Next

(***************************************************************************)
(* Of every capture: a packet whose only fragment field says `later        *)
(* fragment' is delivered without ports, also when the next bytes look     *)
(* like some (parse_ipv4, parse_ipv6, parse_transport).                    *)
(***************************************************************************)
THEOREM FragmentsHaveNoPorts == Spec => []LaterFragmentsHaveNoPorts
<1>1. FragmentInv => LaterFragmentsHaveNoPorts
  BY DEF FragmentInv
<1> QED
  BY <1>1, FragmentInit, FragmentStep, DecoderInvariance, PTL DEF Spec
=============================================================================
