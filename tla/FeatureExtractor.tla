-------------------------- MODULE FeatureExtractor --------------------------
(***************************************************************************)
(* extract_features (feature_extractor.cpp) and assign_direction           *)
(* (windowing.cpp): what is computed from the packets of one window.       *)
(*                                                                         *)
(* A packet is [time, length, direction, transport] with integer time and  *)
(* length, and the packets of a window are a function from their positions *)
(* in the capture.  A mean is kept as <<sum, count>>, a deviation as the   *)
(* variance it is the root of, a quantile in quarters of a unit, so that   *)
(* nothing is rounded.  The quotients of other fields are left out.        *)
(***************************************************************************)
EXTENDS Integers, Functions, FiniteSetsExt

Directions == {"outbound", "inbound", "unknown"}
Transports == {"tcp", "udp", "other"}

\* A packet from the device to itself is outbound: the source is compared first.
assign_direction(packet, device_ip, no_ip) ==
  IF device_ip = no_ip THEN "unknown"
  ELSE IF packet.source = device_ip THEN "outbound"
  ELSE IF packet.destination = device_ip THEN "inbound"
  ELSE "unknown"

Size(values) == Cardinality(DOMAIN values)

\* std::sort: the n-th value is the smallest that is not less than n of them.
Sorted(values) ==
  [n \in 1 .. Size(values) |->
     Min({v \in Range(values) : n <= Cardinality({i \in DOMAIN values : values[i] <= v})})]

\* average: nothing has the average zero.
average(values) == <<SumFunction(values), Size(values)>>

\* standard_deviation: n * sum of squares - square of the sum, over n * n.
variance(values) ==
  LET n == Size(values)
      squares == [i \in DOMAIN values |-> values[i] * values[i]]
  IN  IF n < 2 THEN <<0, 1>>
      ELSE <<n * SumFunction(squares) - SumFunction(values) * SumFunction(values), n * n>>

\* Mutant: the position is a fraction of the number of values.
quantile_of_size(sorted, quarters) ==
  LET size == Size(sorted)
      place == quarters * size
      lower == Min({(place \div 4) + 1, size})
      upper == Min({lower + 1, size})
  IN  IF size = 0 THEN 0
      ELSE 4 * sorted[lower] + (sorted[upper] - sorted[lower]) * (place % 4)

\* quantile(sorted, quarters / 4), times 4: linear between the neighbours of the
\* position (n - 1) * quarters / 4, counted from zero.
quantile(sorted, quarters) ==
  LET place == quarters * (Size(sorted) - 1)
      lower == (place \div 4) + 1
      upper == IF place % 4 = 0 THEN lower ELSE lower + 1
  IN  IF Size(sorted) = 0 THEN 0
      ELSE 4 * sorted[lower] + (sorted[upper] - sorted[lower]) * (place % 4)

\* The figures of one list of values; of the gaps the code leaves q1 and q3 out.
Summary(values) ==
  LET size   == Size(values)
      sorted == Sorted(values)
  IN  [ mean     |-> average(values),
        variance |-> variance(values),
        min      |-> IF size = 0 THEN 0 ELSE sorted[1],
        max      |-> IF size = 0 THEN 0 ELSE sorted[size],
        q1       |-> quantile(sorted, 1),
        median   |-> quantile(sorted, 2),
        q3       |-> quantile(sorted, 3) ]

\* The inter-arrival times, one fewer than the packets.
Following(i, positions) == Min({j \in positions : i < j})

iats(packets) ==
  [i \in DOMAIN packets \ {Max(DOMAIN packets)} |->
     packets[Following(i, DOMAIN packets)].time - packets[i].time]

sizes(packets) == [i \in DOMAIN packets |-> packets[i].length]

\* The two chains of comparisons: a packet counts once in each.
InDirection(packets, direction) == {i \in DOMAIN packets : packets[i].direction = direction}
OverTransport(packets, transport) == {i \in DOMAIN packets : packets[i].transport = transport}

extract_features(packets, duration) ==
  [ duration       |-> duration,
    packet_count   |-> Size(packets),
    total_ip_bytes |-> SumFunction(sizes(packets)),
    ip_size        |-> Summary(sizes(packets)),
    iat            |-> Summary(iats(packets)),
    packets        |-> [d \in Directions |-> Cardinality(InDirection(packets, d))],
    bytes          |-> [d \in Directions |->
                          SumFunctionOnSet(sizes(packets), InDirection(packets, d))],
    transport      |-> [t \in Transports |-> Cardinality(OverTransport(packets, t))] ]
=============================================================================
