-------------------------- MODULE MCDatasetCommands --------------------------
(* Three rows over two captures; the first capture, written in two ways, has *)
(* packets at the edges of windows, its second version starts with a frame   *)
(* that is no packet; the second capture goes back in time.                  *)
EXTENDS DatasetCommands

CONSTANTS c1, c2, p1, p1dot, p2, s1, s2, s3

\* p1 is x.pcap and p1dot is ./x.pcap.
MCNormal == [p \in {p1, p1dot, p2} |-> IF p = p2 THEN c2 ELSE c1]

Phone == "phone"
Server == "server"
None == "none"

\* Out, in, to itself, between others: every direction, every transport.
Traffic ==
  << [source |-> Phone, destination |-> Server, length |-> 40, transport |-> "tcp"],
     [source |-> Server, destination |-> Phone, length |-> 90, transport |-> "tcp"],
     [source |-> Phone, destination |-> Phone, length |-> 20, transport |-> "udp"],
     [source |-> Server, destination |-> Server, length |-> 60, transport |-> "other"],
     [source |-> Server, destination |-> Phone, length |-> 20, transport |-> "udp"] >>

Cap(times, duration) ==
  [times |-> times, packets |-> SubSeq(Traffic, 1, Len(times)), duration |-> duration]

MCDeviceIp == [k \in {"features", "analysis"} |-> IF k = "features" THEN None ELSE Phone]

MCCapture ==
  [c \in {c1, c2} |-> [v \in 0 .. MaxVersion |->
     CASE c = c1 /\ v = 0 -> Cap(<<0, 2, 2, 3, 5>>, 6)
       [] c = c1 /\ v = 1 -> Cap(<<3>>, 3)
       [] c = c2 /\ v = 0 -> Cap(<<0, 4, 3>>, 4)
       [] OTHER           -> Unreadable]]

Row0(s, p, sha, start, end, include) ==
  [ session_id |-> s, capture_file |-> p, capture_sha256 |-> sha, start |-> start,
    end |-> end, include |-> include, wellFormed |-> TRUE ]

MCIntervals == {<<0, 2>>, <<0, 6>>, <<1, 3>>, <<2, 5>>, <<3, 3>>, <<5, 7>>}

RowsOf(s, ps) ==
  {Row0(s, p, 0, interval[1], interval[2], include) :
     p \in ps, interval \in MCIntervals, include \in BOOLEAN}

OnSecond == Row0(s3, p2, 0, 0, 4, TRUE)

First  == RowsOf(s1, {p1})
Second == RowsOf(s2, {p1, p1dot})
Third  == RowsOf(s3, {p1, p1dot})

MCManifests ==
  {<<>>} \cup {<<a, b, c>> : a \in First, b \in Second, c \in Third}
  \cup {<<a, OnSecond>> : a \in First \cup Third}

MCRows == First \cup Second \cup Third \cup {OnSecond}

MCDurations == [k \in {"features", "analysis"} |->
  IF k = "features" THEN <<2>> ELSE <<2, 2, 3>>]
=============================================================================
