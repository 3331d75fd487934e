-------------------------- MODULE DatasetCommands --------------------------
(***************************************************************************)
(* The commands that read a manifest: `validate-manifest' (app.cpp),       *)
(* `features' (export_features with make_windows) and `analysis            *)
(* conditions' (write_condition_analysis_bundle with analyze_condition and *)
(* make_windows).                                                          *)
(*                                                                         *)
(* Time is counted in integer ticks, so the code's tolerance of 1e-12 s at *)
(* the end of an interval is zero here.  The timestamps of a capture are   *)
(* relative to its first frame; what is computed from the packets of one   *)
(* window is in FeatureExtractor.  How the result is written is left to    *)
(* ArtifactFile and EvidenceBundle.                                        *)
(***************************************************************************)
EXTENDS SessionManifest, FeatureExtractor

CONSTANTS
  Kinds,     \* the commands: a subset of {"validate", "features", "analysis"}
  Durations, \* per command, the window durations a row is cut into, in order
  Capture,   \* Capture[c][v]: [times, packets, duration] of a readable version v of c,
             \* with packets[i] a record [source, destination, length, transport]
  Unreadable,\* a capture read_pcap rejects
  DeviceIp,  \* the --device-ip option of each command, NoIp when it is not given
  NoIp

ASSUME DatasetAssumption ==
  /\ Kinds \subseteq {"validate", "features", "analysis"}
  /\ \A kind \in Kinds \ {"validate"} :
       Durations[kind] \in Seq(Nat \ {0}) /\ Durations[kind] # <<>>
  /\ \A c \in Captures, v \in Versions :
       \/ Capture[c][v] = Unreadable
       \/ /\ Capture[c][v].times \in Seq(Int)
          /\ \A i \in DOMAIN Capture[c][v].times :
               /\ Capture[c][v].packets[i].length \in Nat
               /\ Capture[c][v].packets[i].transport \in Transports

VARIABLES
  kind,    \* which command runs
  step,    \* "manifest", "rows", "load", "windows", "done" or "failed"
  current, \* the row being processed
  loaded,  \* per path as written, the version in the command's cache, -1 if none
  pass,    \* which of the durations
  at,      \* make_windows: start of the next window
  tally,   \* analyze_condition: occupancy of the current pass
  windows, \* the windows made so far, in every pass
  tallies, \* the finished analyses: occupancy and condition profile
  features \* for every window in windows, the features of its packets

dataVars == <<kind, step, current, loaded, pass, at, tally, windows, tallies, features>>
vars == <<manifestVars, dataVars>>

NewTally == [scheduled |-> 0, nonempty |-> 0, empty |-> 0, current_empty |-> 0, longest |-> 0]

DataInit ==
  /\ Init
  /\ kind \in Kinds
  /\ step = "manifest" /\ current = 0
  /\ loaded = [p \in Paths |-> -1]
  /\ pass = 1 /\ at = 0
  /\ tally = NewTally /\ windows = <<>> /\ tallies = <<>> /\ features = <<>>

Row     == rows[current]
Path    == Row.capture_file
File    == CaptureOf(Row)
Seconds == Durations[kind][pass]
Opened  == Capture[File][loaded[Path]]
Times   == Opened.times

Step(label) ==
  /\ step' = label
  /\ UNCHANGED <<manifestVars, kind, current, loaded, pass, at, tally, windows, tallies, features>>
Fail == Step("failed")

\* The manifest is read and validated first.
ValidateManifest ==
  /\ step = "manifest"
  /\ Validate
  /\ step' = IF pc' = "valid" THEN "rows" ELSE IF pc' = "invalid" THEN "failed" ELSE step
  /\ UNCHANGED <<kind, current, loaded, pass, at, tally, windows, tallies, features>>

CaptureReplaced ==
  /\ step \notin {"done", "failed"}
  /\ \E c \in Captures : FileChanges(c)
  /\ UNCHANGED dataVars

\* The command's loop over the rows; validate-manifest looks at excluded rows too.
NextRow ==
  /\ step = "rows"
  /\ current < Len(rows)
  /\ current' = current + 1
  /\ step' = IF kind = "validate" \/ rows[current + 1].include THEN "load" ELSE "rows"
  /\ UNCHANGED <<manifestVars, kind, loaded, pass, at, tally, windows, tallies, features>>

Finish == step = "rows" /\ current = Len(rows) /\ Step("done")

\* Mutant: a cached capture is not hashed again.
UnverifiedCached == loaded[Path] < 0 /\ file[File] # Row.capture_sha256

\* sha256_file once more, whether or not the capture is in the cache.
Unverified == kind # "validate" /\ file[File] # Row.capture_sha256

Rehash ==
  /\ step = "load"
  /\ \/ Unverified /\ Fail
     \/ ~Unverified /\ Step("read")

\* make_windows refuses packets that go back in time.
Ordered(times) == \A i, j \in DOMAIN times : i < j => times[i] <= times[j]

\* try_emplace: a capture read before under this very path is not read again.
Version == IF loaded[Path] < 0 THEN file[File] ELSE loaded[Path]

\* read_pcap on the first use; validate-manifest then compares the interval with
\* the capture's duration, the others cut it into windows.
ReadCapture ==
  /\ step = "read"
  /\ LET capture == Capture[File][Version]
     IN  /\ loaded' = [loaded EXCEPT ![Path] = Version]
         /\ \/ capture = Unreadable /\ step' = "failed"
            \/ /\ capture # Unreadable /\ kind = "validate"
               /\ step' = IF Row.end > capture.duration THEN "failed" ELSE "rows"
            \/ /\ capture # Unreadable /\ kind # "validate"
               /\ step' = IF Ordered(capture.times) THEN "windows" ELSE "failed"
  /\ pass' = 1 /\ at' = Row.start
  /\ UNCHANGED <<manifestVars, kind, current, tally, windows, tallies, features>>

\* The packets of a half-open interval.
PacketsIn(from, to) == {i \in DOMAIN Times : from <= Times[i] /\ Times[i] < to}

\* No features are extracted where there are no packets.
NoFeatures == <<>>

\* The packets at those positions, with the direction read_pcap gave them.
Packets(capture, selected, device_ip) ==
  [i \in selected |->
     [ time      |-> capture.times[i],
       length    |-> capture.packets[i].length,
       transport |-> capture.packets[i].transport,
       direction |-> assign_direction(capture.packets[i], device_ip, NoIp) ]]

Extracted(selected, duration) ==
  IF selected = {} THEN NoFeatures
  ELSE extract_features(Packets(Opened, selected, DeviceIp[kind]), duration)

Bytes(capture, selected) == SumFunction([i \in selected |-> capture.packets[i].length])

\* Mutant: an active window does not end the quiet stretch.
CountedOn(packets) ==
  LET quiet == IF packets = {} THEN 1 ELSE 0
  IN  [ scheduled     |-> tally.scheduled + 1,
        nonempty      |-> tally.nonempty + 1 - quiet,
        empty         |-> tally.empty + quiet,
        current_empty |-> tally.current_empty + quiet,
        longest       |-> Max({tally.longest, tally.current_empty + quiet}) ]

Counted(packets) ==
  LET quiet == IF packets = {} THEN tally.current_empty + 1 ELSE 0
  IN  [ scheduled     |-> tally.scheduled + 1,
        nonempty      |-> tally.nonempty + (IF packets = {} THEN 0 ELSE 1),
        empty         |-> tally.empty + (IF packets = {} THEN 1 ELSE 0),
        current_empty |-> quiet,
        longest       |-> Max({tally.longest, quiet}) ]

\* Mutant: the last window that fits exactly is dropped.
FitsStrictly == at + Seconds < Row.end

\* make_windows: a window is made only if it is complete.
Fits == at + Seconds <= Row.end

\* The export skips a window without packets.
Kept(packets) == kind = "features" => packets # {}

\* One window.
Window ==
  /\ step = "windows"
  /\ Fits
  /\ LET packets == PacketsIn(at, at + Seconds)
     IN  /\ windows' = IF Kept(packets)
                       THEN Append(windows, [ row |-> current, pass |-> pass, from |-> at,
                                              to |-> at + Seconds, packets |-> packets,
                                              version |-> loaded[Path] ])
                       ELSE windows
         /\ features' = IF Kept(packets) THEN Append(features, Extracted(packets, Seconds))
                        ELSE features
         /\ tally' = Counted(packets)
  /\ at' = at + Seconds
  /\ UNCHANGED <<manifestVars, kind, step, current, loaded, pass, tallies>>

\* Mutant: the profile covers the complete windows only.
WindowedProfile ==
  LET selected == PacketsIn(Row.start, at)
  IN  [ duration |-> Row.end - Row.start,
        total_ip_packets |-> Cardinality(selected),
        total_ip_bytes |-> Bytes(Opened, selected),
        to_first |-> IF selected = {} THEN -1 ELSE Times[Min(selected)] - Row.start,
        from_last |-> IF selected = {} THEN -1 ELSE Row.end - Times[Max(selected)],
        discarded_tail |-> Row.end - at,
        aggregate |-> Extracted(selected, Row.end - Row.start) ]

\* The profile of the whole interval, its discarded tail included; -1 for no value.
Profile ==
  LET selected == PacketsIn(Row.start, Row.end)
  IN  [ duration |-> Row.end - Row.start,
        total_ip_packets |-> Cardinality(selected),
        total_ip_bytes |-> Bytes(Opened, selected),
        to_first |-> IF selected = {} THEN -1 ELSE Times[Min(selected)] - Row.start,
        from_last |-> IF selected = {} THEN -1 ELSE Row.end - Times[Max(selected)],
        discarded_tail |-> Row.end - at,
        aggregate |-> Extracted(selected, Row.end - Row.start) ]

\* The interval is used up: the next duration, or the next row.
EndOfInterval ==
  /\ step = "windows"
  /\ ~Fits
  /\ tallies' = IF kind = "analysis"
                 THEN Append(tallies, [row |-> current, pass |-> pass, tally |-> tally,
                                       profile |-> Profile])
                 ELSE tallies
  /\ tally' = NewTally
  /\ IF pass < Len(Durations[kind])
       THEN pass' = pass + 1 /\ at' = Row.start /\ UNCHANGED step
       ELSE step' = "rows" /\ UNCHANGED <<pass, at>>
  /\ UNCHANGED <<manifestVars, kind, current, loaded, windows, features>>

Over == step \in {"done", "failed"} /\ UNCHANGED vars

DataNext ==
  \/ ValidateManifest \/ CaptureReplaced \/ NextRow \/ Finish \/ Rehash \/ ReadCapture
  \/ Window \/ EndOfInterval \/ Over

Spec == DataInit /\ [][DataNext]_vars
-----------------------------------------------------------------------------
Made == 1 .. Len(windows)

TypeOK ==
  /\ ManifestTypeOK
  /\ kind \in Kinds
  /\ step \in {"manifest", "rows", "load", "read", "windows", "done", "failed"}
  /\ current \in 0 .. Len(rows)
  /\ loaded \in [Paths -> Versions \cup {-1}]
  /\ step = "windows" => pass \in DOMAIN Durations[kind]
  /\ \A w \in Made : windows[w].row \in Indices /\ windows[w].version \in Versions

\* No packet is counted twice: two windows of one pass over one capture have no
\* packet in common, whichever rows asked for them and however they name it.  (A
\* packet is one of a version: a capture replaced between two reads has new ones.)
NoPacketTwice ==
  \A v, w \in Made :
    /\ v # w
    /\ windows[v].pass = windows[w].pass
    /\ SameCapture(windows[v].row, windows[w].row)
    /\ windows[v].version = windows[w].version
    => windows[v].packets \cap windows[w].packets = {}

\* The windows of an analysed row in one pass, as positions in the list of windows.
Ledger(t) ==
  {w \in Made : windows[w].row = tallies[t].row /\ windows[w].pass = tallies[t].pass}

\* The ledger of an analysed row is complete: its windows follow each other
\* without a gap from the start of the interval, and what is discarded at the
\* end is shorter than one window.
LedgerIsComplete ==
  \A t \in DOMAIN tallies :
      LET row == rows[tallies[t].row]
          seconds == Durations[kind][tallies[t].pass]
          tail == row.end - row.start - Cardinality(Ledger(t)) * seconds
      IN  /\ \A w \in Ledger(t) :
               windows[w].from = row.start + Cardinality({v \in Ledger(t) : v < w}) * seconds
          /\ 0 <= tail /\ tail < seconds

\* The occupancy summary says what the ledger shows, in particular the longest
\* run of consecutive empty windows.
OccupancyMatchesLedger ==
  \A t \in DOMAIN tallies :
      LET summary == tallies[t].tally
          empty == {w \in Ledger(t) : windows[w].packets = {}}
          Run(i, j) == i <= j /\ i .. j \subseteq empty
      IN  /\ summary.scheduled = Cardinality(Ledger(t))
          /\ summary.empty = Cardinality(empty)
          /\ summary.nonempty = Cardinality(Ledger(t)) - Cardinality(empty)
          /\ \A i, j \in empty : Run(i, j) => j - i + 1 <= summary.longest
          /\ summary.longest # 0 =>
               \E i, j \in empty : Run(i, j) /\ j - i + 1 = summary.longest

\* A capture replaced between its hash and its read is windowed under the wrong
\* digest.  A later row of the capture hashes it once more, so this cannot happen
\* to a row that is followed by another row of its capture; nor, as the cache is
\* keyed by the path as written, to a row that is not the first with its path.
SharedCaptureIsVerified ==
  \A v, w \in Made :
    LET i == windows[v].row
        j == windows[w].row
    IN  /\ SameCapture(i, j)
        /\ \/ i < j
           \/ i # j /\ rows[i].capture_file = rows[j].capture_file
        => windows[v].version = rows[i].capture_sha256

Below(values, quarter) == Cardinality({i \in DOMAIN values : 4 * values[i] < quarter})
Above(values, quarter) == Cardinality({i \in DOMAIN values : 4 * values[i] > quarter})

\* At most q/4 of the other values are below a quantile and at most 1 - q/4 above it.
Divides(values, quarter, q) ==
  /\ 4 * Below(values, quarter) <= q * (Size(values) - 1) + 3
  /\ 4 * Above(values, quarter) <= (4 - q) * (Size(values) - 1) + 3

\* The figures of one list are in order, and each quantile divides it as it should.
WellSummarised(values, s) ==
  DOMAIN values # {} =>
    /\ 4 * s.min <= s.q1 /\ s.q1 <= s.median /\ s.median <= s.q3 /\ s.q3 <= 4 * s.max
    /\ s.min * Size(values) <= s.mean[1] /\ s.mean[1] <= s.max * Size(values)
    /\ s.variance[1] >= 0 /\ (s.variance[1] = 0 <=> s.min = s.max)
    /\ Divides(values, s.q1, 1) /\ Divides(values, s.median, 2) /\ Divides(values, s.q3, 3)

LengthsOf(w) ==
  [i \in w.packets |-> Capture[CaptureOf(rows[w.row])][w.version].packets[i].length]

\* A feature vector agrees with itself and with its window (extract_features): the
\* directions and the transports partition packets and bytes, the gaps add up to the
\* time between the first and the last packet and that is shorter than the window,
\* and the order statistics divide the sizes as their names say.
FeaturesAddUp ==
  \A w \in Made :
    LET f == features[w]
        times == Capture[CaptureOf(rows[windows[w].row])][windows[w].version].times
    IN  windows[w].packets # {} =>
          /\ f.packet_count = Cardinality(windows[w].packets)
          /\ SumFunction(f.packets) = f.packet_count
          /\ SumFunction(f.bytes) = f.total_ip_bytes
          /\ SumFunction(f.transport) = f.packet_count
          /\ f.iat.mean[1] = times[Max(windows[w].packets)] - times[Min(windows[w].packets)]
          /\ f.iat.mean[1] < f.duration
          /\ WellSummarised(LengthsOf(windows[w]), f.ip_size)

\* The windows of that ledger that have packets, and so features.
Active(t) == {w \in Ledger(t) : windows[w].packets # {}}

\* The condition profile and the ledger of a row describe the same packets
\* (analyze_condition): the profile has every packet of the windows and beyond them
\* only those of the discarded tail, the quiet stretch before the first packet is the
\* same in both, and the profile does not depend on the window duration.
ProfileMatchesLedger ==
  \A t \in DOMAIN tallies :
    LET profile == tallies[t].profile
        row == rows[tallies[t].row]
        version == loaded[row.capture_file]
        tail == {i \in DOMAIN Capture[CaptureOf(row)][version].times :
                   LET time == Capture[CaptureOf(row)][version].times[i]
                   IN  row.end - profile.discarded_tail <= time /\ time < row.end}
        seconds == Durations[kind][tallies[t].pass]
        quiet == {w \in Ledger(t) : \A v \in Ledger(t) : v <= w => windows[v].packets = {}}
    IN  /\ profile.total_ip_packets =
             SumFunction([w \in Active(t) |-> features[w].packet_count]) + Cardinality(tail)
        /\ profile.total_ip_bytes >= SumFunction([w \in Active(t) |-> features[w].total_ip_bytes])
        /\ tail = {} /\ profile.total_ip_packets > 0 => \A d \in Directions :
             profile.aggregate.bytes[d] = SumFunction([w \in Active(t) |-> features[w].bytes[d]])
        /\ profile.to_first >= 0 =>
             /\ Cardinality(quiet) = Min({profile.to_first \div seconds, Cardinality(Ledger(t))})
             /\ profile.to_first + profile.from_last <= profile.duration
             /\ profile.from_last > 0
        /\ profile.to_first = -1 => quiet = Ledger(t)
        /\ \A u \in DOMAIN tallies :
             tallies[u].row = tallies[t].row =>
               [tallies[u].profile EXCEPT !.discarded_tail = 0] =
               [profile EXCEPT !.discarded_tail = 0]
=============================================================================
