---------------------- MODULE DatasetCommands_proofs ----------------------
(***************************************************************************)
(* Proofs about the manifest and the commands that read it, for every      *)
(* manifest, capture, set of window durations and replacement of captures. *)
(*                                                                         *)
(* The rows of an accepted manifest are disjoint (AcceptedDisjoint).       *)
(* Each window lies inside the interval of its row and, in one pass over a *)
(* row, after the windows made before it; and all windows over one path    *)
(* are cut from the one version the cache holds.  So no packet is counted  *)
(* twice.  A row followed by another one of its capture is cut from the    *)
(* version it was recorded with (SharedCaptureVerified), the ledger of an  *)
(* analysed row covers its interval (LedgerComplete), and the occupancy    *)
(* summary is what the ledger shows (OccupancyMatches).  The features of a *)
(* window agree with each other and with its packets (FeaturesTrue), and   *)
(* the profile of an analysed row with its windows (ProfileTrue).          *)
(***************************************************************************)
EXTENDS DatasetCommands, DataInduction, FiniteSetTheorems, TLAPS
-----------------------------------------------------------------------------
(***************************************************************************)
(* Comparing each row with the one before it, in the sorted order, finds   *)
(* an overlap if and only if there is one.                                 *)
(*                                                                         *)
(* The inductive invariant: of the rows compared so far, no two of one     *)
(* capture overlap, none ends after the last one, and all precede the rows *)
(* still to be compared.                                                   *)
(***************************************************************************)

Compared(c) == {i \in compared : CaptureOf(rows[i]) = c}

\* Every row has passed ReadManifest.
Accepted == pc \in {"hash", "overlap", "valid"} => \A i \in Indices : rows[i].start < rows[i].end

LastIsCompared == \A c \in Captures : last[c] # 0 => last[c] \in Compared(c)

EndsBeforeLast ==
  \A i \in compared :
    /\ last[CaptureOf(rows[i])] # 0
    /\ rows[i].end <= rows[last[CaptureOf(rows[i])]].end

ComparedDisjoint == \A i, j \in compared : i # j /\ SameCapture(i, j) => Disjoint(i, j)

ComparedPrecede ==
  \A i \in compared, j \in Indices \ compared : SameCapture(i, j) => Precedes(i, j)

IInv ==
  /\ ManifestTypeOK
  /\ Accepted
  /\ LastIsCompared
  /\ EndsBeforeLast
  /\ ComparedDisjoint
  /\ ComparedPrecede
  /\ pc = "valid" => compared = Indices
  /\ OverlapIsReal

\* The fields of a row.
LEMMA RowType ==
  ASSUME rows \in Seq(Rows), NEW i \in Indices
  PROVE  /\ rows[i].capture_file \in Paths /\ CaptureOf(rows[i]) \in Captures
         /\ CaptureOf(rows[i]) = Normal[rows[i].capture_file]
         /\ rows[i].start \in Int /\ rows[i].end \in Int
<1>1. rows[i] \in Rows
  BY DEF Indices
<1>2. QED
  BY <1>1, ManifestsAssumption DEF CaptureOf

\* Nothing has been compared in the beginning.
LEMMA InitInv == Init => IInv
<1> SUFFICES ASSUME Init PROVE IInv
  OBVIOUS
<1>1. ManifestTypeOK
  <2>1. rows \in Seq(Rows)
    BY ManifestsAssumption DEF Init
  <2>2. Len(rows) \in Nat
    BY <2>1
  <2>3. QED
    BY <2>1, <2>2 DEF Init, ManifestTypeOK
<1>2. QED
  BY <1>1 DEF Init, IInv, Accepted, LastIsCompared, EndsBeforeLast, ComparedDisjoint,
              ComparedPrecede, OverlapIsReal

\* A step that leaves the rows and what was compared alone.
LEMMA UnchangedInv ==
  ASSUME IInv, UNCHANGED <<rows, compared, last>>,
         ManifestTypeOK', Accepted', (pc = "valid" => compared = Indices)', OverlapIsReal'
  PROVE  IInv'
<1>1. LastIsCompared'
  BY DEF IInv, LastIsCompared, Compared
<1>2. EndsBeforeLast'
  BY DEF IInv, EndsBeforeLast
<1>3. ComparedDisjoint'
  BY DEF IInv, ComparedDisjoint, Disjoint, SameCapture
<1>4. ComparedPrecede'
  BY DEF IInv, ComparedPrecede, Precedes, SameCapture, Indices
<1>5. QED
  BY <1>1, <1>2, <1>3, <1>4 DEF IInv

\* The row compared next starts where the last one ended, or later.
LEMMA CompareInv ==
  ASSUME IInv, NEW i \in Indices, CompareRow(i)
  PROVE  IInv'
<1> DEFINE capture == CaptureOf(rows[i])
           previous == last[capture]
<1>1. /\ pc = "overlap" /\ i \notin compared
      /\ \A j \in Indices \ compared : SameCapture(i, j) /\ i # j => Precedes(i, j)
  BY DEF CompareRow
<1>2. /\ rows \in Seq(Rows) /\ compared \subseteq Indices
      /\ last \in [Captures -> 0 .. Len(rows)]
      /\ capture \in Captures
      /\ \A j \in Indices : rows[j].start \in Int /\ rows[j].end \in Int /\ CaptureOf(rows[j]) \in Captures
      /\ \A j \in Indices : rows[j].start < rows[j].end
  BY <1>1, RowType DEF IInv, ManifestTypeOK, Accepted
<1>3. previous # 0 => /\ previous \in compared /\ previous \in Indices
                      /\ SameCapture(previous, i) /\ Precedes(previous, i) /\ previous # i
  BY <1>1, <1>2 DEF IInv, LastIsCompared, Compared, ComparedPrecede, SameCapture
<1>4. CASE MustReject(i) /\ Reject("overlap")
  <2>1. previous # 0 /\ rows[i].start < rows[previous].end
    BY <1>4 DEF MustReject, Clashes
  <2>2. ~Disjoint(previous, i)
    BY <1>2, <1>3, <2>1 DEF Disjoint, Precedes
  <2>3. OverlapIsReal'
    BY <1>3, <1>4, <2>1, <2>2 DEF OverlapIsReal, Reject, Indices, SameCapture, Disjoint
  <2>4. ManifestTypeOK' /\ Accepted'
    BY <1>4 DEF IInv, ManifestTypeOK, Accepted, Reject, Indices
  <2>5. QED
    BY <1>4, <2>3, <2>4, UnchangedInv DEF Reject
<1>5. CASE /\ ~MustReject(i)
           /\ compared' = compared \cup {i}
           /\ last' = [last EXCEPT ![capture] = i]
           /\ UNCHANGED <<pc, rows, file, verified, reason>>
  <2>1. previous # 0 => rows[previous].end <= rows[i].start
    <3>1. previous # 0 => ~(rows[i].start < rows[previous].end)
      BY <1>5 DEF MustReject, Clashes
    <3>2. QED
      BY <1>2, <1>3, <3>1
  <2>2. \A j \in compared : SameCapture(i, j) => rows[j].end <= rows[i].start
    <3> SUFFICES ASSUME NEW j \in compared, SameCapture(i, j)
                 PROVE  rows[j].end <= rows[i].start
      OBVIOUS
    <3>1. previous # 0 /\ rows[j].end <= rows[previous].end
      BY DEF IInv, EndsBeforeLast, SameCapture
    <3>2. QED
      BY <1>2, <1>3, <2>1, <3>1
  <2>3. last'[capture] = i /\ \A c \in Captures : c # capture => last'[c] = last[c]
    BY <1>2, <1>5
  <2>4. ManifestTypeOK'
    <3>1. last' \in [Captures -> 0 .. Len(rows)]
      BY <1>2, <1>5 DEF Indices
    <3>2. QED
      BY <1>2, <1>5, <3>1 DEF IInv, ManifestTypeOK, Versions, Indices
  <2>5. Accepted' /\ OverlapIsReal'
    BY <1>5 DEF IInv, Accepted, OverlapIsReal, Indices, SameCapture, Disjoint
  <2>6. LastIsCompared'
    <3> SUFFICES ASSUME NEW c \in Captures, last'[c] # 0
                 PROVE  last'[c] \in compared' /\ CaptureOf(rows[last'[c]]) = c
      BY <1>5 DEF LastIsCompared, Compared
    <3>1. CASE c = capture
      BY <1>5, <2>3, <3>1
    <3>2. CASE c # capture
      BY <1>5, <2>3, <3>2 DEF IInv, LastIsCompared, Compared
    <3>3. QED
      BY <3>1, <3>2
  <2>7. EndsBeforeLast'
    <3> SUFFICES ASSUME NEW j \in compared'
                 PROVE  /\ last'[CaptureOf(rows[j])] # 0
                        /\ rows[j].end <= rows[last'[CaptureOf(rows[j])]].end
      BY <1>5 DEF EndsBeforeLast
    <3>1. i # 0 /\ rows[i].end <= rows[i].end
      BY <1>2 DEF Indices
    <3>2. CASE j = i
      BY <2>3, <3>1, <3>2
    <3>3. CASE j # i /\ SameCapture(i, j)
      <4>1. j \in compared /\ j \in Indices
        BY <1>2, <1>5, <3>3
      <4>2. rows[j].end <= rows[i].start
        BY <2>2, <3>3, <4>1
      <4>3. rows[j].end <= rows[i].end
        BY <1>2, <4>1, <4>2
      <4>4. QED
        BY <2>3, <3>1, <3>3, <4>3 DEF SameCapture
    <3>4. CASE j # i /\ ~SameCapture(i, j)
      <4>1. j \in compared /\ j \in Indices
        BY <1>2, <1>5, <3>4
      <4>2. last'[CaptureOf(rows[j])] = last[CaptureOf(rows[j])]
        BY <1>2, <2>3, <3>4, <4>1 DEF SameCapture
      <4>3. QED
        BY <4>1, <4>2 DEF IInv, EndsBeforeLast
    <3>5. QED
      BY <3>2, <3>3, <3>4
  <2>8. ComparedDisjoint'
    BY <1>5, <2>2 DEF IInv, ComparedDisjoint, Disjoint, SameCapture
  <2>9. ComparedPrecede'
    BY <1>1, <1>5 DEF IInv, ComparedPrecede, Precedes, SameCapture, Indices
  <2>10. QED
    BY <1>1, <1>5, <2>4, <2>5, <2>6, <2>7, <2>8, <2>9 DEF IInv
<1>6. QED
  BY <1>4, <1>5 DEF CompareRow

\* Every step preserves the invariant.
LEMMA NextInv == IInv /\ [ManifestNext]_manifestVars => IInv'
<1> SUFFICES ASSUME IInv, [ManifestNext]_manifestVars PROVE IInv'
  OBVIOUS
<1> USE DEF Indices
<1>1. CASE ReadManifest
  <2>1. CASE ~Readable /\ Reject("row")
    <3>1. ManifestTypeOK' /\ Accepted' /\ OverlapIsReal'
      BY <2>1 DEF Reject, IInv, ManifestTypeOK, Accepted, OverlapIsReal, SameCapture, Disjoint
    <3>2. QED
      BY <2>1, <3>1, UnchangedInv DEF Reject
  <2>2. CASE Readable /\ Proceed("hash")
    <3>1. ManifestTypeOK' /\ Accepted' /\ OverlapIsReal'
      BY <2>2 DEF Proceed, IInv, ManifestTypeOK, Accepted, OverlapIsReal, Readable, RowAccepted,
                  SameCapture, Disjoint
    <3>2. QED
      BY <2>2, <3>1, UnchangedInv DEF Proceed
  <2>3. QED
    BY <1>1, <2>1, <2>2 DEF ReadManifest
<1>2. CASE HashRow
  <2>1. pc = "hash" /\ verified < Len(rows) /\ UNCHANGED <<rows, compared, last>>
    BY <1>2 DEF HashRow, Reject
  <2>2. \/ Reject("hash")
        \/ verified' = verified + 1 /\ UNCHANGED <<pc, file, reason>>
    BY <1>2 DEF HashRow
  <2>3. ManifestTypeOK'
    <3>1. CASE Reject("hash")
      BY <3>1 DEF Reject, IInv, ManifestTypeOK
    <3>2. CASE verified' = verified + 1 /\ UNCHANGED <<pc, file, reason>>
      <4>1. Len(rows) \in Nat /\ verified \in 0 .. Len(rows)
        BY DEF IInv, ManifestTypeOK
      <4>2. verified' \in 0 .. Len(rows)
        BY <2>1, <3>2, <4>1
      <4>3. QED
        BY <2>1, <3>2, <4>2 DEF IInv, ManifestTypeOK, Versions
    <3>3. QED
      BY <2>2, <3>1, <3>2
  <2>4. Accepted' /\ OverlapIsReal' /\ pc' # "valid"
    BY <2>1, <2>2 DEF Reject, IInv, Accepted, OverlapIsReal, SameCapture, Disjoint
  <2>5. QED
    BY <2>1, <2>3, <2>4, UnchangedInv
<1>3. CASE AllHashed
  <2>1. ManifestTypeOK' /\ Accepted' /\ OverlapIsReal'
    BY <1>3 DEF AllHashed, Proceed, IInv, ManifestTypeOK, Accepted, OverlapIsReal, SameCapture, Disjoint
  <2>2. QED
    BY <1>3, <2>1, UnchangedInv DEF AllHashed, Proceed
<1>4. CASE \E i \in Indices : CompareRow(i)
  BY <1>4, CompareInv
<1>5. CASE AllCompared
  <2>1. ManifestTypeOK' /\ Accepted' /\ OverlapIsReal' /\ compared' = Indices'
    BY <1>5 DEF AllCompared, Proceed, IInv, ManifestTypeOK, Accepted, OverlapIsReal, SameCapture, Disjoint
  <2>2. QED
    BY <1>5, <2>1, UnchangedInv DEF AllCompared, Proceed
<1>6. CASE \E c \in Captures : FileChanges(c)
  <2>1. PICK c \in Captures : FileChanges(c)
    BY <1>6
  <2>2. file' \in [Captures -> Versions]
    <3>1. file[c] \in Versions /\ file[c] < MaxVersion
      BY <2>1 DEF FileChanges, IInv, ManifestTypeOK
    <3>2. file[c] + 1 \in Versions
      BY <3>1, ManifestsAssumption DEF Versions
    <3>3. QED
      BY <2>1, <3>2 DEF FileChanges, IInv, ManifestTypeOK
  <2>3. ManifestTypeOK' /\ Accepted' /\ OverlapIsReal' /\ (pc = "valid" => compared = Indices)'
    BY <2>1, <2>2 DEF FileChanges, IInv, ManifestTypeOK, Accepted, OverlapIsReal, Versions,
                      SameCapture, Disjoint
  <2>4. QED
    BY <2>1, <2>3, UnchangedInv DEF FileChanges
<1>7. CASE UNCHANGED manifestVars
  <2>1. ManifestTypeOK' /\ Accepted' /\ OverlapIsReal' /\ (pc = "valid" => compared = Indices)'
    BY <1>7 DEF manifestVars, IInv, ManifestTypeOK, Accepted, OverlapIsReal, Versions, SameCapture, Disjoint
  <2>2. QED
    BY <1>7, <2>1, UnchangedInv DEF manifestVars
<1>8. QED
  BY <1>1, <1>2, <1>3, <1>4, <1>5, <1>6, <1>7 DEF ManifestNext, Validate

\* The invariant holds throughout (read_session_manifest and
\* validate_session_manifest_integrity, with captures replaced at any moment).
THEOREM ManifestInvariance == ManifestSpec => []IInv
  BY InitInv, NextInv, PTL DEF ManifestSpec

\* An accepted manifest has no two overlapping rows of one capture, although
\* only neighbours of the sorted order are compared.
THEOREM AcceptedDisjoint == ManifestSpec => []AcceptedIsDisjoint
<1>1. IInv => AcceptedIsDisjoint
  BY DEF IInv, AcceptedIsDisjoint, ComparedDisjoint
<1>2. QED
  BY <1>1, ManifestInvariance, PTL

\* A manifest is refused for an overlap only if it has one.
THEOREM OverlapReal == ManifestSpec => []OverlapIsReal
<1>1. IInv => OverlapIsReal
  BY DEF IInv
<1>2. QED
  BY <1>1, ManifestInvariance, PTL
-----------------------------------------------------------------------------
(* The packets of the windows.                                             *)

\* Row r's window from..to, of packets that are inside it.
InsideItsRow(w) ==
  /\ w.row \in Indices /\ w.row <= current
  /\ w.from \in Int /\ w.to \in Int
  /\ rows[w.row].start <= w.from /\ w.to <= rows[w.row].end

FromTheCache(w) ==
  LET path == rows[w.row].capture_file
      times == Capture[Normal[path]][loaded[path]].times
  IN  /\ loaded[path] # -1 /\ w.version = loaded[path]
      /\ times \in Seq(Int)
      /\ w.packets \subseteq {i \in DOMAIN times : w.from <= times[i] /\ times[i] < w.to}

\* The pass that is being cut.
Ahead ==
  /\ step \in {"load", "read"} => \A w \in Made : windows[w].row < current
  /\ step = "windows" =>
       /\ at \in Int /\ Row.start <= at
       /\ pass \in DOMAIN Durations[kind]
       /\ loaded[Path] # -1
       /\ Times \in Seq(Int)
       /\ \A w \in Made : windows[w].row = current =>
            /\ windows[w].pass <= pass
            /\ windows[w].pass = pass => windows[w].to <= at

OneAfterAnother ==
  \A v, w \in Made :
    v < w /\ windows[v].row = windows[w].row /\ windows[v].pass = windows[w].pass
      => windows[v].to <= windows[w].from

WindowRecord ==
  [ row : Nat, pass : Nat, from : Int, to : Int, packets : SUBSET Nat,
    version : Versions \cup {-1} ]

DataTypeOK ==
  /\ kind \in Kinds
  /\ kind = "validate" => windows = <<>>
  /\ step \in {"manifest", "rows", "load", "read", "windows", "done", "failed"}
  /\ current \in 0 .. Len(rows)
  /\ step \in {"load", "read", "windows"} => current \in Indices
  /\ step \in {"rows", "load", "read", "windows", "done"} => pc = "valid"
  /\ step = "windows" => kind # "validate"
  /\ loaded \in [Paths -> Versions \cup {-1}]
  /\ windows \in Seq(WindowRecord)
  /\ windows # <<>> => pc = "valid"

DInv ==
  /\ DataTypeOK
  /\ \A w \in Made : InsideItsRow(windows[w]) /\ FromTheCache(windows[w])
  /\ Ahead
  /\ OneAfterAnother

\* The invariant implies the property.
LEMMA NoPacketTwiceFromInv == IInv /\ DInv => NoPacketTwice
<1> SUFFICES ASSUME IInv, DInv, NEW v \in Made, NEW w \in Made, v # w,
                    windows[v].pass = windows[w].pass,
                    SameCapture(windows[v].row, windows[w].row),
                    windows[v].version = windows[w].version,
                    NEW i \in windows[v].packets, i \in windows[w].packets
             PROVE  FALSE
  BY DEF NoPacketTwice
<1> DEFINE c == CaptureOf(rows[windows[v].row])
           times == Capture[c][windows[v].version].times
<1>1. /\ times \in Seq(Int) /\ i \in DOMAIN times
      /\ windows[v].from <= times[i] /\ times[i] < windows[v].to
  BY DEF DInv, FromTheCache, CaptureOf
<1>2. /\ windows[w].from <= times[i] /\ times[i] < windows[w].to
  BY DEF DInv, FromTheCache, SameCapture, CaptureOf
<1> HIDE DEF c, times
<1>3. times[i] \in Int
  BY ONLY <1>1
<1>4. /\ windows[v].from \in Int /\ windows[v].to \in Int
      /\ windows[w].from \in Int /\ windows[w].to \in Int
      /\ windows[v].row \in Indices /\ windows[w].row \in Indices
  BY DEF DInv, InsideItsRow
<1>5. windows[v].to <= windows[w].from \/ windows[w].to <= windows[v].from
  <2>1. CASE windows[v].row = windows[w].row
    <3>1. v < w \/ w < v
      <4>1. v \in Int /\ w \in Int
        BY DEF DInv, DataTypeOK, Made
      <4>2. QED
        BY <4>1
    <3>2. QED
      BY <2>1, <3>1 DEF DInv, OneAfterAnother
  <2>2. CASE windows[v].row # windows[w].row
    <3>1. pc = "valid"
      BY DEF DInv, DataTypeOK, Made
    <3>2. \/ rows[windows[v].row].end <= rows[windows[w].row].start
          \/ rows[windows[w].row].end <= rows[windows[v].row].start
      BY <1>4, <2>2, <3>1 DEF IInv, ComparedDisjoint, Disjoint
    <3>3. /\ rows[windows[v].row].start <= windows[v].from /\ windows[v].to <= rows[windows[v].row].end
          /\ rows[windows[w].row].start <= windows[w].from /\ windows[w].to <= rows[windows[w].row].end
      BY DEF DInv, InsideItsRow
    <3>4. /\ rows[windows[v].row].start \in Int /\ rows[windows[v].row].end \in Int
          /\ rows[windows[w].row].start \in Int /\ rows[windows[w].row].end \in Int
      BY <1>4, RowType DEF IInv, ManifestTypeOK
    <3>5. QED
      BY ONLY <1>4, <3>2, <3>3, <3>4
  <2>3. QED
    BY <2>1, <2>2
<1>6. QED
  BY ONLY <1>1, <1>2, <1>3, <1>4, <1>5

\* Nothing has been cut in the beginning.
LEMMA DataInitInv == DataInit => DInv
<1> SUFFICES ASSUME DataInit PROVE DInv
  OBVIOUS
<1>1. rows \in Seq(Rows) /\ Len(rows) \in Nat
  BY ManifestsAssumption DEF DataInit, Init
<1>2. Made = {}
  BY DEF DataInit, Made
<1>3. DataTypeOK
  BY <1>1 DEF DataInit, DataTypeOK
<1>4. QED
  BY <1>2, <1>3 DEF DataInit, DInv, Ahead, OneAfterAnother

\* A step of the manifest's validation leaves the rows alone.
LEMMA RowsFixed == ManifestNext => rows' = rows
  BY DEF ManifestNext, Validate, ReadManifest, HashRow, AllHashed, CompareRow, AllCompared,
         FileChanges, Reject, Proceed

\* A step that makes no window, and reloads nothing.
LEMMA SameWindows ==
  ASSUME IInv, DInv, windows' = windows, rows' = rows,
         current' \in Int, current <= current',
         \A p \in Paths : loaded[p] # -1 => loaded'[p] = loaded[p],
         DataTypeOK', Ahead'
  PROVE  DInv'
<1>1. Made' = Made /\ Indices' = Indices
  BY DEF Made, Indices
<1>2. \A w \in Made : InsideItsRow(windows[w])'
  <2> SUFFICES ASSUME NEW w \in Made PROVE InsideItsRow(windows[w])'
    OBVIOUS
  <2>1. InsideItsRow(windows[w])
    BY DEF DInv
  <2>2. current \in Int /\ windows[w].row \in Int
    BY <2>1 DEF DInv, DataTypeOK, InsideItsRow, Indices
  <2>3. QED
    BY <1>1, <2>1, <2>2 DEF InsideItsRow
<1>3. \A w \in Made : FromTheCache(windows[w])'
  <2> SUFFICES ASSUME NEW w \in Made PROVE FromTheCache(windows[w])'
    OBVIOUS
  <2>1. FromTheCache(windows[w]) /\ windows[w].row \in Indices
    BY DEF DInv, InsideItsRow
  <2>2. rows[windows[w].row].capture_file \in Paths
    BY <2>1, RowType DEF IInv, ManifestTypeOK
  <2>3. loaded'[rows[windows[w].row].capture_file] = loaded[rows[windows[w].row].capture_file]
    BY <2>1, <2>2 DEF FromTheCache
  <2>4. QED
    BY <2>1, <2>3 DEF FromTheCache
<1>4. OneAfterAnother'
  BY <1>1 DEF DInv, OneAfterAnother
<1>5. QED
  BY <1>1, <1>2, <1>3, <1>4 DEF DInv

\* The command's steps up to the cutting of windows.
LEMMA StepInv ==
  ASSUME IInv, DInv, ValidateManifest \/ CaptureReplaced \/ NextRow \/ Finish \/ Rehash
  PROVE  DInv'
<1> USE DEF Indices
<1>1. windows' = windows /\ loaded' = loaded /\ kind' = kind /\ rows' = rows
  BY RowsFixed DEF ValidateManifest, CaptureReplaced, NextRow, Finish, Rehash, Fail, Step,
                   dataVars, manifestVars, ManifestNext
<1>2. current \in Int /\ Made' = Made /\ Len(rows) \in Nat /\ \A w \in Made : windows[w].row \in Int
  BY <1>1 DEF DInv, DataTypeOK, Made, IInv, ManifestTypeOK, InsideItsRow
<1>3. CASE ValidateManifest
  <2>1. /\ step = "manifest" /\ current' = current
        /\ step' \in {"rows", "failed", "manifest"} /\ (step' = "rows" => pc' = "valid")
    BY <1>3 DEF ValidateManifest
  <2>2. pc # "valid" /\ windows = <<>>
    BY <1>3 DEF ValidateManifest, Validate, ReadManifest, HashRow, AllHashed, CompareRow, AllCompared,
                DInv, DataTypeOK
  <2>3. DataTypeOK' /\ Ahead'
    BY <1>1, <2>1, <2>2 DEF DInv, DataTypeOK, Ahead
  <2>4. QED
    BY <1>1, <1>2, <2>1, <2>3, SameWindows
<1>4. CASE CaptureReplaced
  <2>1. UNCHANGED dataVars /\ pc' = pc
    BY <1>4 DEF CaptureReplaced, FileChanges
  <2>2. DataTypeOK' /\ Ahead'
    BY <1>1, <1>2, <2>1 DEF dataVars, DInv, DataTypeOK, Ahead, Row, File, Times, Path, Opened
  <2>3. QED
    BY <1>1, <1>2, <2>1, <2>2, SameWindows DEF dataVars
<1>5. CASE NextRow
  <2>1. /\ current' = current + 1 /\ current < Len(rows) /\ pc' = pc
        /\ step' \in {"load", "rows"} /\ step = "rows"
    BY <1>5 DEF NextRow, manifestVars
  <2>2. current' \in Indices
    BY <1>2, <2>1 DEF DInv, DataTypeOK
  <2>3. DataTypeOK'
    BY <1>1, <2>1, <2>2 DEF DInv, DataTypeOK
  <2>4. Ahead'
    BY <1>1, <1>2, <2>1 DEF DInv, InsideItsRow, Ahead
  <2>5. QED
    BY <1>1, <1>2, <2>1, <2>3, <2>4, SameWindows
<1>6. CASE Finish \/ Rehash
  <2>1. /\ UNCHANGED <<manifestVars, kind, current, loaded, pass, at, tally, windows, tallies>>
        /\ \/ step = "rows" /\ step' = "done"
           \/ step = "load" /\ step' \in {"failed", "read"}
    BY <1>6 DEF Finish, Rehash, Fail, Step
  <2>2. DataTypeOK' /\ Ahead'
    BY <1>1, <1>2, <2>1 DEF manifestVars, DInv, DataTypeOK, Ahead
  <2>3. QED
    BY <1>1, <1>2, <2>1, <2>2, SameWindows
<1>7. QED
  BY <1>3, <1>4, <1>5, <1>6

\* A capture is read once; nothing has been made for the row yet.
LEMMA ReadInv ==
  ASSUME IInv, DInv, ReadCapture
  PROVE  DInv'
<1> USE DEF Indices
<1> DEFINE version == IF loaded[Path] < 0 THEN file[File] ELSE loaded[Path]
<1>1. /\ step = "read" /\ current' = current /\ kind' = kind /\ windows' = windows
      /\ rows' = rows /\ pc' = pc /\ pass' = 1 /\ at' = Row.start
      /\ loaded' = [loaded EXCEPT ![Path] = version]
      /\ step' \in {"failed", "rows", "windows"}
      /\ step' = "windows" => kind # "validate" /\ Capture[File][version] # Unreadable
  BY DEF ReadCapture, Version, manifestVars
<1>2. current \in Indices /\ Len(rows) \in Nat /\ Made' = Made
  BY <1>1 DEF DInv, DataTypeOK, IInv, ManifestTypeOK, Made
<1>3. File \in Captures /\ Path \in Paths /\ Row.start \in Int
  BY <1>2, RowType DEF File, Row, IInv, ManifestTypeOK, Path
<1>4. version \in Versions /\ (loaded[Path] # -1 => version = loaded[Path])
  <2>1. file[File] \in Versions /\ loaded[Path] \in Versions \cup {-1}
    BY <1>3 DEF IInv, ManifestTypeOK, DInv, DataTypeOK
  <2>2. QED
    BY <2>1, ManifestsAssumption DEF Versions
<1> HIDE DEF version
<1>5. loaded' \in [Paths -> Versions \cup {-1}] /\ loaded'[Path] = version
  BY <1>1, <1>3, <1>4 DEF DInv, DataTypeOK
<1>6. DataTypeOK'
  BY <1>1, <1>2, <1>5 DEF DInv, DataTypeOK, Versions
<1>7. Ahead'
  <2> SUFFICES ASSUME step' = "windows" PROVE Ahead'
    BY <1>1 DEF Ahead
  <2>1. File' = File /\ Path' = Path /\ Row' = Row
    BY <1>1 DEF File, Row, Path
  <2>2. Times' \in Seq(Int)
    <3>1. Capture[File][version].times \in Seq(Int)
      BY <1>1, <1>3, <1>4, DatasetAssumption
    <3>2. QED
      BY <1>5, <2>1, <3>1 DEF Times, Opened, File, Path
  <2>3. pass' \in DOMAIN Durations'[kind'] /\ loaded'[Path] # -1
    <3>1. Durations[kind] \in Seq(Nat \ {0}) /\ Durations[kind] # <<>>
      BY <1>1, DatasetAssumption DEF DInv, DataTypeOK
    <3>2. 1 \in DOMAIN Durations[kind]
      BY <3>1
    <3>3. -1 \notin Versions
      BY ManifestsAssumption DEF Versions
    <3>4. QED
      BY <1>1, <1>4, <1>5, <3>2, <3>3
  <2>4. \A w \in Made : windows[w].row # current
    BY <1>1, <1>2 DEF DInv, Ahead, InsideItsRow
  <2>5. at' \in Int /\ Row'.start <= at'
    BY <1>1, <1>3, <2>1
  <2>6. QED
    BY <1>1, <1>2, <2>1, <2>2, <2>3, <2>4, <2>5 DEF Ahead
<1>8. \A p \in Paths : loaded[p] # -1 => loaded'[p] = loaded[p]
  BY <1>1, <1>3, <1>4 DEF DInv, DataTypeOK
<1>9. QED
  BY <1>1, <1>2, <1>6, <1>7, <1>8, SameWindows

\* The interval is used up: the next pass has no windows yet.
LEMMA EndInv ==
  ASSUME IInv, DInv, EndOfInterval
  PROVE  DInv'
<1> USE DEF Indices
<1>1. /\ step = "windows" /\ windows' = windows /\ rows' = rows /\ pc' = pc /\ kind' = kind
      /\ current' = current /\ loaded' = loaded
      /\ \/ pass < Len(Durations[kind]) /\ pass' = pass + 1 /\ at' = Row.start /\ step' = step
         \/ step' = "rows"
  BY DEF EndOfInterval, manifestVars
<1>2. current \in Indices /\ Made' = Made /\ Row.start \in Int
  <2>1. current \in Indices
    BY <1>1 DEF DInv, DataTypeOK
  <2>2. QED
    BY <1>1, <2>1, RowType DEF Made, Row, IInv, ManifestTypeOK
<1>3. DataTypeOK'
  BY <1>1 DEF DInv, DataTypeOK
<1>4. Ahead'
  <2>1. CASE step' = "rows"
    BY <2>1 DEF Ahead
  <2>2. CASE pass < Len(Durations[kind]) /\ pass' = pass + 1 /\ at' = Row.start /\ step' = step
    <3>1. Durations[kind] \in Seq(Nat \ {0}) /\ pass \in DOMAIN Durations[kind]
      BY <1>1, DatasetAssumption DEF DInv, DataTypeOK, Ahead
    <3>2. pass \in Nat /\ pass' \in DOMAIN Durations[kind]
      BY <2>2, <3>1
    <3>3. \A w \in Made : windows[w].row = current =>
            windows[w].pass \in Nat /\ windows[w].pass <= pass
      <4>1. \A w \in Made : windows[w] \in WindowRecord
        <5>1. windows \in Seq(WindowRecord)
          BY DEF DInv, DataTypeOK
        <5>2. QED
          BY ONLY <5>1 DEF Made
      <4>2. \A w \in Made : windows[w].pass \in Nat
        BY ONLY <4>1 DEF WindowRecord
      <4>3. QED
        BY <1>1, <4>2 DEF DInv, Ahead
    <3>4. \A w \in Made : windows[w].row = current => windows[w].pass < pass'
      BY <2>2, <3>2, <3>3
    <3>5. \A w \in Made : windows[w].row = current =>
            windows[w].pass <= pass' /\ windows[w].pass # pass'
      BY <2>2, <3>2, <3>3, <3>4
    <3>6. Row' = Row /\ Path' = Path /\ Times' = Times /\ Row.start <= Row.start
      BY <1>1, <1>2 DEF Row, File, Times, Path, Opened
    <3>7. loaded[Path] # -1 /\ Times \in Seq(Int)
      BY <1>1 DEF DInv, Ahead
    <3>8. QED
      BY <1>1, <1>2, <2>2, <3>2, <3>5, <3>6, <3>7 DEF Ahead
  <2>3. QED
    BY <1>1, <2>1, <2>2
<1>5. current <= current /\ current \in Int
  BY <1>2
<1>6. QED
  BY <1>1, <1>3, <1>4, <1>5, SameWindows

\* The window cut next follows those of its pass and ends inside the interval.
LEMMA WindowInv ==
  ASSUME IInv, DInv, Window
  PROVE  DInv'
<1> USE DEF Indices
<1> DEFINE packets == PacketsIn(at, at + Seconds)
           made == [ row |-> current, pass |-> pass, from |-> at, to |-> at + Seconds,
                     packets |-> packets, version |-> loaded[Path] ]
<1>1. /\ step = "windows" /\ at + Seconds <= Row.end
      /\ windows' = windows \/ windows' = Append(windows, made)
      /\ at' = at + Seconds
      /\ UNCHANGED <<manifestVars, kind, step, current, loaded, pass>>
  BY DEF Window, Fits, Kept
<1>2. UNCHANGED <<pc, rows, kind, step, current, loaded, pass>>
  BY <1>1 DEF manifestVars
<1>3. /\ current \in Indices /\ kind \in Kinds /\ kind # "validate" /\ pc = "valid"
      /\ at \in Int /\ Row.start <= at /\ pass \in DOMAIN Durations[kind]
      /\ loaded[Path] # -1 /\ Times \in Seq(Int)
      /\ \A w \in Made : windows[w].row = current =>
            windows[w].pass <= pass /\ (windows[w].pass = pass => windows[w].to <= at)
  BY <1>1 DEF DInv, DataTypeOK, Ahead
<1>4. Path \in Paths /\ Row.start \in Int /\ Row.end \in Int /\ Len(rows) \in Nat
  BY <1>3, RowType DEF File, Row, IInv, ManifestTypeOK, Path
<1>5. Seconds \in Nat /\ Seconds > 0 /\ pass \in Nat
  <2>1. Durations[kind] \in Seq(Nat \ {0})
    BY <1>3, DatasetAssumption
  <2>2. QED
    <3>1. pass \in DOMAIN Durations[kind]
      BY <1>3
    <3>2. QED
      BY ONLY <2>1, <3>1 DEF Seconds
<1>6. at + Seconds \in Int /\ at <= at + Seconds /\ Row.start <= at + Seconds
  BY <1>3, <1>4, <1>5
<1>7. packets \subseteq {i \in DOMAIN Times : at <= Times[i] /\ Times[i] < at + Seconds}
  BY DEF PacketsIn
<1>8. loaded[Path] \in Versions
  BY <1>3, <1>4 DEF DInv, DataTypeOK
<1>9. DOMAIN Times \subseteq Nat
  BY <1>3
<1> HIDE DEF packets
<1>10. made \in WindowRecord
  <2>1. current \in Nat /\ packets \in SUBSET Nat
    BY <1>3, <1>4, <1>7, <1>9
  <2>2. QED
    BY <1>3, <1>5, <1>6, <1>8, <2>1 DEF WindowRecord
<1>11. /\ made.row = current /\ made.pass = pass /\ made.from = at /\ made.to = at + Seconds
       /\ made.packets = packets /\ made.version = loaded[Path]
  OBVIOUS
<1>12. Row' = Row /\ Path' = Path /\ Times' = Times /\ Seconds' = Seconds /\ Indices' = Indices
  BY <1>2 DEF Row, File, Times, Seconds, Path, Opened
<1> HIDE DEF made
<1>13. CASE windows' = windows
  <2>1. DataTypeOK'
    BY <1>2, <1>13 DEF DInv, DataTypeOK
  <2>2. Ahead'
    <3>1. \A w \in Made : windows[w].row = current =>
            windows[w].pass <= pass /\ (windows[w].pass = pass => windows[w].to <= at + Seconds)
      <4> SUFFICES ASSUME NEW w \in Made, windows[w].row = current, windows[w].pass = pass
                   PROVE  windows[w].to <= at + Seconds
        BY <1>3
      <4>1. windows[w].to <= at /\ windows[w].to \in Int
        BY <1>3 DEF DInv, InsideItsRow
      <4>2. QED
        BY <1>3, <1>5, <4>1
    <3>2. QED
      BY <1>1, <1>2, <1>3, <1>6, <1>12, <1>13, <3>1 DEF Ahead, Made
  <2>3. QED
    BY <1>2, <1>3, <1>13, <2>1, <2>2, SameWindows
<1>14. CASE windows' = Append(windows, made)
  <2>1. windows \in Seq(WindowRecord)
    BY DEF DInv, DataTypeOK
  <2>2. /\ Made' = Made \cup {Len(windows) + 1}
        /\ \A w \in Made : windows'[w] = windows[w] /\ w < Len(windows) + 1 /\ w \in Int
        /\ windows'[Len(windows) + 1] = made
        /\ Len(windows) + 1 \in Int
    BY <1>14, <2>1 DEF Made
  <2>3. DataTypeOK'
    <3>1. windows' \in Seq(WindowRecord)
      BY <1>10, <1>14, <2>1
    <3>2. QED
      BY <1>2, <1>3, <3>1 DEF DInv, DataTypeOK, Versions
  <2>4. \A w \in Made' : InsideItsRow(windows[w])'
    <3> SUFFICES ASSUME NEW w \in Made' PROVE InsideItsRow(windows[w])'
      OBVIOUS
    <3>1. CASE w \in Made
      BY <1>2, <2>2, <3>1 DEF DInv, InsideItsRow
    <3>2. CASE w = Len(windows) + 1
      <4>1. current <= current
        BY <1>3, <1>4
      <4>2. QED
        BY <1>1, <1>2, <1>3, <1>6, <1>11, <2>2, <3>2, <4>1 DEF InsideItsRow, Row
    <3>3. QED
      BY <2>2, <3>1, <3>2
  <2>5. \A w \in Made' : FromTheCache(windows[w])'
    <3> SUFFICES ASSUME NEW w \in Made' PROVE FromTheCache(windows[w])'
      OBVIOUS
    <3>1. CASE w \in Made
      BY <1>2, <2>2, <3>1 DEF DInv, FromTheCache
    <3>2. CASE w = Len(windows) + 1
      <4>1. /\ windows'[w] = made /\ made.row = current /\ rows'[current].capture_file = Path
            /\ loaded'[Path] = loaded[Path] /\ Capture[Normal[Path]][loaded[Path]].times = Times
            /\ made.version = loaded[Path]
        BY <1>2, <1>11, <2>2, <3>2 DEF Times, File, Row, Path, Opened, CaptureOf
      <4>2. made.packets \subseteq {i \in DOMAIN Times : made.from <= Times[i] /\ Times[i] < made.to}
        BY <1>7, <1>11
      <4>3. QED
        BY ONLY <1>3, <4>1, <4>2 DEF FromTheCache
    <3>3. QED
      BY <2>2, <3>1, <3>2
  <2>6. Ahead'
    <3> SUFFICES ASSUME NEW w \in Made', windows'[w].row = current
                 PROVE  /\ windows'[w].pass <= pass
                        /\ windows'[w].pass = pass => windows'[w].to <= at + Seconds
      BY <1>1, <1>2, <1>3, <1>6, <1>12 DEF Ahead
    <3>1. CASE w \in Made
      <4>1. windows[w].to \in Int
        BY <3>1 DEF DInv, InsideItsRow
      <4>2. QED
        BY <1>3, <1>5, <2>2, <3>1, <4>1
    <3>2. CASE w = Len(windows) + 1
      BY <1>5, <1>6, <1>11, <2>2, <3>2
    <3>3. QED
      BY <2>2, <3>1, <3>2
  <2>7. OneAfterAnother'
    <3> SUFFICES ASSUME NEW v \in Made', NEW w \in Made', v < w,
                        windows'[v].row = windows'[w].row, windows'[v].pass = windows'[w].pass
                 PROVE  windows'[v].to <= windows'[w].from
      BY DEF OneAfterAnother
    <3>1. CASE w \in Made
      <4>1. v \in Made
        BY <2>2, <3>1
      <4>2. QED
        BY <2>2, <3>1, <4>1 DEF DInv, OneAfterAnother
    <3>2. CASE w = Len(windows) + 1
      <4>1. v \in Made
        BY <2>2, <3>2
      <4>2. QED
        BY <1>3, <1>11, <2>2, <3>2, <4>1
    <3>3. QED
      BY <2>2, <3>1, <3>2
  <2>8. QED
    BY <2>3, <2>4, <2>5, <2>6, <2>7 DEF DInv
<1>15. QED
  BY <1>1, <1>13, <1>14

\* Every step of a command preserves the invariant.
LEMMA DataNextInv == IInv /\ DInv /\ [DataNext]_vars => DInv'
<1> SUFFICES ASSUME IInv, DInv, [DataNext]_vars PROVE DInv'
  OBVIOUS
<1>1. CASE Over \/ UNCHANGED vars
  <2>1. UNCHANGED <<manifestVars, dataVars>>
    BY <1>1 DEF Over, vars
  <2>2. current \in Int /\ current <= current
    <3>1. Len(rows) \in Nat /\ current \in 0 .. Len(rows)
      BY DEF IInv, ManifestTypeOK, DInv, DataTypeOK
    <3>2. QED
      BY <3>1
  <2>3. DataTypeOK'
    BY <2>1 DEF manifestVars, dataVars, DInv, DataTypeOK, Indices
  <2>4. Ahead'
    BY <2>1 DEF manifestVars, dataVars, DInv, Ahead, Made, Row, File, Times, Path, Opened
  <2>5. QED
    BY <2>1, <2>2, <2>3, <2>4, SameWindows DEF manifestVars, dataVars
<1>2. QED
  BY <1>1, StepInv, ReadInv, EndInv, WindowInv DEF DataNext

\* The commands only ever take the manifest's own steps.
THEOREM DataRefinesManifest == Spec => ManifestSpec
<1>1. DataInit => Init
  BY DEF DataInit
<1>2. [DataNext]_vars => [ManifestNext]_manifestVars
  BY DEF DataNext, vars, ValidateManifest, CaptureReplaced, NextRow, Finish, Rehash, Fail, Step,
         ReadCapture, Window, EndOfInterval, Over, ManifestNext
<1>3. QED
  BY <1>1, <1>2, PTL DEF Spec, ManifestSpec

\* No packet is counted twice, in any command, manifest or schedule of replaced
\* captures (read_session_manifest, make_windows and the loops over the rows).
THEOREM PacketsCountedOnce == Spec => []NoPacketTwice
<1>1. Spec => []IInv
  BY DataRefinesManifest, ManifestInvariance, PTL
<1>2. Spec => []DInv
  BY <1>1, DataInitInv, DataNextInv, PTL DEF Spec
<1>3. QED
  BY <1>1, <1>2, NoPacketTwiceFromInv, PTL

\* The commands inherit that accepted manifests are disjoint ...
THEOREM DataAcceptedDisjoint == Spec => []AcceptedIsDisjoint
  BY DataRefinesManifest, AcceptedDisjoint, PTL

\* ... and that overlaps are real.
THEOREM DataOverlapReal == Spec => []OverlapIsReal
  BY DataRefinesManifest, OverlapReal, PTL
-----------------------------------------------------------------------------
(***************************************************************************)
(* A capture that two rows of a result share is windowed under its digest, *)
(* except for the last row of the capture when it reads it once more,      *)
(* under a path of its own.                                                *)
(*                                                                         *)
(* Versions only grow.  A row that has been hashed once more had the       *)
(* version its capture held at that moment, so no row of the capture has a *)
(* later one: all rows of a capture that get so far agree.  What is in the *)
(* cache, under whichever path, is no earlier than the row it was read for *)
(* and no later than the next row of the capture.                          *)
(***************************************************************************)

Sha(i) == rows[i].capture_sha256

\* No row of the capture was recorded with a later content.
Latest(i) == \A j \in Indices : SameCapture(i, j) => Sha(j) <= Sha(i)

HashInv ==
  /\ pc \in {"overlap", "valid"} => verified = Len(rows)
  /\ \A i \in 1 .. verified : Sha(i) \in Versions /\ Sha(i) <= file[CaptureOf(rows[i])]

\* What is in the cache under path p.
Cached(p) ==
  loaded[p] # -1 =>
    /\ loaded[p] <= file[Normal[p]]
    /\ kind # "validate" =>
         \E i \in Indices : CaptureOf(rows[i]) = Normal[p] /\ Latest(i) /\ Sha(i) <= loaded[p]

\* Nothing in the cache of row i's capture, under whichever path, is ahead of the row.
NotAhead(i) ==
  \A p \in Paths : Normal[p] = CaptureOf(rows[i]) /\ loaded[p] # -1 => loaded[p] <= Sha(i)

\* The current row after it was hashed, and while it is cut.
Rehashed ==
  /\ step = "read" /\ kind # "validate" =>
       Latest(current) /\ Sha(current) <= file[File] /\ NotAhead(current)
  /\ step = "windows" =>
       /\ Latest(current)
       /\ \A p \in Paths \ {Path} :
            Normal[p] = File /\ loaded[p] # -1 => loaded[p] = Sha(current)
       /\ \A w \in Made :
            windows[w].row # current /\ rows[windows[w].row].capture_file = Path =>
              loaded[Path] = Sha(current)

WindowOfCache(w) ==
  /\ Latest(windows[w].row)
  /\ windows[w].version = loaded[rows[windows[w].row].capture_file]

CacheInv ==
  /\ \A p \in Paths : Cached(p)
  /\ Rehashed
  /\ \A w \in Made : WindowOfCache(w)
  /\ SharedCaptureIsVerified

\* Every step preserves what is known of the hashes.
LEMMA HashStep == IInv /\ HashInv /\ [ManifestNext]_manifestVars => HashInv'
<1> SUFFICES ASSUME IInv, HashInv, [ManifestNext]_manifestVars PROVE HashInv'
  OBVIOUS
<1>1. verified \in 0 .. Len(rows) /\ Len(rows) \in Nat /\ file \in [Captures -> Versions]
  BY DEF IInv, ManifestTypeOK
<1>2. CASE /\ UNCHANGED <<rows, file, verified>>
           /\ pc' \in {"overlap", "valid"} => pc \in {"overlap", "valid"} \/ verified = Len(rows)
  BY <1>2 DEF HashInv, Sha, Versions
<1>3. CASE /\ UNCHANGED <<pc, rows, file>> /\ pc = "hash" /\ verified < Len(rows)
           /\ verified' = verified + 1
           /\ file[CaptureOf(rows[verified + 1])] = rows[verified + 1].capture_sha256
  <2>1. verified + 1 \in Indices /\ \A i \in 1 .. verified + 1 : i \in 1 .. verified \/ i = verified + 1
    BY <1>1, <1>3 DEF Indices
  <2>2. CaptureOf(rows[verified + 1]) \in Captures
    BY <2>1, RowType DEF IInv, ManifestTypeOK
  <2>3. Sha(verified + 1) \in Versions /\ Sha(verified + 1) <= file[CaptureOf(rows[verified + 1])]
    <3>1. \A n \in Versions : n <= n
      BY DEF Versions
    <3>2. QED
      BY <1>1, <1>3, <2>2, <3>1 DEF Sha
  <2>4. ASSUME NEW i \in 1 .. verified + 1
        PROVE  Sha(i) \in Versions /\ Sha(i) <= file[CaptureOf(rows[i])]
    BY <2>1, <2>3 DEF HashInv
  <2>5. QED
    BY <1>3, <2>4 DEF HashInv, Sha, Versions
<1>4. CASE \E c \in Captures : FileChanges(c)
  <2>1. PICK c \in Captures : FileChanges(c)
    BY <1>4
  <2>2. UNCHANGED <<pc, rows, verified>> /\ file' = [file EXCEPT ![c] = @ + 1]
    BY <2>1 DEF FileChanges
  <2>3. ASSUME NEW i \in 1 .. verified PROVE Sha(i) \in Versions /\ Sha(i) <= file'[CaptureOf(rows[i])]
    <3>1. i \in Indices
      BY <1>1 DEF Indices
    <3>2. CaptureOf(rows[i]) \in Captures
      BY <3>1, RowType DEF IInv, ManifestTypeOK
    <3>3. file[CaptureOf(rows[i])] \in Int /\ Sha(i) \in Int
      BY <1>1, <3>2 DEF HashInv, Versions
    <3>4. file'[CaptureOf(rows[i])] \in {file[CaptureOf(rows[i])], file[CaptureOf(rows[i])] + 1}
      BY <1>1, <2>2, <3>2
    <3>5. Sha(i) \in Versions /\ Sha(i) <= file[CaptureOf(rows[i])]
      BY DEF HashInv
    <3>6. QED
      BY <3>3, <3>4, <3>5
  <2>4. QED
    BY <2>2, <2>3 DEF HashInv, Sha, Versions
<1>5. QED
  BY <1>2, <1>3, <1>4 DEF ManifestNext, Validate, ReadManifest, HashRow, AllHashed, CompareRow,
     AllCompared, Reject, Proceed, manifestVars

\* In an accepted manifest the recorded contents are numbers none of which is ahead.
LEMMA ShaType ==
  ASSUME IInv, HashInv, pc = "valid", NEW i \in Indices
  PROVE  Sha(i) \in Int /\ Sha(i) <= file[CaptureOf(rows[i])]
BY DEF HashInv, Indices, Versions

\* Two rows that no row of their capture is ahead of agree.
LEMMA LatestAgree ==
  ASSUME IInv, HashInv, pc = "valid", NEW i \in Indices, NEW j \in Indices,
         SameCapture(i, j), Latest(i), Latest(j)
  PROVE  Sha(i) = Sha(j)
<1>1. Sha(j) <= Sha(i) /\ Sha(i) <= Sha(j)
  BY DEF Latest, SameCapture
<1>2. QED
  BY <1>1, ShaType

\* Which row used a capture last depends on the rows alone.
LEMMA LatestStays == ASSUME rows' = rows, NEW i PROVE (Latest(i)' <=> Latest(i)) /\ Sha(i)' = Sha(i)
BY DEF Latest, Sha, SameCapture, Indices

\* A step that loads and cuts nothing; captures may get ahead.
LEMMA CacheFrame ==
  ASSUME IInv, DInv, CacheInv,
         UNCHANGED <<rows, kind, loaded, windows>>,
         \A c \in Captures : file[c] \in Int /\ file'[c] \in Int /\ file[c] <= file'[c],
         step' = "read" /\ kind # "validate" =>
           /\ current' = current
           /\ step # "read" => Latest(current) /\ Sha(current) <= file'[File] /\ NotAhead(current)
           /\ File \in Captures /\ Sha(current) \in Int,
         step' = "windows" => step = "windows" /\ current' = current
  PROVE  CacheInv'
<1>1. Made' = Made /\ Indices' = Indices
  BY DEF Made, Indices
<1>2. ASSUME NEW p \in Paths PROVE Cached(p)'
  <2> SUFFICES ASSUME loaded[p] # -1 PROVE Cached(p)'
    BY DEF Cached
  <2> DEFINE c == Normal[p]
  <2>1. Cached(p) /\ loaded[p] \in Int /\ c \in Captures
    <3>1. loaded[p] \in Versions
      BY DEF CacheInv, DInv, DataTypeOK
    <3>2. QED
      BY <3>1, ManifestsAssumption DEF CacheInv, Versions
  <2>2. loaded[p] <= file[c] /\ file[c] <= file'[c] /\ file[c] \in Int /\ file'[c] \in Int
    BY <2>1 DEF Cached
  <2>3. loaded[p] <= file'[c]
    BY ONLY <2>1, <2>2
  <2>4. kind # "validate" =>
          \E i \in Indices : CaptureOf(rows[i]) = c /\ Latest(i) /\ Sha(i) <= loaded[p]
    BY <2>1 DEF Cached
  <2>5. \A i : (Latest(i)' <=> Latest(i)) /\ Sha(i)' = Sha(i)
    BY LatestStays
  <2>6. QED
    BY <1>1, <2>3, <2>4, <2>5 DEF Cached
<1>3. Rehashed'
  <2>1. ASSUME step' = "read", kind # "validate"
        PROVE  Latest(current)' /\ Sha(current)' <= file'[File'] /\ NotAhead(current)'
    <3>1. current' = current /\ File' = File /\ File \in Captures /\ Sha(current) \in Int
      BY <2>1 DEF File, Row
    <3>2. Latest(current) /\ Sha(current) <= file'[File] /\ NotAhead(current)
      <4>1. CASE step # "read"
        BY <2>1, <4>1
      <4>2. CASE step = "read"
        <5>1. Latest(current) /\ Sha(current) <= file[File] /\ NotAhead(current)
          BY <2>1, <4>2 DEF CacheInv, Rehashed
        <5>2. file[File] <= file'[File] /\ file[File] \in Int /\ file'[File] \in Int
          BY <3>1
        <5>3. Sha(current) <= file'[File]
          BY ONLY <3>1, <5>1, <5>2
        <5>4. QED
          BY <5>1, <5>3
      <4>3. QED
        BY <4>1, <4>2
    <3>3. Latest(current)' /\ Sha(current)' = Sha(current) /\ NotAhead(current)'
      BY <3>1, <3>2 DEF Latest, Sha, SameCapture, Indices, NotAhead
    <3>4. QED
      BY <3>1, <3>2, <3>3
  <2>2. ASSUME step' = "windows"
        PROVE  /\ Latest(current)'
               /\ \A p \in Paths \ {Path'} :
                    Normal[p] = File' /\ loaded'[p] # -1 => loaded'[p] = Sha(current)'
               /\ \A w \in Made' :
                    windows'[w].row # current' /\ rows'[windows'[w].row].capture_file = Path' =>
                      loaded'[Path'] = Sha(current)'
    <3>1. step = "windows" /\ current' = current /\ File' = File /\ Path' = Path
      BY <2>2 DEF File, Path, Row
    <3>2. Latest(current)' /\ Sha(current)' = Sha(current)
      BY <3>1 DEF CacheInv, Rehashed, Latest, Sha, SameCapture, Indices
    <3>3. QED
      BY <1>1, <3>1, <3>2 DEF CacheInv, Rehashed
  <2>3. QED
    BY <2>1, <2>2 DEF Rehashed
<1>4. ASSUME NEW w \in Made PROVE WindowOfCache(w)'
  BY <1>1 DEF CacheInv, WindowOfCache, Latest, Sha, SameCapture, Indices
<1>5. SharedCaptureIsVerified'
  BY <1>1 DEF CacheInv, SharedCaptureIsVerified, SameCapture
<1>6. QED
  BY <1>1, <1>2, <1>3, <1>4, <1>5 DEF CacheInv

\* The row now has the content the capture holds: no row of the capture is ahead of it.
LEMMA RehashCache ==
  ASSUME IInv, DInv, HashInv, CacheInv, Rehash PROVE CacheInv'
<1>1. /\ UNCHANGED <<rows, file, kind, loaded, windows, current>> /\ step = "load"
      /\ \/ step' = "failed"
         \/ step' = "read" /\ (kind # "validate" => file[File] = Sha(current))
  BY DEF Rehash, Fail, Step, Unverified, manifestVars, Row, Sha
<1>2. current \in Indices /\ pc = "valid"
  BY <1>1 DEF DInv, DataTypeOK
<1>3. File \in Captures /\ File = CaptureOf(rows[current])
  BY <1>2, RowType DEF File, Row, IInv, ManifestTypeOK, Path
<1>4. \A c \in Captures : file[c] \in Int
  BY DEF IInv, ManifestTypeOK, Versions
<1>5. Sha(current) \in Int
  BY <1>2, ShaType
<1>6. ASSUME kind # "validate", step' = "read"
      PROVE  Latest(current) /\ Sha(current) <= file[File] /\ NotAhead(current)
  <2>1. file[File] = Sha(current)
    BY <1>1, <1>6
  <2>2. Sha(current) <= file[File]
    BY <1>5, <2>1
  <2>3. Latest(current)
    <3> SUFFICES ASSUME NEW j \in Indices, SameCapture(current, j) PROVE Sha(j) <= Sha(current)
      BY DEF Latest
    <3>1. Sha(j) <= file[CaptureOf(rows[j])]
      BY <1>2, ShaType
    <3>2. QED
      BY <1>3, <2>1, <3>1 DEF SameCapture
  <2>4. NotAhead(current)
    BY <1>3, <2>1 DEF CacheInv, Cached, NotAhead
  <2>5. QED
    BY <2>2, <2>3, <2>4
<1>7. \A c \in Captures : file[c] \in Int /\ file'[c] \in Int /\ file[c] <= file'[c]
  <2>1. \A n \in Int : n <= n
    OBVIOUS
  <2>2. QED
    BY <1>1, <1>4, <2>1
<1>8. QED
  BY <1>1, <1>3, <1>5, <1>6, <1>7, CacheFrame

\* A capture found in the cache is the one the row was recorded with.
LEMMA ReadCache ==
  ASSUME IInv, DInv, HashInv, CacheInv, ReadCapture PROVE CacheInv'
<1> DEFINE version == IF loaded[Path] < 0 THEN file[File] ELSE loaded[Path]
<1>1. /\ step = "read" /\ UNCHANGED <<rows, file, kind, windows, current>>
      /\ loaded' = [loaded EXCEPT ![Path] = version]
      /\ step' \in {"failed", "rows", "windows"}
      /\ step' = "windows" => kind # "validate"
  BY DEF ReadCapture, Version, manifestVars
<1>2. current \in Indices /\ pc = "valid" /\ Made' = Made /\ Indices' = Indices
  BY <1>1 DEF DInv, DataTypeOK, Made, Indices
<1>3. /\ File \in Captures /\ File = CaptureOf(rows[current]) /\ File' = File
      /\ Path \in Paths /\ Path = rows[current].capture_file /\ Path' = Path /\ Normal[Path] = File
  BY <1>1, <1>2, RowType DEF File, Row, IInv, ManifestTypeOK, Path
<1>4. file[File] \in Versions /\ loaded[Path] \in Versions \cup {-1} /\ loaded \in [Paths -> Versions \cup {-1}]
  BY <1>3 DEF IInv, ManifestTypeOK, DInv, DataTypeOK
<1>5. /\ file[File] \in Int /\ loaded[Path] \in Int /\ Sha(current) \in Int
      /\ loaded[Path] = -1 => version = file[File]
      /\ loaded[Path] # -1 => version = loaded[Path]
  <2>1. Sha(current) \in Int
    BY <1>2, ShaType
  <2>2. QED
    BY <1>4, <2>1 DEF Versions
<1> HIDE DEF version
<1>6. loaded'[Path] = version /\ \A p \in Paths : loaded[p] # -1 => loaded'[p] = loaded[p]
  BY <1>1, <1>3, <1>4, <1>5
<1>7. \A p \in Paths : p # Path => loaded'[p] = loaded[p]
  BY <1>1, <1>4
<1>8. \A i : (Latest(i)' <=> Latest(i)) /\ Sha(i)' = Sha(i)
  BY <1>1, LatestStays
<1>9. Cached(Path) /\ (loaded[Path] # -1 => loaded[Path] <= file[File])
  BY <1>3 DEF CacheInv, Cached
<1>10. version <= file[File]
  BY <1>5, <1>9
<1>11. kind # "validate" => Latest(current) /\ Sha(current) <= file[File] /\ NotAhead(current)
  BY <1>1 DEF CacheInv, Rehashed
<1>12. ASSUME kind # "validate", NEW p \in Paths, Normal[p] = File, loaded[p] # -1
       PROVE  loaded[p] = Sha(current)
  <2>1. PICK i \in Indices : CaptureOf(rows[i]) = File /\ Latest(i) /\ Sha(i) <= loaded[p]
    BY <1>12 DEF CacheInv, Cached
  <2>2. Sha(i) = Sha(current)
    BY <1>2, <1>3, <1>11, <1>12, <2>1, LatestAgree DEF SameCapture
  <2>3. loaded[p] <= Sha(current) /\ loaded[p] \in Int
    <3>1. loaded[p] \in Versions \cup {-1}
      BY <1>4
    <3>2. QED
      BY <1>3, <1>11, <1>12, <3>1 DEF NotAhead, Versions
  <2>4. QED
    BY <1>5, <2>1, <2>2, <2>3
<1>13. kind # "validate" => Sha(current) <= version
  BY <1>3, <1>5, <1>11, <1>12
<1>14. ASSUME NEW p \in Paths PROVE Cached(p)'
  <2>1. CASE p = Path
    BY <1>1, <1>2, <1>3, <1>6, <1>8, <1>10, <1>11, <1>13, <2>1 DEF Cached
  <2>2. CASE p # Path
    <3>1. Cached(p)
      BY DEF CacheInv
    <3>2. QED
      BY <1>1, <1>2, <1>7, <1>8, <2>2, <3>1 DEF Cached
  <2>3. QED
    BY <2>1, <2>2
<1>15. ASSUME NEW w \in Made
       PROVE  /\ rows[windows[w].row].capture_file \in Paths
              /\ loaded[rows[windows[w].row].capture_file] # -1
  BY RowType DEF DInv, InsideItsRow, FromTheCache, IInv, ManifestTypeOK
<1>16. Rehashed'
  <2>1. ASSUME step' = "windows", NEW w \in Made, rows[windows[w].row].capture_file = Path
        PROVE  loaded'[Path] = Sha(current)
    BY <1>1, <1>3, <1>5, <1>6, <1>12, <1>15, <2>1
  <2>2. ASSUME step' = "windows", NEW p \in Paths, p # Path, Normal[p] = File, loaded'[p] # -1
        PROVE  loaded'[p] = Sha(current)
    BY <1>1, <1>7, <1>12, <2>2
  <2>3. QED
    BY <1>1, <1>2, <1>3, <1>8, <1>11, <2>1, <2>2 DEF Rehashed
<1>17. ASSUME NEW w \in Made PROVE WindowOfCache(w)'
  <2>1. WindowOfCache(w)
    BY DEF CacheInv
  <2>2. QED
    BY <1>1, <1>6, <1>8, <1>15, <2>1 DEF WindowOfCache
<1>18. SharedCaptureIsVerified'
  BY <1>1, <1>2 DEF CacheInv, SharedCaptureIsVerified, SameCapture
<1>19. QED
  BY <1>2, <1>14, <1>16, <1>17, <1>18 DEF CacheInv

\* A new window is of the cached content, and so are the older ones of its capture.
LEMMA WindowCache ==
  ASSUME IInv, DInv, HashInv, CacheInv, Window PROVE CacheInv'
<1> DEFINE made == [ row |-> current, pass |-> pass, from |-> at, to |-> at + Seconds,
                     packets |-> PacketsIn(at, at + Seconds), version |-> loaded[Path] ]
<1>1. /\ UNCHANGED <<rows, file, kind, step, current, loaded>> /\ step = "windows"
      /\ windows' = windows \/ windows' = Append(windows, made)
  BY DEF Window, Kept, manifestVars
<1>2. \A c \in Captures : file[c] \in Int /\ file'[c] \in Int /\ file[c] <= file'[c]
  <2>1. \A c \in Captures : file[c] \in Int
    BY DEF IInv, ManifestTypeOK, Versions
  <2>2. \A n \in Int : n <= n
    OBVIOUS
  <2>3. QED
    BY <1>1, <2>1, <2>2
<1>3. made.row = current /\ made.version = loaded[Path] /\ Path = rows[current].capture_file
  BY DEF File, Row, Path
<1> HIDE DEF made
<1>4. CASE windows' = windows
  BY <1>1, <1>2, <1>4, CacheFrame
<1>5. CASE windows' = Append(windows, made)
  <2>1. windows \in Seq(WindowRecord) /\ current \in Indices /\ pc = "valid"
    BY <1>1 DEF DInv, DataTypeOK
  <2>2. \A w \in Made' : \/ w \in Made /\ windows'[w] = windows[w]
                         \/ windows'[w] = made
    BY <1>5, <2>1 DEF Made
  <2>3. \A i : (Latest(i)' <=> Latest(i)) /\ Sha(i)' = Sha(i)
    BY <1>1, LatestStays
  <2>4. Latest(current) /\ File' = File /\ Path' = Path
    BY <1>1 DEF CacheInv, Rehashed, File, Row, Path
  <2>5. ASSUME NEW w \in Made, windows[w].row # current, SameCapture(windows[w].row, current)
        PROVE  windows[w].version = Sha(current) /\ Sha(windows[w].row) = Sha(current)
    <3> DEFINE path == rows[windows[w].row].capture_file
    <3>1. Latest(windows[w].row) /\ windows[w].row \in Indices /\ windows[w].version = loaded[path]
      BY DEF CacheInv, WindowOfCache, DInv, InsideItsRow
    <3>2. Sha(windows[w].row) = Sha(current)
      BY <2>1, <2>4, <2>5, <3>1, LatestAgree
    <3>3. path \in Paths /\ Normal[path] = File /\ loaded[path] # -1
      BY <2>5, <3>1, RowType DEF SameCapture, CaptureOf, File, Row, IInv, ManifestTypeOK, DInv, FromTheCache
    <3>4. loaded[path] = Sha(current)
      BY <1>1, <2>5, <3>3 DEF CacheInv, Rehashed
    <3>5. QED
      BY <3>1, <3>2, <3>4
  <2>6. ASSUME NEW p \in Paths PROVE Cached(p)'
    <3>1. Cached(p) /\ Indices' = Indices
      BY <1>1 DEF CacheInv, Indices
    <3>2. QED
      BY <1>1, <2>3, <3>1 DEF Cached
  <2>7. Rehashed'
    <3>1. ASSUME NEW w \in Made', windows'[w].row # current, rows[windows'[w].row].capture_file = Path
          PROVE  loaded[Path] = Sha(current)
      <4>1. w \in Made /\ windows'[w] = windows[w]
        BY <1>3, <2>2, <3>1
      <4>2. QED
        BY <1>1, <3>1, <4>1 DEF CacheInv, Rehashed
    <3>2. \A p \in Paths \ {Path} : Normal[p] = File /\ loaded[p] # -1 => loaded[p] = Sha(current)
      BY <1>1 DEF CacheInv, Rehashed
    <3>3. QED
      BY <1>1, <2>3, <2>4, <3>1, <3>2 DEF Rehashed
  <2>8. ASSUME NEW w \in Made' PROVE WindowOfCache(w)'
    <3>1. CASE windows'[w] = made
      BY <1>1, <1>3, <2>3, <2>4, <3>1 DEF WindowOfCache
    <3>2. CASE w \in Made /\ windows'[w] = windows[w]
      BY <1>1, <2>3, <3>2 DEF CacheInv, WindowOfCache
    <3>3. QED
      BY <2>2, <3>1, <3>2
  <2>9. SharedCaptureIsVerified'
    <3> SUFFICES ASSUME NEW v \in Made', NEW w \in Made',
                        SameCapture(windows'[v].row, windows'[w].row),
                        \/ windows'[v].row < windows'[w].row
                        \/ /\ windows'[v].row # windows'[w].row
                           /\ rows[windows'[v].row].capture_file = rows[windows'[w].row].capture_file
                 PROVE  windows'[v].version = Sha(windows'[v].row)
      BY <1>1 DEF SharedCaptureIsVerified, Sha, SameCapture
    <3>1. \A x \in Made : windows[x].row \in Int /\ windows[x].row <= current
      BY DEF DInv, InsideItsRow, Indices
    <3>2. current \in Int
      BY <2>1 DEF Indices
    <3>3. CASE windows'[v] = made /\ windows'[w] = made
      BY <1>3, <3>2, <3>3
    <3>4. CASE windows'[v] = made /\ w \in Made /\ windows'[w] = windows[w]
      <4>1. windows[w].row # current /\ rows[windows[w].row].capture_file = Path
        BY <1>3, <3>1, <3>2, <3>4
      <4>2. loaded[Path] = Sha(current)
        BY <1>1, <3>4, <4>1 DEF CacheInv, Rehashed
      <4>3. QED
        BY <1>3, <3>4, <4>2
    <3>5. CASE v \in Made /\ windows'[v] = windows[v] /\ windows'[w] = made
      <4>1. SameCapture(windows[v].row, current) /\ windows[v].row # current
        BY <1>3, <3>1, <3>2, <3>5
      <4>2. QED
        BY <2>5, <3>5, <4>1
    <3>6. CASE v \in Made /\ windows'[v] = windows[v] /\ w \in Made /\ windows'[w] = windows[w]
      BY <3>6 DEF CacheInv, SharedCaptureIsVerified, Sha
    <3>7. QED
      BY <2>2, <3>3, <3>4, <3>5, <3>6
  <2>10. QED
    BY <2>6, <2>7, <2>8, <2>9 DEF CacheInv
<1>6. QED
  BY <1>1, <1>4, <1>5

\* Every step preserves what is known of the cache.
LEMMA CacheStep == IInv /\ DInv /\ HashInv /\ CacheInv /\ [DataNext]_vars => CacheInv'
<1> SUFFICES ASSUME IInv, DInv, HashInv, CacheInv, [DataNext]_vars PROVE CacheInv'
  OBVIOUS
<1>1. ASSUME ValidateManifest \/ CaptureReplaced \/ NextRow \/ Finish \/ EndOfInterval \/ Over
             \/ UNCHANGED vars
      PROVE  CacheInv'
  <2>1. /\ UNCHANGED <<kind, loaded, windows>>
        /\ step' \in {"read", "windows"} => step' = step /\ current' = current
    BY <1>1 DEF ValidateManifest, CaptureReplaced, NextRow, Finish, EndOfInterval, Over, Step,
                vars, dataVars
  <2>2. rows' = rows
    BY <1>1, RowsFixed DEF ValidateManifest, CaptureReplaced, NextRow, Finish, EndOfInterval, Over,
                           Step, vars, manifestVars, ManifestNext
  <2>3. file' = file \/ \E c \in Captures : FileChanges(c)
    BY <1>1 DEF ValidateManifest, CaptureReplaced, NextRow, Finish, EndOfInterval, Over, Step, vars,
                manifestVars, Validate, ReadManifest, HashRow, AllHashed, CompareRow, AllCompared,
                Reject, Proceed
  <2>4. \A c \in Captures : file[c] \in Int /\ file'[c] \in Int /\ file[c] <= file'[c]
    <3>1. file \in [Captures -> Versions] /\ Versions \subseteq Int
      BY DEF IInv, ManifestTypeOK, Versions
    <3>2. \A n \in Int : n <= n /\ n <= n + 1 /\ n + 1 \in Int
      OBVIOUS
    <3>3. \A c \in Captures : file'[c] \in {file[c], file[c] + 1}
      BY <2>3, <3>1 DEF FileChanges
    <3>4. QED
      BY <3>1, <3>2, <3>3
  <2>5. step = "read" => File \in Captures /\ Sha(current) \in Int
    <3>1. step = "read" => current \in Indices /\ pc = "valid"
      BY DEF DInv, DataTypeOK
    <3>2. QED
      BY <3>1, ShaType, RowType DEF File, Row, IInv, ManifestTypeOK, Path
  <2>6. QED
    BY <2>1, <2>2, <2>4, <2>5, CacheFrame
<1>2. QED
  BY <1>1, RehashCache, ReadCache, WindowCache DEF DataNext

\* No capture has been hashed or read in the beginning.
LEMMA CacheInit == DataInit => HashInv /\ CacheInv
<1> SUFFICES ASSUME DataInit PROVE HashInv /\ CacheInv
  OBVIOUS
<1>1. HashInv
  BY DEF DataInit, Init, HashInv
<1>2. Made = {} /\ step = "manifest" /\ loaded = [p \in Paths |-> -1]
  BY DEF DataInit, Made
<1>3. QED
  BY <1>1, <1>2 DEF CacheInv, Cached, Rehashed, SharedCaptureIsVerified

\* A row that is followed by another row of its capture in the result, however the two
\* spell its path, is cut from the content it was recorded with, and so is a row that
\* shares its very path with another one, however often the capture was replaced between
\* the hashes and the reads (the cache of packets, keyed by the path as written, and
\* sha256_file before each use of it).
THEOREM SharedCaptureVerified == Spec => []SharedCaptureIsVerified
<1>1. Spec => []IInv
  BY DataRefinesManifest, ManifestInvariance, PTL
<1>2. Spec => []DInv
  BY <1>1, DataInitInv, DataNextInv, PTL DEF Spec
<1>3. [DataNext]_vars => [ManifestNext]_manifestVars
  BY DEF DataNext, vars, ValidateManifest, CaptureReplaced, NextRow, Finish, Rehash, Fail, Step,
         ReadCapture, Window, EndOfInterval, Over, ManifestNext
<1>4. Spec => []HashInv
  BY <1>1, <1>3, CacheInit, HashStep, PTL DEF Spec
<1>5. Spec => []CacheInv
  BY <1>1, <1>2, <1>4, CacheInit, CacheStep, PTL DEF Spec
<1>6. CacheInv => SharedCaptureIsVerified
  BY DEF CacheInv
<1>7. QED
  BY <1>5, <1>6, PTL
-----------------------------------------------------------------------------
(***************************************************************************)
(* The ledger of an analysed row.  Its windows are consecutive in the list *)
(* of windows, ws below, and what is counted of them is what they show.    *)
(***************************************************************************)

\* Windows first .. first + size - 1 are those of pass p over row r, without a gap.
Tiles(ws, r, p, start, seconds, first, size) ==
  /\ \A w \in 1 .. Len(ws) :
       w \in first .. first + size - 1 <=> ws[w].row = r /\ ws[w].pass = p
  /\ \A w \in first .. first + size - 1 : ws[w].from = start + (w - first) * seconds

\* The windows from i to j are a run of empty ones.
EmptyRun(ws, first, size, i, j) ==
  /\ first <= i /\ i <= j /\ j <= first + size - 1
  /\ \A w \in i .. j : ws[w].packets = {}

EmptyOnes(ws, first, size) == {w \in first .. first + size - 1 : ws[w].packets = {}}

Counts(ws, t, first, size) ==
  /\ t.scheduled = size /\ t.longest \in Nat
  /\ t.empty = Cardinality(EmptyOnes(ws, first, size)) /\ t.nonempty = size - t.empty
  /\ \A i, j \in Int : EmptyRun(ws, first, size, i, j) => j - i + 1 <= t.longest
  /\ t.longest # 0 =>
       \E i, j \in Int : EmptyRun(ws, first, size, i, j) /\ j - i + 1 = t.longest

\* The last windows are empty, and the one before them is not.
Trailing(ws, t) ==
  /\ t.current_empty \in 0 .. t.scheduled
  /\ \A w \in Len(ws) - t.current_empty + 1 .. Len(ws) : ws[w].packets = {}
  /\ t.current_empty # t.scheduled => ws[Len(ws) - t.current_empty].packets # {}

\* What a list of windows and a longer one have in common.
LEMMA Appended ==
  ASSUME NEW S, NEW ws \in Seq(S), NEW m
  PROVE  /\ Len(ws) \in Nat /\ Len(Append(ws, m)) = Len(ws) + 1
         /\ \A w \in 1 .. Len(ws) : Append(ws, m)[w] = ws[w]
         /\ Append(ws, m)[Len(ws) + 1] = m
<1>1. ws \in Seq(S \cup {m}) /\ Len(ws) \in Nat
  OBVIOUS
<1>2. QED
  BY <1>1

\* A window of another pass or row leaves the ledger alone ...
LEMMA TilesStay ==
  ASSUME NEW S, NEW ws \in Seq(S), NEW m, NEW r, NEW p, NEW start, NEW seconds,
         NEW first \in Nat \ {0}, NEW size \in Nat, first + size - 1 <= Len(ws),
         Tiles(ws, r, p, start, seconds, first, size), ~(m.row = r /\ m.pass = p)
  PROVE  Tiles(Append(ws, m), r, p, start, seconds, first, size)
<1> DEFINE longer == Append(ws, m)
<1>1. /\ Len(ws) \in Nat /\ Len(longer) = Len(ws) + 1
      /\ \A w \in 1 .. Len(ws) : longer[w] = ws[w]
      /\ longer[Len(ws) + 1] = m
  BY Appended
<1> HIDE DEF longer
<1>2. \A w \in first .. first + size - 1 : w \in 1 .. Len(ws)
  BY <1>1
<1>3. ASSUME NEW w \in 1 .. Len(longer)
      PROVE  w \in first .. first + size - 1 <=> longer[w].row = r /\ longer[w].pass = p
  <2>1. CASE w \in 1 .. Len(ws)
    BY <1>1, <2>1 DEF Tiles
  <2>2. CASE w = Len(ws) + 1
    <3>1. w \notin first .. first + size - 1
      BY <1>1, <2>2
    <3>2. QED
      BY <1>1, <2>2, <3>1
  <2>3. QED
    BY <1>1, <2>1, <2>2
<1>4. \A w \in first .. first + size - 1 : longer[w].from = start + (w - first) * seconds
  BY <1>1, <1>2 DEF Tiles
<1>5. Tiles(longer, r, p, start, seconds, first, size)
  BY <1>3, <1>4 DEF Tiles
<1>6. QED
  BY <1>5 DEF longer

\* ... and what was counted of it.
LEMMA CountsStay ==
  ASSUME NEW S, NEW ws \in Seq(S), NEW m, NEW t,
         NEW first \in Nat \ {0}, NEW size \in Nat, first + size - 1 <= Len(ws),
         Counts(ws, t, first, size)
  PROVE  Counts(Append(ws, m), t, first, size)
<1> DEFINE longer == Append(ws, m)
<1>1. Len(ws) \in Nat /\ \A w \in 1 .. Len(ws) : longer[w] = ws[w]
  BY Appended
<1> HIDE DEF longer
<1>2. \A w \in first .. first + size - 1 : longer[w] = ws[w]
  BY <1>1
<1>3. EmptyOnes(longer, first, size) = EmptyOnes(ws, first, size)
  BY <1>2 DEF EmptyOnes
<1>4. ASSUME NEW i \in Int, NEW j \in Int
      PROVE  EmptyRun(longer, first, size, i, j) <=> EmptyRun(ws, first, size, i, j)
  <2>1. first <= i /\ i <= j /\ j <= first + size - 1 => \A w \in i .. j : longer[w] = ws[w]
    BY <1>2
  <2>2. QED
    BY <2>1 DEF EmptyRun
<1>5. Counts(longer, t, first, size)
  BY <1>3, <1>4 DEF Counts
<1>6. QED
  BY <1>5 DEF longer

\* The next window of the pass extends the ledger at its end ...
LEMMA TilesExtend ==
  ASSUME NEW S, NEW ws \in Seq(S), NEW m, NEW r, NEW p, NEW start \in Int, NEW seconds \in Int,
         NEW size \in 0 .. Len(ws),
         Tiles(ws, r, p, start, seconds, Len(ws) - size + 1, size),
         m.row = r, m.pass = p, m.from = start + size * seconds
  PROVE  Tiles(Append(ws, m), r, p, start, seconds, Len(ws) - size + 1, size + 1)
<1> DEFINE longer == Append(ws, m)
           first == Len(ws) - size + 1
<1>1. /\ Len(ws) \in Nat /\ Len(longer) = Len(ws) + 1
      /\ \A w \in 1 .. Len(ws) : longer[w] = ws[w]
      /\ longer[Len(ws) + 1] = m
  BY Appended
<1>2. /\ first \in Nat \ {0} /\ size \in Nat /\ first + size - 1 = Len(ws)
      /\ first + (size + 1) - 1 = Len(ws) + 1 /\ (Len(ws) + 1) - first = size
  BY <1>1
<1>3. Tiles(ws, r, p, start, seconds, first, size)
  OBVIOUS
<1> HIDE DEF longer, first
<1>4. ASSUME NEW w \in 1 .. Len(longer)
      PROVE  w \in first .. first + (size + 1) - 1 <=> longer[w].row = r /\ longer[w].pass = p
  <2>1. CASE w \in 1 .. Len(ws)
    <3>1. w \in first .. first + (size + 1) - 1 <=> w \in first .. first + size - 1
      BY <1>1, <1>2, <2>1
    <3>2. QED
      BY <1>1, <1>3, <2>1, <3>1 DEF Tiles
  <2>2. CASE w = Len(ws) + 1
    BY <1>1, <1>2, <2>2
  <2>3. QED
    BY <1>1, <2>1, <2>2
<1>5. ASSUME NEW w \in first .. first + (size + 1) - 1
      PROVE  longer[w].from = start + (w - first) * seconds
  <2>1. CASE w \in first .. first + size - 1
    BY <1>1, <1>2, <1>3, <2>1 DEF Tiles
  <2>2. CASE w = Len(ws) + 1
    BY <1>1, <1>2, <2>2
  <2>3. QED
    BY <1>1, <1>2, <2>1, <2>2
<1>6. Tiles(longer, r, p, start, seconds, first, size + 1)
  BY <1>4, <1>5 DEF Tiles
<1>7. QED
  BY <1>6 DEF longer, first

\* ... and the counters count it.
LEMMA CountsExtend ==
  ASSUME NEW S, NEW ws \in Seq(S), NEW m, NEW t, NEW u, NEW size \in 0 .. Len(ws),
         Counts(ws, t, Len(ws) - size + 1, size), Trailing(ws, t),
         u.scheduled = t.scheduled + 1,
         u.nonempty = t.nonempty + (IF m.packets = {} THEN 0 ELSE 1),
         u.empty = t.empty + (IF m.packets = {} THEN 1 ELSE 0),
         u.current_empty = (IF m.packets = {} THEN t.current_empty + 1 ELSE 0),
         u.longest = (IF t.longest >= u.current_empty THEN t.longest ELSE u.current_empty)
  PROVE  /\ Counts(Append(ws, m), u, Len(ws) - size + 1, size + 1)
         /\ Trailing(Append(ws, m), u)
<1> DEFINE longer == Append(ws, m)
           first == Len(ws) - size + 1
           quiet == t.current_empty
           end == Len(ws) + 1
<1>1. /\ Len(ws) \in Nat /\ Len(longer) = end
      /\ \A w \in 1 .. Len(ws) : longer[w] = ws[w]
      /\ longer[end] = m
  BY Appended
<1>2. /\ first \in Nat \ {0} /\ size \in Nat /\ first + size - 1 = Len(ws)
      /\ first + (size + 1) - 1 = end /\ end \in Nat /\ end = Len(ws) + 1
  BY <1>1
<1>3. Counts(ws, t, first, size)
  OBVIOUS
<1>4. /\ t.scheduled = size /\ quiet \in 0 .. size
      /\ \A w \in Len(ws) - quiet + 1 .. Len(ws) : ws[w].packets = {}
      /\ quiet # size => ws[Len(ws) - quiet].packets # {}
  BY DEF Counts, Trailing
<1>5. quiet \in Int /\ t.longest \in Nat
  BY <1>2, <1>4 DEF Counts
<1> HIDE DEF longer, first, quiet, end
<1>6. u.scheduled = size + 1 /\ u.current_empty = (IF m.packets = {} THEN quiet + 1 ELSE 0)
  BY <1>4 DEF quiet
<1>7. u.current_empty \in 0 .. size + 1
  BY <1>2, <1>4, <1>5, <1>6
<1>8. u.longest \in Nat /\ u.longest >= t.longest /\ u.longest >= u.current_empty
  <2>1. u.current_empty \in Nat
    BY <1>2, <1>7
  <2>2. QED
    BY <1>5, <2>1
<1>9. Trailing(longer, u)
  <2>1. ASSUME NEW w \in Len(longer) - u.current_empty + 1 .. Len(longer)
        PROVE  longer[w].packets = {}
    <3>1. m.packets = {} /\ u.current_empty = quiet + 1
      BY <1>1, <1>2, <1>6
    <3>2. w = end \/ w \in Len(ws) - quiet + 1 .. Len(ws)
      BY <1>1, <1>2, <1>5, <3>1
    <3>3. w \in Len(ws) - quiet + 1 .. Len(ws) => w \in 1 .. Len(ws)
      BY <1>1, <1>2, <1>4, <1>5
    <3>4. QED
      BY <1>1, <1>4, <3>1, <3>2, <3>3
  <2>2. ASSUME u.current_empty # u.scheduled
        PROVE  longer[Len(longer) - u.current_empty].packets # {}
    <3>1. CASE m.packets = {}
      <4>1. quiet # size /\ Len(longer) - u.current_empty = Len(ws) - quiet
        <5>1. u.current_empty = quiet + 1 /\ u.scheduled = size + 1
          BY <1>6, <3>1
        <5>2. quiet # size
          BY <2>2, <5>1
        <5>3. (Len(ws) + 1) - (quiet + 1) = Len(ws) - quiet
          BY <1>1, <1>5
        <5>4. QED
          BY <1>1, <1>2, <5>1, <5>2, <5>3
      <4>2. Len(ws) - quiet \in 1 .. Len(ws)
        BY <1>1, <1>2, <1>4, <1>5, <4>1
      <4>3. QED
        BY <1>1, <1>4, <4>1, <4>2
    <3>2. CASE m.packets # {}
      <4>1. u.current_empty = 0 /\ end - 0 = end
        BY <1>2, <1>6, <3>2
      <4>2. QED
        BY <1>1, <3>2, <4>1
    <3>3. QED
      BY <3>1, <3>2
  <2>3. QED
    BY <1>6, <1>7, <2>1, <2>2 DEF Trailing
<1>10. /\ u.empty = Cardinality(EmptyOnes(longer, first, size + 1))
       /\ u.nonempty = (size + 1) - u.empty
  <2>1. EmptyOnes(longer, first, size + 1) =
          IF m.packets = {} THEN EmptyOnes(ws, first, size) \cup {end} ELSE EmptyOnes(ws, first, size)
    <3>1. \A w : w \in first .. first + (size + 1) - 1 <=> w \in first .. first + size - 1 \/ w = end
      <4>1. first <= end /\ first \in Int /\ end \in Int /\ Len(ws) = end - 1
        BY <1>1, <1>2
      <4>2. \A w : w \in first .. end <=> w \in first .. end - 1 \/ w = end
        BY ONLY <4>1
      <4>3. QED
        BY <1>2, <4>1, <4>2
    <3>2. \A w \in first .. first + size - 1 : longer[w] = ws[w]
      BY <1>1, <1>2
    <3>3. QED
      BY <1>1, <3>1, <3>2 DEF EmptyOnes
  <2>2. IsFiniteSet(EmptyOnes(ws, first, size))
    <3>1. IsFiniteSet(first .. first + size - 1)
      BY <1>1, <1>2, FS_Interval
    <3>2. QED
      BY <3>1, FS_Subset DEF EmptyOnes
  <2>3. end \notin EmptyOnes(ws, first, size)
    BY <1>1, <1>2 DEF EmptyOnes
  <2>4. Cardinality(EmptyOnes(ws, first, size)) \in Nat
    BY <2>2, FS_CardinalityType
  <2>5. t.empty = Cardinality(EmptyOnes(ws, first, size)) /\ t.nonempty = size - t.empty
    BY <1>3 DEF Counts
  <2>6. Cardinality(EmptyOnes(longer, first, size + 1)) =
          IF m.packets = {} THEN t.empty + 1 ELSE t.empty
    BY <2>1, <2>2, <2>3, <2>5, FS_AddElement
  <2>7. QED
    BY <1>2, <2>4, <2>5, <2>6
<1>11. ASSUME NEW i \in Int, NEW j \in Int, EmptyRun(longer, first, size + 1, i, j)
       PROVE  j - i + 1 <= u.longest
  <2>1. /\ first <= i /\ i <= j /\ j <= end
        /\ \A w \in i .. j : longer[w].packets = {}
    BY <1>2, <1>11 DEF EmptyRun
  <2>2. CASE j # end
    <3>1. j <= first + size - 1 /\ \A w \in i .. j : w \in 1 .. Len(ws)
      BY <1>1, <1>2, <2>1, <2>2
    <3>2. EmptyRun(ws, first, size, i, j)
      BY <1>1, <2>1, <3>1 DEF EmptyRun
    <3>3. j - i + 1 <= t.longest
      BY <1>3, <3>2 DEF Counts
    <3>4. QED
      BY <1>5, <1>8, <3>3
  <2>3. CASE j = end
    <3>1. m.packets = {}
      <4>1. end \in i .. j
        BY <1>2, <2>1, <2>3
      <4>2. QED
        BY <1>1, <2>1, <4>1
    <3>2. i > Len(ws) - quiet
      <4>1. CASE quiet = size
        BY <1>1, <1>2, <2>1, <4>1
      <4>2. CASE quiet # size
        <5>1. Len(ws) - quiet \in 1 .. Len(ws) /\ Len(ws) - quiet <= end
          BY <1>1, <1>2, <1>4, <1>5, <4>2
        <5>2. Len(ws) - quiet \notin i .. j
          BY <1>1, <1>4, <2>1, <4>2, <5>1
        <5>3. QED
          BY <1>1, <1>2, <2>3, <5>1, <5>2
      <4>3. QED
        BY <4>1, <4>2
    <3>3. j - i + 1 <= quiet + 1
      BY <1>1, <1>2, <1>5, <2>3, <3>2
    <3>4. QED
      BY <1>5, <1>6, <1>8, <3>1, <3>3
  <2>4. QED
    BY <2>2, <2>3
<1>12. ASSUME u.longest # 0
       PROVE  \E i, j \in Int : EmptyRun(longer, first, size + 1, i, j) /\ j - i + 1 = u.longest
  <2>1. CASE u.longest = t.longest
    <3>1. PICK i \in Int, j \in Int : EmptyRun(ws, first, size, i, j) /\ j - i + 1 = t.longest
      BY <1>3, <1>12, <2>1 DEF Counts
    <3>2. first <= i /\ i <= j /\ j <= first + size - 1 /\ \A w \in i .. j : ws[w].packets = {}
      BY <3>1 DEF EmptyRun
    <3>3. j <= first + (size + 1) - 1 /\ \A w \in i .. j : w \in 1 .. Len(ws)
      BY <1>1, <1>2, <3>2
    <3>4. EmptyRun(longer, first, size + 1, i, j)
      BY <1>1, <3>2, <3>3 DEF EmptyRun
    <3>5. QED
      BY <2>1, <3>1, <3>4
  <2>2. CASE u.longest # t.longest
    <3>1. u.longest = u.current_empty
      BY <2>2
    <3>2. u.longest = quiet + 1 /\ m.packets = {}
      BY <1>6, <1>12, <3>1
    <3>3. Trailing(longer, u) /\ Len(longer) = end
      BY <1>1, <1>9
    <3>4. \A w \in end - quiet .. end : longer[w].packets = {}
      <4>1. end - u.current_empty + 1 = end - quiet
        BY <1>2, <1>5, <3>1, <3>2
      <4>2. QED
        BY <3>3, <4>1 DEF Trailing
    <3>5. first <= end - quiet /\ end - quiet <= end /\ end - quiet \in Int
      <4>1. first + size = end /\ 0 <= quiet /\ quiet <= size /\ quiet \in Int
        BY <1>1, <1>2, <1>4, <1>5
      <4>2. first \in Int /\ size \in Int /\ end \in Int
        BY <1>2
      <4>3. QED
        BY ONLY <4>1, <4>2
    <3>6. EmptyRun(longer, first, size + 1, end - quiet, end)
      BY <1>2, <3>4, <3>5 DEF EmptyRun
    <3>7. end - (end - quiet) + 1 = quiet + 1
      BY <1>2, <1>5
    <3>8. QED
      BY <1>2, <3>2, <3>5, <3>6, <3>7
  <2>3. QED
    BY <2>1, <2>2
<1>13. Counts(longer, u, first, size + 1)
  BY <1>6, <1>8, <1>10, <1>11, <1>12 DEF Counts
<1>14. QED
  BY <1>9, <1>13 DEF longer, first

\* The row and the pass being cut.
Cutting ==
  step = "windows" =>
    LET size == tally.scheduled
        first == Len(windows) - size + 1
    IN  /\ size \in 0 .. Len(windows)
        /\ Tiles(windows, current, pass, Row.start, Seconds, first, size)
        /\ Counts(windows, tally, first, size)
        /\ Trailing(windows, tally)
        /\ at = Row.start + size * Seconds
        /\ at <= Row.end

Finished(entry) ==
  LET row == rows[entry.row]
      seconds == Durations[kind][entry.pass]
  IN  /\ entry.row \in Indices /\ entry.pass \in DOMAIN Durations[kind]
      /\ \E first \in Nat \ {0}, size \in Nat :
           /\ first + size - 1 <= Len(windows)
           /\ Tiles(windows, entry.row, entry.pass, row.start, seconds, first, size)
           /\ Counts(windows, entry.tally, first, size)
           /\ 0 <= row.end - row.start - size * seconds
           /\ row.end - row.start - size * seconds < seconds

\* No window is made any more for a finished pass.
Behind(entry) ==
  /\ entry.row <= current
  /\ step \in {"load", "read"} => entry.row < current
  /\ step = "windows" => entry.row < current \/ entry.pass < pass

TallyInv ==
  /\ \E S : tallies \in Seq(S)
  /\ kind # "analysis" => tallies = <<>>
  /\ step # "windows" => tally = NewTally
  /\ kind = "analysis" => Cutting
  /\ \A t \in DOMAIN tallies : Finished(tallies[t]) /\ Behind(tallies[t])

\* A pass that has no windows yet.
LEMMA NothingCut ==
  ASSUME NEW S, NEW ws \in Seq(S), NEW r, NEW p, NEW start, NEW seconds,
         \A w \in 1 .. Len(ws) : ~(ws[w].row = r /\ ws[w].pass = p)
  PROVE  /\ Tiles(ws, r, p, start, seconds, Len(ws) + 1, 0)
         /\ Counts(ws, NewTally, Len(ws) + 1, 0)
         /\ Trailing(ws, NewTally)
<1>1. Len(ws) \in Nat
  OBVIOUS
<1>2. Len(ws) + 1 .. (Len(ws) + 1) + 0 - 1 = {} /\ Len(ws) - 0 + 1 .. Len(ws) = {}
  BY <1>1
<1>3. Tiles(ws, r, p, start, seconds, Len(ws) + 1, 0)
  BY <1>2 DEF Tiles
<1>4. EmptyOnes(ws, Len(ws) + 1, 0) = {} /\ Cardinality({}) = 0
  BY <1>2, FS_EmptySet DEF EmptyOnes
<1>5. ASSUME NEW i \in Int, NEW j \in Int PROVE ~EmptyRun(ws, Len(ws) + 1, 0, i, j)
  BY <1>1 DEF EmptyRun
<1>6. /\ NewTally.scheduled = 0 /\ NewTally.longest = 0 /\ NewTally.empty = 0
      /\ NewTally.nonempty = 0 /\ NewTally.current_empty = 0
  BY DEF NewTally
<1>7. Counts(ws, NewTally, Len(ws) + 1, 0)
  <2> DEFINE first == Len(ws) + 1
  <2>1. Cardinality(EmptyOnes(ws, first, 0)) = 0
    BY <1>4
  <2>2. \A i, j \in Int : ~EmptyRun(ws, first, 0, i, j)
    BY <1>5
  <2> HIDE DEF first
  <2>3. Counts(ws, NewTally, first, 0)
    BY <1>6, <2>1, <2>2 DEF Counts
  <2>4. QED
    BY <2>3 DEF first
<1>8. Trailing(ws, NewTally)
  BY <1>2, <1>6 DEF Trailing
<1>9. QED
  BY <1>3, <1>7, <1>8

\* A finished pass, its row and its duration.
LEMMA FinishedType ==
  ASSUME IInv, DInv, kind # "validate", NEW entry, Finished(entry)
  PROVE  /\ entry.row \in Int /\ entry.pass \in Int
         /\ Durations[kind][entry.pass] \in Nat \ {0}
<1>1. Durations[kind] \in Seq(Nat \ {0})
  BY DatasetAssumption DEF DInv, DataTypeOK
<1>2. Len(rows) \in Nat /\ entry.row \in Indices /\ entry.pass \in DOMAIN Durations[kind]
  BY DEF IInv, ManifestTypeOK, Finished
<1>3. QED
  BY <1>1, <1>2 DEF Indices

\* A step that neither cuts a window nor ends a pass.
LEMMA TallyFrame ==
  ASSUME TallyInv, UNCHANGED <<rows, kind, windows, tallies, tally>>,
         step' = "windows" <=> step = "windows",
         step = "windows" => UNCHANGED <<current, pass, at>>,
         \A t \in DOMAIN tallies : Behind(tallies[t])'
  PROVE  TallyInv'
<1>1. Indices' = Indices
  BY DEF Indices
<1>2. kind = "analysis" => Cutting'
  <2>1. step = "windows" => Row' = Row /\ Seconds' = Seconds
    BY DEF Row, Seconds
  <2>2. QED
    BY <2>1 DEF TallyInv, Cutting
<1>3. ASSUME NEW t \in DOMAIN tallies PROVE Finished(tallies[t])'
  BY <1>1 DEF TallyInv, Finished
<1>4. QED
  BY <1>2, <1>3 DEF TallyInv

\* A step that neither reads nor cuts nor ends a pass.
LEMMA TallySteps ==
  ASSUME IInv, DInv, TallyInv,
         ValidateManifest \/ CaptureReplaced \/ NextRow \/ Finish \/ Rehash \/ Over \/ UNCHANGED vars
  PROVE  TallyInv'
<1>1. /\ UNCHANGED <<kind, windows, tallies, tally, pass, at>>
      /\ step' = "windows" <=> step = "windows"
      /\ step = "windows" => current' = current
      /\ \/ current' = current /\ (step' \in {"load", "read"} => step \in {"load", "read"})
         \/ current' = current + 1 /\ step' \in {"rows", "load"}
  BY DEF ValidateManifest, CaptureReplaced, NextRow, Finish, Rehash, Over, Fail, Step, vars, dataVars
<1>2. rows' = rows
  BY RowsFixed DEF ValidateManifest, CaptureReplaced, NextRow, Finish, Rehash, Over, Fail, Step, vars,
                   manifestVars, ManifestNext
<1>3. ASSUME NEW t \in DOMAIN tallies PROVE Behind(tallies[t])'
  <2>1. Behind(tallies[t]) /\ Finished(tallies[t]) /\ kind = "analysis"
    BY DEF TallyInv
  <2>2. tallies[t].row \in Int /\ current \in Int
    BY <2>1, FinishedType DEF DInv, DataTypeOK, IInv, ManifestTypeOK
  <2>3. CASE current' = current /\ (step' \in {"load", "read"} => step \in {"load", "read"})
    BY <1>1, <2>1, <2>3 DEF Behind
  <2>4. CASE current' = current + 1 /\ step' \in {"rows", "load"}
    <3>1. tallies[t].row <= current
      BY <2>1 DEF Behind
    <3>2. tallies[t].row <= current + 1 /\ tallies[t].row < current + 1
      BY ONLY <2>2, <3>1
    <3>3. QED
      BY <1>1, <2>4, <3>2 DEF Behind
  <2>5. QED
    BY <1>1, <2>3, <2>4
<1>4. QED
  BY <1>1, <1>2, <1>3, TallyFrame

\* A row that is about to be cut has no windows.
LEMMA TallyRead ==
  ASSUME IInv, DInv, TallyInv, ReadCapture PROVE TallyInv'
<1>1. /\ step = "read" /\ UNCHANGED <<rows, kind, windows, tallies, tally, current>>
      /\ step' \in {"failed", "rows", "windows"} /\ pass' = 1 /\ at' = Row.start
  BY DEF ReadCapture, manifestVars
<1>2. ASSUME NEW t \in DOMAIN tallies PROVE Behind(tallies[t])' /\ Finished(tallies[t])'
  <2>1. Behind(tallies[t]) /\ Finished(tallies[t])
    BY DEF TallyInv
  <2>2. Finished(tallies[t])'
    BY <1>1, <2>1 DEF Finished, Indices
  <2>3. QED
    BY <1>1, <2>1, <2>2 DEF Behind
<1>3. kind = "analysis" => Cutting'
  <2> SUFFICES ASSUME step' = "windows" PROVE Cutting'
    BY DEF Cutting
  <2>1. windows \in Seq(WindowRecord) /\ current \in Indices /\ pc = "valid"
    BY <1>1 DEF DInv, DataTypeOK
  <2>2. ASSUME NEW w \in 1 .. Len(windows) PROVE windows[w].row # current
    <3>1. windows[w].row < current /\ windows[w].row \in Indices
      BY <1>1 DEF DInv, Ahead, Made, InsideItsRow
    <3>2. windows[w].row \in Int
      BY <3>1 DEF Indices
    <3>3. QED
      BY <3>1, <3>2
  <2>3. tally = NewTally /\ NewTally.scheduled = 0
    BY <1>1 DEF TallyInv, NewTally
  <2>4. Row' = Row /\ Row.start \in Int /\ Row.end \in Int /\ Row.start <= Row.end
    <3>1. Row.start \in Int /\ Row.end \in Int /\ Row.start < Row.end
      BY <2>1, RowType DEF Row, IInv, ManifestTypeOK, Accepted
    <3>2. QED
      BY <1>1, <3>1 DEF Row
  <2>5. Seconds' \in Int
    <3>1. kind # "validate"
      BY <1>1 DEF ReadCapture
    <3>2. Durations[kind] \in Seq(Nat \ {0}) /\ Durations[kind] # <<>>
      BY <3>1, DatasetAssumption DEF DInv, DataTypeOK
    <3>3. Durations[kind][1] \in Nat
      BY <3>2
    <3>4. QED
      BY <1>1, <3>3 DEF Seconds
  <2>6. /\ Len(windows) \in Nat /\ Len(windows) - 0 + 1 = Len(windows) + 1
        /\ at' = Row.start + 0 * Seconds' /\ at' <= Row.end
    BY <1>1, <2>1, <2>4, <2>5
  <2>7. /\ Tiles(windows, current, pass', Row.start, Seconds', Len(windows) + 1, 0)
        /\ Counts(windows, tally, Len(windows) + 1, 0) /\ Trailing(windows, tally)
    BY <2>1, <2>2, <2>3, NothingCut
  <2>8. QED
    BY <1>1, <2>3, <2>4, <2>6, <2>7 DEF Cutting
<1>4. step' # "windows" => tally' = NewTally
  BY <1>1 DEF TallyInv
<1>5. QED
  BY <1>1, <1>2, <1>3, <1>4 DEF TallyInv

\* The pass that ends is finished, and the next one has no windows.
LEMMA TallyEnd ==
  ASSUME IInv, DInv, TallyInv, EndOfInterval PROVE TallyInv'
<1> DEFINE entry == [row |-> current, pass |-> pass, tally |-> tally, profile |-> Profile]
<1>1. /\ step = "windows" /\ ~(at + Seconds <= Row.end)
      /\ UNCHANGED <<rows, kind, windows, current>>
      /\ tally' = NewTally
      /\ tallies' = IF kind = "analysis" THEN Append(tallies, entry) ELSE tallies
      /\ \/ pass' = pass + 1 /\ at' = Row.start /\ step' = "windows" /\ pass < Len(Durations[kind])
         \/ step' = "rows"
  BY DEF EndOfInterval, Fits, manifestVars
<1>2. entry.row = current /\ entry.pass = pass /\ entry.tally = tally
  OBVIOUS
<1> HIDE DEF entry
<1>3. /\ windows \in Seq(WindowRecord) /\ current \in Indices /\ pc = "valid" /\ kind # "validate"
      /\ pass \in DOMAIN Durations[kind] /\ Len(rows) \in Nat
  BY <1>1 DEF DInv, DataTypeOK, Ahead, IInv, ManifestTypeOK
<1>4. Durations[kind] \in Seq(Nat \ {0})
  BY <1>3, DatasetAssumption DEF DInv, DataTypeOK
<1>5. /\ pass \in Nat /\ Seconds \in Nat \ {0} /\ current \in Int /\ Len(windows) \in Nat
      /\ Seconds = Durations[kind][pass]
  BY <1>3, <1>4 DEF Seconds, Indices
<1>6. Row.start \in Int /\ Row.end \in Int /\ Row.start <= Row.end /\ Row' = Row /\ Row = rows[current]
  <2>1. Row.start \in Int /\ Row.end \in Int /\ Row.start < Row.end
    BY <1>3, RowType DEF Row, IInv, ManifestTypeOK, Accepted
  <2>2. QED
    BY <1>1, <2>1 DEF Row
<1>7. CASE kind # "analysis"
  BY <1>1, <1>7 DEF TallyInv
<1>8. CASE kind = "analysis"
  <2> DEFINE size == tally.scheduled
             first == Len(windows) - size + 1
  <2>1. /\ size \in 0 .. Len(windows)
        /\ Tiles(windows, current, pass, Row.start, Seconds, first, size)
        /\ Counts(windows, tally, first, size)
        /\ at = Row.start + size * Seconds /\ at <= Row.end
    BY <1>1, <1>8 DEF TallyInv, Cutting
  <2>2. first \in Nat \ {0} /\ size \in Nat /\ first + size - 1 <= Len(windows)
    BY <1>5, <2>1
  <2>3. 0 <= Row.end - Row.start - size * Seconds /\ Row.end - Row.start - size * Seconds < Seconds
    <3>1. size * Seconds \in Int
      BY <1>5, <2>2
    <3>2. \A x, a, b, s \in Int : a + x <= b /\ ~(a + x + s <= b) => 0 <= b - a - x /\ b - a - x < s
      OBVIOUS
    <3>3. Row.start + size * Seconds <= Row.end /\ ~(Row.start + size * Seconds + Seconds <= Row.end)
      BY <1>1, <2>1
    <3>4. QED
      BY <1>5, <1>6, <3>1, <3>2, <3>3
  <2> HIDE DEF size, first
  <2>4. Finished(entry)
    BY <1>2, <1>3, <1>5, <1>6, <2>1, <2>2, <2>3 DEF Finished
  <2>5. ASSUME NEW e, Finished(e) PROVE Finished(e)'
    BY <1>1, <2>5 DEF Finished, Indices
  <2>6. PICK S : tallies \in Seq(S)
    BY DEF TallyInv
  <2>7. tallies \in Seq(S \cup {entry})
    BY <2>6
  <2>8. /\ tallies' \in Seq(S \cup {entry})
        /\ \A t \in DOMAIN tallies' : tallies'[t] = entry \/ (t \in DOMAIN tallies /\ tallies'[t] = tallies[t])
    BY <1>1, <1>8, <2>7
  <2>9. ASSUME NEW t \in DOMAIN tallies PROVE Behind(tallies[t]) /\ Finished(tallies[t])
    BY DEF TallyInv
  <2>10. ASSUME NEW t \in DOMAIN tallies' PROVE Behind(tallies[t])'
    <3>1. CASE tallies'[t] = entry
      <4>1. current <= current /\ pass < pass + 1
        BY <1>5
      <4>2. QED
        BY <1>1, <1>2, <3>1, <4>1 DEF Behind
    <3>2. CASE t \in DOMAIN tallies /\ tallies'[t] = tallies[t]
      <4>1. tallies[t].row \in Int /\ tallies[t].pass \in Int
        BY <1>3, <2>9, <3>2, FinishedType
      <4>2. Behind(tallies[t])
        BY <2>9, <3>2
      <4>3. tallies[t].pass < pass => tallies[t].pass < pass + 1
        BY <1>5, <4>1
      <4>4. QED
        BY <1>1, <3>2, <4>2, <4>3 DEF Behind
    <3>3. QED
      BY <2>8, <3>1, <3>2
  <2>11. ASSUME NEW t \in DOMAIN tallies' PROVE Finished(tallies[t])'
    <3>1. CASE tallies'[t] = entry
      <4>1. Finished(tallies'[t])
        BY <2>4, <3>1
      <4>2. QED
        BY <1>1, <4>1 DEF Finished, Indices
    <3>2. CASE t \in DOMAIN tallies /\ tallies'[t] = tallies[t]
      <4>1. Finished(tallies'[t])
        BY <2>9, <3>2
      <4>2. QED
        BY <1>1, <4>1 DEF Finished, Indices
    <3>3. QED
      BY <2>8, <3>1, <3>2
  <2>12. Cutting'
    <3>1. CASE step' = "rows"
      BY <3>1 DEF Cutting
    <3>2. CASE pass' = pass + 1 /\ at' = Row.start /\ step' = "windows" /\ pass < Len(Durations[kind])
      <4>1. ASSUME NEW w \in 1 .. Len(windows) PROVE ~(windows[w].row = current /\ windows[w].pass = pass')
        <5>1. windows[w] \in WindowRecord
          BY <1>3
        <5>2. windows[w].pass \in Nat
          BY <5>1 DEF WindowRecord
        <5>3. windows[w].row = current => windows[w].pass <= pass
          BY <1>1 DEF DInv, Ahead, Made
        <5>4. QED
          BY <1>5, <3>2, <5>2, <5>3
      <4>2. Seconds' \in Int
        <5>1. pass + 1 \in DOMAIN Durations[kind]
          BY <1>4, <1>5, <3>2
        <5>2. Durations[kind][pass + 1] \in Nat
          BY <1>4, <5>1
        <5>3. QED
          BY <1>1, <3>2, <5>2 DEF Seconds
      <4>3. /\ Len(windows) - 0 + 1 = Len(windows) + 1 /\ 0 \in 0 .. Len(windows)
            /\ at' = Row.start + 0 * Seconds' /\ at' <= Row.end
        BY <1>5, <1>6, <3>2, <4>2
      <4>4. /\ Tiles(windows, current, pass', Row.start, Seconds', Len(windows) + 1, 0)
            /\ Counts(windows, NewTally, Len(windows) + 1, 0) /\ Trailing(windows, NewTally)
        BY <1>3, <4>1, NothingCut
      <4>5. NewTally.scheduled = 0
        BY DEF NewTally
      <4>6. QED
        BY <1>1, <1>6, <4>3, <4>4, <4>5 DEF Cutting
    <3>3. QED
      BY <1>1, <3>1, <3>2
  <2>13. QED
    BY <1>1, <1>8, <2>8, <2>10, <2>11, <2>12 DEF TallyInv
<1>9. QED
  BY <1>7, <1>8

\* The greater of two numbers.
LEMMA GreaterOfTwo ==
  ASSUME NEW a \in Int, NEW b \in Int
  PROVE  Max({a, b}) = IF a >= b THEN a ELSE b
<1>1. PICK greatest \in {a, b} : \A y \in {a, b} : greatest >= y
  OBVIOUS
<1>2. Max({a, b}) \in {a, b} /\ \A y \in {a, b} : Max({a, b}) >= y
  BY <1>1 DEF Max
<1>3. QED
  BY <1>2

\* A window is counted, and it belongs to no finished pass.
LEMMA TallyWindow ==
  ASSUME IInv, DInv, TallyInv, Window PROVE TallyInv'
<1> DEFINE packets == PacketsIn(at, at + Seconds)
           made == [ row |-> current, pass |-> pass, from |-> at, to |-> at + Seconds,
                     packets |-> packets, version |-> loaded[Path] ]
<1>1. /\ step = "windows" /\ at + Seconds <= Row.end
      /\ UNCHANGED <<rows, kind, step, current, pass, tallies>>
      /\ kind = "analysis" => windows' = Append(windows, made)
      /\ at' = at + Seconds /\ tally' = Counted(packets)
  BY DEF Window, Fits, Kept, manifestVars
<1>2. made.row = current /\ made.pass = pass /\ made.from = at /\ made.packets = packets
  OBVIOUS
<1> HIDE DEF packets, made
<1>3. CASE kind # "analysis"
  BY <1>1, <1>3 DEF TallyInv
<1>4. CASE kind = "analysis"
  <2>1. /\ windows \in Seq(WindowRecord) /\ current \in Indices /\ pass \in DOMAIN Durations[kind]
        /\ Len(rows) \in Nat /\ pc = "valid"
    BY <1>1 DEF DInv, DataTypeOK, Ahead, IInv, ManifestTypeOK
  <2>2. Durations[kind] \in Seq(Nat \ {0})
    BY <1>4, DatasetAssumption DEF DInv, DataTypeOK
  <2>3. pass \in Nat /\ Seconds \in Nat \ {0} /\ current \in Int /\ Len(windows) \in Nat
    BY <2>1, <2>2 DEF Seconds, Indices
  <2>4. Row.start \in Int /\ Row.end \in Int /\ Row' = Row /\ Seconds' = Seconds
    BY <1>1, <2>1, RowType DEF Row, Seconds, IInv, ManifestTypeOK
  <2> DEFINE size == tally.scheduled
             first == Len(windows) - size + 1
  <2>5. /\ size \in 0 .. Len(windows)
        /\ Tiles(windows, current, pass, Row.start, Seconds, first, size)
        /\ Counts(windows, tally, first, size) /\ Trailing(windows, tally)
        /\ at = Row.start + size * Seconds /\ at <= Row.end
    BY <1>1, <1>4 DEF TallyInv, Cutting
  <2>6. /\ tally'.scheduled = tally.scheduled + 1
        /\ tally'.nonempty = tally.nonempty + (IF made.packets = {} THEN 0 ELSE 1)
        /\ tally'.empty = tally.empty + (IF made.packets = {} THEN 1 ELSE 0)
        /\ tally'.current_empty = (IF made.packets = {} THEN tally.current_empty + 1 ELSE 0)
        /\ tally'.longest = (IF tally.longest >= tally'.current_empty THEN tally.longest
                                                                      ELSE tally'.current_empty)
    <3> DEFINE quiet == IF packets = {} THEN tally.current_empty + 1 ELSE 0
    <3>1. /\ Counted(packets).scheduled = tally.scheduled + 1
          /\ Counted(packets).nonempty = tally.nonempty + (IF packets = {} THEN 0 ELSE 1)
          /\ Counted(packets).empty = tally.empty + (IF packets = {} THEN 1 ELSE 0)
          /\ Counted(packets).current_empty = quiet
          /\ Counted(packets).longest = Max({tally.longest, quiet})
      BY DEF Counted
    <3>2. quiet \in Int /\ tally.longest \in Int
      BY <2>3, <2>5 DEF Counts, Trailing
    <3> HIDE DEF quiet
    <3>3. Max({tally.longest, quiet}) = IF tally.longest >= quiet THEN tally.longest ELSE quiet
      BY <3>2, GreaterOfTwo
    <3>4. QED
      BY <1>1, <1>2, <3>1, <3>3 DEF quiet
  <2>7. Tiles(windows', current, pass, Row.start, Seconds, first, size + 1)
    <3>1. made.from = Row.start + size * Seconds /\ Seconds \in Int
      BY <1>2, <2>3, <2>5
    <3>2. windows' = Append(windows, made)
      BY <1>1, <1>4
    <3>3. Tiles(windows, current, pass, Row.start, Seconds, Len(windows) - size + 1, size)
      BY <2>5
    <3>4. size \in 0 .. Len(windows)
      BY <2>5
    <3> HIDE DEF size
    <3>5. Tiles(Append(windows, made), current, pass, Row.start, Seconds,
                Len(windows) - size + 1, size + 1)
      BY <1>2, <2>1, <2>4, <3>1, <3>3, <3>4, TilesExtend
    <3>6. QED
      BY <3>2, <3>5
  <2>8. Counts(windows', tally', first, size + 1) /\ Trailing(windows', tally')
    BY <1>1, <1>4, <2>1, <2>5, <2>6, CountsExtend
  <2>9. Len(windows') = Len(windows) + 1
    BY <1>1, <1>4, <2>1, Appended
  <2>10. Cutting'
    <3>1. /\ tally'.scheduled = size + 1 /\ Len(windows') - (size + 1) + 1 = first
          /\ size + 1 \in 0 .. Len(windows')
      BY <2>3, <2>5, <2>6, <2>9
    <3>2. at' = Row.start + (size + 1) * Seconds /\ at' <= Row.end
      <4>1. size \in Int /\ at = Row.start + size * Seconds
        BY <2>5
      <4> HIDE DEF size
      <4>2. (size + 1) * Seconds = size * Seconds + Seconds /\ size * Seconds \in Int
        BY <2>3, <4>1
      <4>3. QED
        BY <1>1, <2>3, <2>4, <4>1, <4>2
    <3> HIDE DEF size, first
    <3>3. QED
      BY <1>1, <2>4, <2>7, <2>8, <3>1, <3>2 DEF Cutting
  <2>11. ASSUME NEW t \in DOMAIN tallies PROVE Behind(tallies[t])' /\ Finished(tallies[t])'
    <3> DEFINE entry == tallies[t]
               start == rows[entry.row].start
               seconds == Durations[kind][entry.pass]
    <3>1. Behind(entry) /\ Finished(entry) /\ entry' = entry
      BY <1>1 DEF TallyInv
    <3>2. entry.row \in Int /\ entry.pass \in Int
      BY <1>4, <3>1, FinishedType
    <3>3. ~(made.row = entry.row /\ made.pass = entry.pass)
      BY <1>1, <1>2, <2>3, <3>1, <3>2 DEF Behind
    <3>4. PICK f \in Nat \ {0}, n \in Nat :
            /\ f + n - 1 <= Len(windows)
            /\ Tiles(windows, entry.row, entry.pass, start, seconds, f, n)
            /\ Counts(windows, entry.tally, f, n)
            /\ 0 <= rows[entry.row].end - start - n * seconds
            /\ rows[entry.row].end - start - n * seconds < seconds
      BY <3>1 DEF Finished
    <3> HIDE DEF entry, start, seconds
    <3>5. Tiles(windows', entry.row, entry.pass, start, seconds, f, n)
      BY <1>1, <1>4, <2>1, <3>3, <3>4, TilesStay
    <3>6. Counts(windows', entry.tally, f, n)
      BY <1>1, <1>4, <2>1, <3>4, CountsStay
    <3>7. f + n - 1 <= Len(windows')
      BY <2>3, <2>9, <3>4
    <3>8. entry.row \in Indices /\ entry.pass \in DOMAIN Durations[kind]
      BY <3>1 DEF Finished
    <3>9. Finished(entry)'
      BY <1>1, <3>1, <3>4, <3>5, <3>6, <3>7, <3>8 DEF Finished, Indices, start, seconds
    <3>10. Behind(entry)'
      BY <1>1, <3>1 DEF Behind
    <3>11. QED
      BY <3>9, <3>10 DEF entry
  <2>12. QED
    BY <1>1, <1>4, <2>10, <2>11 DEF TallyInv
<1>5. QED
  BY <1>3, <1>4

\* Every step preserves what is known of the tallies.
LEMMA TallyStep == IInv /\ DInv /\ TallyInv /\ [DataNext]_vars => TallyInv'
  BY TallySteps, TallyRead, TallyEnd, TallyWindow DEF DataNext

\* No pass has started in the beginning.
LEMMA TallyInit == DataInit => TallyInv
<1> SUFFICES ASSUME DataInit PROVE TallyInv
  OBVIOUS
<1>1. tallies = <<>> /\ tally = NewTally /\ step = "manifest"
  BY DEF DataInit
<1>2. tallies \in Seq({}) /\ DOMAIN tallies = {}
  BY <1>1
<1>3. QED
  BY <1>1, <1>2 DEF TallyInv, Cutting

\* The three invariants hold in every behaviour.
LEMMA TallyInvariance == Spec => [](IInv /\ DInv /\ TallyInv)
<1>1. Spec => []IInv
  BY DataRefinesManifest, ManifestInvariance, PTL
<1>2. Spec => []DInv
  BY <1>1, DataInitInv, DataNextInv, PTL DEF Spec
<1>3. QED
  BY <1>1, <1>2, TallyInit, TallyStep, PTL DEF Spec

\* The windows of a finished pass, and how many there are.
LEMMA LedgerIsInterval ==
  ASSUME IInv, DInv, NEW t, NEW first \in Nat \ {0}, NEW size \in Nat, NEW start, NEW seconds,
         first + size - 1 <= Len(windows),
         Tiles(windows, tallies[t].row, tallies[t].pass, start, seconds, first, size)
  PROVE  /\ Ledger(t) = first .. first + size - 1 /\ Cardinality(Ledger(t)) = size
         /\ \A w \in Ledger(t) : Cardinality({v \in Ledger(t) : v < w}) = w - first
<1>1. windows \in Seq(WindowRecord) /\ Len(windows) \in Nat
  BY DEF DInv, DataTypeOK
<1>2. first .. first + size - 1 \subseteq 1 .. Len(windows)
  BY <1>1
<1>3. Ledger(t) = first .. first + size - 1
  BY <1>2 DEF Ledger, Made, Tiles
<1>4. Cardinality(first .. first + size - 1) = size
  <2>1. first + size - 1 \in Int /\ (first > first + size - 1 <=> size = 0)
        /\ (first + size - 1) - first + 1 = size
    OBVIOUS
  <2>2. QED
    BY <2>1, FS_Interval
<1>5. ASSUME NEW w \in Ledger(t) PROVE Cardinality({v \in Ledger(t) : v < w}) = w - first
  <2>1. w \in Int /\ first <= w /\ w <= first + size - 1
    BY <1>3
  <2>2. {v \in Ledger(t) : v < w} = first .. w - 1
    <3>1. \A v \in Int : v \in first .. first + size - 1 /\ v < w <=> v \in first .. w - 1
      BY <2>1
    <3>2. Ledger(t) \subseteq Int /\ first .. w - 1 \subseteq Int
      BY <1>3, <2>1
    <3>3. QED
      BY <1>3, <3>1, <3>2
  <2>3. /\ w - 1 \in Int /\ first \in Int /\ (w - 1) - first + 1 = w - first
        /\ first > w - 1 => w - first = 0
    BY <2>1
  <2>4. Cardinality(first .. w - 1) = IF first > w - 1 THEN 0 ELSE (w - 1) - first + 1
    BY <2>3, FS_Interval
  <2>5. QED
    BY <2>2, <2>3, <2>4
<1>6. QED
  BY <1>3, <1>4, <1>5

\* The windows of an analysed row follow each other without a gap from the start of its
\* interval, and less than one window is discarded at its end, for every interval,
\* window duration and capture (make_windows, analyze_condition).
THEOREM LedgerComplete == Spec => []LedgerIsComplete
<1>1. IInv /\ DInv /\ TallyInv => LedgerIsComplete
  <2> SUFFICES ASSUME IInv, DInv, TallyInv, NEW t \in DOMAIN tallies
               PROVE  LET row == rows[tallies[t].row]
                          seconds == Durations[kind][tallies[t].pass]
                          tail == row.end - row.start - Cardinality(Ledger(t)) * seconds
                      IN  /\ \A w \in Ledger(t) :
                               windows[w].from = row.start + Cardinality({v \in Ledger(t) : v < w}) * seconds
                          /\ 0 <= tail /\ tail < seconds
    BY DEF LedgerIsComplete
  <2> DEFINE row == rows[tallies[t].row]
             seconds == Durations[kind][tallies[t].pass]
  <2>1. PICK first \in Nat \ {0}, size \in Nat :
          /\ first + size - 1 <= Len(windows)
          /\ Tiles(windows, tallies[t].row, tallies[t].pass, row.start, seconds, first, size)
          /\ 0 <= row.end - row.start - size * seconds
          /\ row.end - row.start - size * seconds < seconds
    BY DEF TallyInv, Finished
  <2> HIDE DEF row, seconds
  <2>2. /\ Ledger(t) = first .. first + size - 1 /\ Cardinality(Ledger(t)) = size
        /\ \A w \in Ledger(t) : Cardinality({v \in Ledger(t) : v < w}) = w - first
    BY <2>1, LedgerIsInterval
  <2>3. \A w \in Ledger(t) : windows[w].from = row.start + (w - first) * seconds
    BY <2>1, <2>2 DEF Tiles
  <2>4. QED
    BY <2>1, <2>2, <2>3 DEF row, seconds
<1>2. QED
  BY <1>1, TallyInvariance, PTL

\* The occupancy summary of an analysed row is what its windows show, the longest quiet
\* stretch included (analyze_condition's loop over the windows).
THEOREM OccupancyMatches == Spec => []OccupancyMatchesLedger
<1>1. IInv /\ DInv /\ TallyInv => OccupancyMatchesLedger
  <2> SUFFICES ASSUME IInv, DInv, TallyInv, NEW t \in DOMAIN tallies
               PROVE  LET summary == tallies[t].tally
                          empty == {w \in Ledger(t) : windows[w].packets = {}}
                          Run(i, j) == i <= j /\ i .. j \subseteq empty
                      IN  /\ summary.scheduled = Cardinality(Ledger(t))
                          /\ summary.empty = Cardinality(empty)
                          /\ summary.nonempty = Cardinality(Ledger(t)) - Cardinality(empty)
                          /\ \A i, j \in empty : Run(i, j) => j - i + 1 <= summary.longest
                          /\ summary.longest # 0 =>
                               \E i, j \in empty : Run(i, j) /\ j - i + 1 = summary.longest
    BY DEF OccupancyMatchesLedger
  <2> DEFINE summary == tallies[t].tally
             empty == {w \in Ledger(t) : windows[w].packets = {}}
  <2>1. PICK first \in Nat \ {0}, size \in Nat :
          /\ first + size - 1 <= Len(windows)
          /\ Tiles(windows, tallies[t].row, tallies[t].pass, rows[tallies[t].row].start,
                   Durations[kind][tallies[t].pass], first, size)
          /\ Counts(windows, summary, first, size)
    BY DEF TallyInv, Finished
  <2> HIDE DEF summary
  <2>2. Ledger(t) = first .. first + size - 1 /\ Cardinality(Ledger(t)) = size
    BY <2>1, LedgerIsInterval
  <2>3. empty = EmptyOnes(windows, first, size)
    BY <2>2 DEF EmptyOnes
  <2>4. /\ summary.scheduled = size /\ summary.empty = Cardinality(empty)
        /\ summary.nonempty = size - Cardinality(empty)
    BY <2>1, <2>3 DEF Counts
  <2>5. ASSUME NEW i \in Int, NEW j \in Int
        PROVE  EmptyRun(windows, first, size, i, j) <=>
                 i \in empty /\ j \in empty /\ i <= j /\ i .. j \subseteq empty
    <3>1. i <= j => i \in i .. j /\ j \in i .. j
      OBVIOUS
    <3>2. first <= i /\ j <= first + size - 1 => i .. j \subseteq first .. first + size - 1
      OBVIOUS
    <3>3. i \in first .. first + size - 1 => first <= i
      OBVIOUS
    <3>4. j \in first .. first + size - 1 => j <= first + size - 1
      OBVIOUS
    <3>5. QED
      BY <2>2, <3>1, <3>2, <3>3, <3>4 DEF EmptyRun
  <2>6. empty \subseteq Int
    BY <2>2
  <2> HIDE DEF empty
  <2>7. \A i, j \in empty : i <= j /\ i .. j \subseteq empty => j - i + 1 <= summary.longest
    BY <2>1, <2>5, <2>6 DEF Counts
  <2>8. summary.longest # 0 =>
          \E i, j \in empty : i <= j /\ i .. j \subseteq empty /\ j - i + 1 = summary.longest
    BY <2>1, <2>5 DEF Counts
  <2>9. QED
    BY <2>2, <2>4, <2>7, <2>8 DEF summary, empty
<1>2. QED
  BY <1>1, TallyInvariance, PTL
-----------------------------------------------------------------------------
(***************************************************************************)
(* What is computed from some values, and from the packets of one window,  *)
(* for any values and packets (FeatureExtractor).                          *)
(*                                                                         *)
(* The n-th of the sorted values is above at most n - 1 of them and not    *)
(* below n, a quantile lies between two neighbours of its place, and so at *)
(* most as many values lie on either side of it as its name says.  The     *)
(* gaps add up because each ends where the next one starts, and the sums   *)
(* over the directions and the transports are sums over classes.           *)
(***************************************************************************)

\* The greatest and the least of some integers.
LEMMA MaxOf ==
  ASSUME NEW S, IsFiniteSet(S), S \subseteq Int, S # {}
  PROVE  Max(S) \in S /\ \A x \in S : Max(S) >= x
<1>1. PICK greatest \in S : \A x \in S : greatest >= x
  BY GreatestElement
<1>2. QED
  BY <1>1 DEF Max

\* A nonempty finite set of integers has its minimum.
LEMMA MinOf ==
  ASSUME NEW S, IsFiniteSet(S), S \subseteq Int, S # {}
  PROVE  Min(S) \in S /\ \A x \in S : Min(S) <= x
<1> DEFINE negative == [x \in S |-> -x]
           N == {negative[x] : x \in S}
<1>1. IsFiniteSet(N)
  <2> HIDE DEF negative
  <2>1. QED
    BY FiniteImage
<1>2. \A x \in S : negative[x] = -x /\ x \in Int /\ -x \in Int
  OBVIOUS
<1> HIDE DEF negative
<1>3. N \subseteq Int /\ N # {}
  BY <1>2
<1>4. PICK greatest \in N : \A n \in N : greatest >= n
  <2> HIDE DEF N
  <2>1. QED
    BY <1>1, <1>3, GreatestElement
<1>5. PICK least \in S : greatest = negative[least]
  BY <1>4
<1>6. ASSUME NEW x \in S PROVE least <= x
  <2>1. negative[x] \in N
    OBVIOUS
  <2>2. -least >= -x
    BY <1>2, <1>4, <1>5, <2>1
  <2>3. QED
    BY <1>2, <2>2
<1>7. QED
  BY ONLY <1>6, least \in S DEF Min

\* What Sorted(values) has at its k-th place.
LEMMA InOrder ==
  ASSUME NEW values, IsFiniteSet(DOMAIN values), \A i \in DOMAIN values : values[i] \in Int
  PROVE  LET n == Size(values)
             s == Sorted(values)
         IN  /\ n \in Nat /\ DOMAIN s = 1 .. n
             /\ \A k \in 1 .. n :
                  /\ s[k] \in Int /\ \E i \in DOMAIN values : s[k] = values[i]
                  /\ k <= Cardinality({i \in DOMAIN values : values[i] <= s[k]})
                  /\ Cardinality({i \in DOMAIN values : values[i] < s[k]}) < k
             /\ \A k, l \in 1 .. n : k <= l => s[k] <= s[l]
<1> DEFINE D == DOMAIN values
           R == Range(values)
           n == Size(values)
           s == Sorted(values)
           upTo == [v \in R |-> Cardinality({i \in D : values[i] <= v})]
           C(k) == {v \in R : k <= upTo[v]}
<1>1. n \in Nat /\ n = Cardinality(D)
  BY FS_CardinalityType DEF Size
<1>2. IsFiniteSet(R) /\ R \subseteq Int /\ \A v \in R : \E i \in D : v = values[i]
  BY FiniteImage DEF Range
<1>3. \A v \in R : upTo[v] \in Nat
  <2>1. TAKE v \in R
  <2>2. IsFiniteSet({i \in D : values[i] <= v})
    BY FS_Subset
  <2>3. QED
    BY <2>2, FS_CardinalityType
<1>4. DOMAIN s = 1 .. n /\ \A k \in 1 .. n : s[k] = Min(C(k))
  BY DEF Sorted
<1>5. ASSUME NEW k \in 1 .. n PROVE s[k] \in C(k) /\ \A v \in C(k) : s[k] <= v
  <2>1. R # {}
    <3>1. D # {}
      BY <1>1, FS_EmptySet
    <3>2. QED
      BY <3>1 DEF Range
  <2>2. PICK high \in R : \A v \in R : high >= v
    <3> HIDE DEF R
    <3>1. QED
      BY <1>2, <2>1, GreatestElement
  <2>3. upTo[high] = n
    <3>1. \A i \in D : values[i] \in R /\ values[i] \in Int /\ high \in Int
      BY <1>2 DEF Range
    <3>2. {i \in D : values[i] <= high} = D
      BY <2>2, <3>1
    <3>3. QED
      BY <1>1, <3>2
  <2>4. C(k) # {} /\ C(k) \subseteq Int /\ IsFiniteSet(C(k))
    <3>1. high \in C(k)
      BY <2>3
    <3>2. QED
      BY <1>2, <3>1, FS_Subset
  <2> HIDE DEF C
  <2>5. Min(C(k)) \in C(k) /\ \A v \in C(k) : Min(C(k)) <= v
    BY <2>4, MinOf
  <2>6. QED
    BY <1>4, <2>5
<1>6. ASSUME NEW k \in 1 .. n
      PROVE  /\ s[k] \in Int /\ \E i \in D : s[k] = values[i]
             /\ k <= Cardinality({i \in D : values[i] <= s[k]})
             /\ Cardinality({i \in D : values[i] < s[k]}) < k
  <2>1. s[k] \in R /\ k <= upTo[s[k]]
    BY <1>5
  <2> DEFINE P == {i \in D : values[i] < s[k]}
             V == {values[i] : i \in P}
  <2>2. IsFiniteSet(P) /\ Cardinality(P) \in Nat /\ IsFiniteSet(V) /\ V \subseteq R
    BY FS_Subset, FS_CardinalityType, FiniteImage DEF Range
  <2>3. Cardinality(P) < k
    <3>1. SUFFICES ASSUME k <= Cardinality(P) PROVE FALSE
      BY <2>2
    <3>2. P # {}
      BY <3>1, FS_EmptySet
    <3>3. V # {} /\ V \subseteq Int
      BY <1>2, <2>2, <3>2
    <3>4. PICK u \in V : \A v \in V : u >= v
      <4> HIDE DEF V
      <4>1. QED
        BY <2>2, <3>3, GreatestElement
    <3>5. u \in R /\ u \in Int /\ s[k] \in Int /\ u < s[k]
      BY <1>2, <2>1, <2>2
    <3>6. {i \in D : values[i] <= u} = P
      <4>1. ASSUME NEW i \in D PROVE values[i] <= u <=> values[i] < s[k]
        <5>1. values[i] < s[k] => values[i] \in V
          OBVIOUS
        <5>2. QED
          BY <3>4, <3>5, <5>1
      <4>2. QED
        BY <4>1
    <3>7. u \in C(k)
      BY <3>1, <3>5, <3>6
    <3>8. s[k] <= u
      BY <1>5, <3>7
    <3>9. QED
      BY <3>5, <3>8
  <2>4. QED
    BY <1>2, <2>1, <2>3
<1>7. ASSUME NEW k \in 1 .. n, NEW l \in 1 .. n, k <= l PROVE s[k] <= s[l]
  <2>1. s[l] \in R /\ l <= upTo[s[l]]
    BY <1>5
  <2>2. upTo[s[l]] \in Nat
    BY <1>3, <2>1
  <2>3. k <= upTo[s[l]]
    BY <1>1, <1>7, <2>1, <2>2
  <2>4. QED
    BY <1>5, <2>1, <2>3
<1>8. QED
  BY <1>1, <1>4, <1>6, <1>7

\* A quantile lies d + r/4 places behind the first.
Between(s, quarter, d, r) ==
  /\ 1 <= d + 1 /\ d + 1 <= Cardinality(DOMAIN s) /\ (r # 0 => d + 2 <= Cardinality(DOMAIN s))
  /\ quarter = 4 * s[d + 1] + (IF r = 0 THEN 0 ELSE (s[d + 2] - s[d + 1]) * r)

\* A quantile lies between two neighbours, at a quarter of their distance.
LEMMA QuantilePlace ==
  ASSUME NEW s, NEW n \in Nat, 0 < n, Size(s) = n, \A k \in 1 .. n : s[k] \in Int, NEW q \in 1 .. 3
  PROVE  \E d \in Nat, r \in 0 .. 3 : 4 * d + r = q * (n - 1) /\ Between(s, quantile(s, q), d, r)
<1> DEFINE place == q * (n - 1)
           d == place \div 4
           r == place % 4
<1>1. place \in Nat /\ place <= 3 * (n - 1)
  <2>1. q = 1 \/ q = 2 \/ q = 3
    OBVIOUS
  <2>2. QED
    BY <2>1
<1>2. quantile(s, q) = 4 * s[d + 1] + (s[IF r = 0 THEN d + 1 ELSE (d + 1) + 1] - s[d + 1]) * r
  BY DEF quantile
<1> HIDE DEF place
<1>3. d \in Nat /\ r \in 0 .. 3 /\ 4 * d + r = place
  BY <1>1
<1> HIDE DEF d, r
<1>4. d + 1 <= n /\ (r # 0 => d + 2 <= n)
  BY <1>1, <1>3
<1>5. s[d + 1] \in Int
  BY <1>3, <1>4
<1>6. (d + 1) + 1 = d + 2
  BY <1>3
<1>7. Between(s, quantile(s, q), d, r)
  <2>1. CASE r = 0
    <3>1. quantile(s, q) = 4 * s[d + 1] + (s[d + 1] - s[d + 1]) * 0
      BY <1>2, <2>1
    <3>2. QED
      BY <1>3, <1>4, <1>5, <2>1, <3>1 DEF Between, Size
  <2>2. CASE r # 0
    BY <1>2, <1>3, <1>4, <1>6, <2>2 DEF Between, Size
  <2>3. QED
    BY <2>1, <2>2
<1>8. QED
  BY <1>3, <1>7 DEF place

\* n sorted values.
Rising(s, n) ==
  /\ n \in Nat /\ 0 < n /\ DOMAIN s = 1 .. n
  /\ \A k \in 1 .. n : s[k] \in Int
  /\ \A k, l \in 1 .. n : k <= l => s[k] <= s[l]

\* Quantiles are in the order of their places, and between the first and the last value.
LEMMA QuantilesOrdered ==
  ASSUME NEW s, NEW n, Rising(s, n),
         NEW c \in Nat, NEW p \in 0 .. 3, NEW d \in Nat, NEW r \in 0 .. 3,
         NEW a, Between(s, a, c, p), NEW b, Between(s, b, d, r)
  PROVE  /\ a \in Int /\ b \in Int /\ 4 * s[1] <= a /\ a <= 4 * s[n]
         /\ 4 * c + p <= 4 * d + r => a <= b
<1>0. /\ n \in Nat /\ 0 < n /\ DOMAIN s = 1 .. n
      /\ \A k \in 1 .. n : s[k] \in Int
      /\ \A k, l \in 1 .. n : k <= l => s[k] <= s[l]
  BY DEF Rising
<1> USE <1>0
<1>1. Cardinality(DOMAIN s) = n
  <2>1. Cardinality(1 .. n) = IF 1 > n THEN 0 ELSE n - 1 + 1
    BY FS_Interval
  <2>2. QED
    BY <2>1
<1>2. ASSUME NEW e \in Nat, NEW t \in 0 .. 3, NEW q, Between(s, q, e, t)
      PROVE  /\ q \in Int /\ e + 1 \in 1 .. n /\ 4 * s[e + 1] <= q /\ q <= 4 * s[n]
             /\ t # 0 => e + 2 \in 1 .. n /\ q <= 4 * s[e + 2] /\ s[e + 1] <= s[e + 2]
                         /\ q = 4 * s[e + 1] + (s[e + 2] - s[e + 1]) * t
             /\ t = 0 => q = 4 * s[e + 1]
  <2>1. e + 1 \in 1 .. n /\ (t # 0 => e + 2 \in 1 .. n) /\ n \in 1 .. n
    BY <1>1, <1>2 DEF Between
  <2>2. q = 4 * s[e + 1] + (IF t = 0 THEN 0 ELSE (s[e + 2] - s[e + 1]) * t)
    BY <1>2 DEF Between
  <2>3. s[e + 1] \in Int /\ s[n] \in Int /\ s[e + 1] <= s[n]
    BY <2>1
  <2>4. CASE t = 0
    BY <2>1, <2>2, <2>3, <2>4
  <2>5. CASE t # 0
    <3> DEFINE low == s[e + 1]
               high == s[e + 2]
    <3>1. e + 2 \in 1 .. n /\ e + 1 <= e + 2
      BY <2>1, <2>5
    <3>2. low \in Int /\ high \in Int /\ low <= high /\ high <= s[n]
      BY <2>1, <3>1
    <3>3. q = 4 * low + (high - low) * t
      BY <2>2, <2>5
    <3> HIDE DEF low, high
    <3>4. q \in Int /\ 4 * low <= q /\ q <= 4 * high
      <4>1. t = 1 \/ t = 2 \/ t = 3
        BY <2>5
      <4>2. CASE t = 1
        BY <3>2, <3>3, <4>2
      <4>3. CASE t = 2
        BY <3>2, <3>3, <4>3
      <4>4. CASE t = 3
        BY <3>2, <3>3, <4>4
      <4>5. QED
        BY <4>1, <4>2, <4>3, <4>4
    <3>5. q <= 4 * s[n]
      BY <2>3, <3>2, <3>4
    <3>6. QED
      BY <2>1, <2>5, <3>1, <3>2, <3>3, <3>4, <3>5 DEF low, high
  <2>6. QED
    BY <2>4, <2>5
<1>3. a \in Int /\ b \in Int /\ 4 * s[1] <= a /\ a <= 4 * s[n]
  <2>1. a \in Int /\ c + 1 \in 1 .. n /\ 4 * s[c + 1] <= a /\ a <= 4 * s[n] /\ b \in Int
    BY <1>2
  <2>2. 1 \in 1 .. n /\ 1 <= c + 1
    OBVIOUS
  <2>3. s[1] \in Int /\ s[c + 1] \in Int /\ s[1] <= s[c + 1]
    BY <2>1, <2>2
  <2>4. QED
    BY <2>1, <2>3
<1>4. ASSUME 4 * c + p <= 4 * d + r PROVE a <= b
  <2>1. c < d \/ (c = d /\ p <= r)
    BY <1>4
  <2>2. CASE c < d
    <3>1. /\ a \in Int /\ c + 1 \in 1 .. n /\ (p # 0 => c + 2 \in 1 .. n /\ a <= 4 * s[c + 2])
          /\ (p = 0 => a = 4 * s[c + 1])
          /\ b \in Int /\ d + 1 \in 1 .. n /\ 4 * s[d + 1] <= b
      <4>1. /\ a \in Int /\ c + 1 \in 1 .. n /\ (p # 0 => c + 2 \in 1 .. n /\ a <= 4 * s[c + 2])
            /\ p = 0 => a = 4 * s[c + 1]
        BY ONLY <1>2, c \in Nat, p \in 0 .. 3, Between(s, a, c, p)
      <4>2. b \in Int /\ d + 1 \in 1 .. n /\ 4 * s[d + 1] <= b
        BY ONLY <1>2, d \in Nat, r \in 0 .. 3, Between(s, b, d, r)
      <4>3. QED
        BY ONLY <4>1, <4>2
    <3>2. CASE p = 0
      <4>1. c + 1 <= d + 1
        BY ONLY <2>2, c \in Nat, d \in Nat
      <4>2. s[c + 1] <= s[d + 1] /\ s[c + 1] \in Int /\ s[d + 1] \in Int
        BY ONLY <1>0, <3>1, <4>1
      <4>3. a = 4 * s[c + 1] /\ 4 * s[d + 1] <= b /\ b \in Int
        BY ONLY <3>1, <3>2
      <4>4. QED
        BY ONLY <4>2, <4>3
    <3>3. CASE p # 0
      <4>1. c + 2 \in 1 .. n /\ c + 2 <= d + 1
        BY <2>2, <3>1, <3>3
      <4>2. s[c + 2] <= s[d + 1] /\ s[c + 2] \in Int /\ s[d + 1] \in Int
        BY <3>1, <4>1
      <4>3. QED
        BY <3>1, <3>3, <4>2
    <3>4. QED
      BY <3>2, <3>3
  <2>3. CASE c = d /\ p <= r
    <3> DEFINE low == s[c + 1]
               high == s[c + 2]
    <3>1. /\ low \in Int /\ (p = 0 => a = 4 * low) /\ (r = 0 => b = 4 * low) /\ 4 * low <= b
          /\ p # 0 => a = 4 * low + (high - low) * p
          /\ r # 0 => high \in Int /\ low <= high /\ b = 4 * low + (high - low) * r
      <4>1. c + 1 \in 1 .. n /\ (r # 0 => c + 2 \in 1 .. n)
        BY <1>2, <2>3
      <4>2. low \in Int /\ (r # 0 => high \in Int)
        BY <4>1
      <4>3. QED
        BY <1>2, <2>3, <4>2
    <3> HIDE DEF low, high
    <3>2. CASE p = 0
      BY ONLY <3>1, <3>2
    <3>3. CASE p # 0
      <4>1. p \in 1 .. 3 /\ r \in 1 .. 3 /\ p <= r /\ high - low \in Nat
        <5>1. p \in 1 .. 3 /\ r \in 1 .. 3 /\ p <= r /\ r # 0
          BY ONLY p \in 0 .. 3, r \in 0 .. 3, <2>3, <3>3
        <5>2. high - low \in Nat
          BY ONLY <3>1, <5>1
        <5>3. QED
          BY <5>1, <5>2
      <4>2. (high - low) * p <= (high - low) * r
        <5> DEFINE w == high - low
        <5>1. w \in Nat
          BY <4>1
        <5> HIDE DEF w
        <5>2. w * p <= w * r
          <6>1. (p = 1 \/ p = 2 \/ p = 3) /\ (r = 1 \/ r = 2 \/ r = 3)
            BY <4>1
          <6>2. w * 1 <= w * 2 /\ w * 2 <= w * 3 /\ w * 1 <= w * 3 /\ w * 1 <= w * 1
                /\ w * 2 <= w * 2 /\ w * 3 <= w * 3
            BY <5>1
          <6>3. QED
            BY <4>1, <6>1, <6>2
        <5>3. QED
          BY <5>2 DEF w
      <4>3. (high - low) * p \in Int /\ (high - low) * r \in Int
        BY <4>1
      <4>4. a = 4 * low + (high - low) * p /\ b = 4 * low + (high - low) * r /\ low \in Int
        BY <3>1, <3>3, <4>1
      <4> DEFINE x == (high - low) * p
                 y == (high - low) * r
      <4>5. a = 4 * low + x /\ b = 4 * low + y /\ low \in Int /\ x \in Int /\ y \in Int /\ x <= y
        BY ONLY <4>2, <4>3, <4>4
      <4> HIDE DEF x, y
      <4>6. QED
        BY ONLY <4>5
    <3>4. QED
      BY <3>2, <3>3
  <2>4. QED
    BY <2>1, <2>2, <2>3
<1>5. QED
  BY <1>3, <1>4

\* At most as many values lie below and above a quantile as its name says.
LEMMA QuantileDivides ==
  ASSUME NEW values, IsFiniteSet(DOMAIN values), \A i \in DOMAIN values : values[i] \in Int,
         DOMAIN values # {}, NEW q \in 1 .. 3
  PROVE  Divides(values, quantile(Sorted(values), q), q)
<1> DEFINE D == DOMAIN values
           n == Size(values)
           s == Sorted(values)
           Q == quantile(s, q)
           UpTo(v) == {i \in D : values[i] <= v}
           Under(v) == {i \in D : values[i] < v}
           Lower == {i \in D : 4 * values[i] < Q}
           Upper == {i \in D : 4 * values[i] > Q}
<1>1. /\ n \in Nat /\ DOMAIN s = 1 .. n
      /\ \A k \in 1 .. n : /\ s[k] \in Int /\ k <= Cardinality(UpTo(s[k]))
                          /\ Cardinality(Under(s[k])) < k
      /\ \A k, l \in 1 .. n : k <= l => s[k] <= s[l]
  BY InOrder
<1>2. 0 < n /\ n = Cardinality(D)
  BY <1>1, FS_EmptySet DEF Size
<1>3. Size(s) = n
  <2>1. Cardinality(1 .. n) = IF 1 > n THEN 0 ELSE n - 1 + 1
    BY <1>1, FS_Interval
  <2>2. QED
    BY <1>1, <1>2, <2>1 DEF Size
<1> HIDE DEF s, n
<1>4. PICK d \in Nat, r \in 0 .. 3 : 4 * d + r = q * (n - 1) /\ Between(s, Q, d, r)
  <2>1. \A k \in 1 .. n : s[k] \in Int
    BY <1>1
  <2>2. QED
    BY <1>1, <1>2, <1>3, <2>1, QuantilePlace
<1>5. /\ d + 1 \in 1 .. n /\ (r # 0 => d + 2 \in 1 .. n)
      /\ Q = 4 * s[d + 1] + (IF r = 0 THEN 0 ELSE (s[d + 2] - s[d + 1]) * r)
  BY <1>1, <1>3, <1>4 DEF Between, Size
<1> HIDE DEF Q
<1>6. s[d + 1] \in Int /\ (r # 0 => s[d + 2] \in Int /\ s[d + 1] <= s[d + 2])
  <2>1. \A k \in 1 .. n : s[k] \in Int
    BY <1>1
  <2>2. \A k, l \in 1 .. n : k <= l => s[k] <= s[l]
    BY <1>1
  <2>3. d + 1 <= d + 2
    OBVIOUS
  <2>4. QED
    BY ONLY <1>5, <2>1, <2>2, <2>3
<1>7. /\ Q \in Int /\ 4 * s[d + 1] <= Q
      /\ r = 0 => Q = 4 * s[d + 1]
      /\ r # 0 => Q <= 4 * s[d + 2]
  <2> DEFINE low == s[d + 1]
             high == s[d + 2]
  <2>1. /\ low \in Int /\ (r # 0 => high \in Int /\ low <= high)
        /\ Q = 4 * low + (IF r = 0 THEN 0 ELSE (high - low) * r)
    BY <1>5, <1>6
  <2> HIDE DEF low, high
  <2>2. r = 0 \/ r = 1 \/ r = 2 \/ r = 3
    BY <1>4
  <2>3. Q \in Int /\ 4 * low <= Q /\ (r = 0 => Q = 4 * low) /\ (r # 0 => Q <= 4 * high)
    BY <2>1, <2>2
  <2>4. QED
    BY <2>3 DEF low, high
<1>8. /\ \A v : IsFiniteSet(UpTo(v)) /\ IsFiniteSet(Under(v))
      /\ \A v : Cardinality(UpTo(v)) \in Nat /\ Cardinality(Under(v)) \in Nat
      /\ IsFiniteSet(Lower) /\ IsFiniteSet(Upper)
      /\ Cardinality(Lower) \in Nat /\ Cardinality(Upper) \in Nat
  <2>1. \A P \in SUBSET D : IsFiniteSet(P) /\ Cardinality(P) \in Nat
    BY FS_Subset, FS_CardinalityType
  <2>2. Lower \in SUBSET D /\ Upper \in SUBSET D /\ \A v : UpTo(v) \in SUBSET D /\ Under(v) \in SUBSET D
    OBVIOUS
  <2>3. QED
    BY <2>1, <2>2
<1>9. 4 * Cardinality(Lower) <= q * (n - 1) + 3
  <2>1. CASE r = 0
    <3>1. Lower = Under(s[d + 1])
      BY <1>6, <1>7, <2>1
    <3>2. Cardinality(Lower) < d + 1
      BY <1>1, <1>5, <3>1
    <3> HIDE DEF Lower
    <3>3. QED
      BY <1>4, <1>8, <2>1, <3>2
  <2>2. CASE r # 0
    <3>1. Lower \subseteq Under(s[d + 2])
      BY <1>6, <1>7, <2>2
    <3>2. Cardinality(Lower) <= Cardinality(Under(s[d + 2]))
      BY <1>8, <3>1, FS_Subset
    <3>3. Cardinality(Under(s[d + 2])) < d + 2
      BY <1>1, <1>5, <2>2
    <3>4. Cardinality(Under(s[d + 2])) \in Nat
      BY <1>8
    <3> HIDE DEF Lower, Under
    <3>5. QED
      BY <1>4, <1>8, <2>2, <3>2, <3>3, <3>4
  <2>3. QED
    BY <2>1, <2>2
<1>10. 4 * Cardinality(Upper) <= (4 - q) * (n - 1) + 3
  <2> DEFINE Rest == UpTo(s[d + 1])
  <2>1. Upper \cap Rest = {} /\ Upper \cup Rest \subseteq D
    BY <1>6, <1>7
  <2>2. IsFiniteSet(Rest) /\ d + 1 <= Cardinality(Rest) /\ Cardinality(Rest) \in Nat
    BY <1>1, <1>5, <1>8
  <2> HIDE DEF Upper, Rest
  <2>3. Cardinality(Upper \cup Rest) = Cardinality(Upper) + Cardinality(Rest)
    <3>1. Cardinality(Upper \cup Rest) =
            Cardinality(Upper) + Cardinality(Rest) - Cardinality(Upper \cap Rest)
      BY <1>8, <2>2, FS_Union
    <3>2. Cardinality(Upper \cap Rest) = 0
      BY <2>1, FS_EmptySet
    <3>3. QED
      BY <1>8, <2>2, <3>1, <3>2
  <2>4. Cardinality(Upper \cup Rest) <= n
    BY <1>2, <2>1, FS_Subset
  <2>5. Cardinality(Upper) + d + 1 <= n
    BY <1>1, <1>4, <1>8, <2>2, <2>3, <2>4
  <2>6. (4 - q) * (n - 1) = 4 * (n - 1) - q * (n - 1) /\ q * (n - 1) \in Int
    BY <1>1
  <2>7. 4 * Cardinality(Upper) <= 4 * (n - 1) - 4 * d
    BY <1>1, <1>4, <1>8, <2>5
  <2>8. QED
    BY <1>1, <1>4, <1>8, <2>6, <2>7
<1>11. QED
  BY <1>9, <1>10 DEF Divides, Below, Above, n, s, Q

\* The figures of a list of values are in order, and each divides the list as its name says.
LEMMA Summarised ==
  ASSUME NEW values, IsFiniteSet(DOMAIN values), \A i \in DOMAIN values : values[i] \in Int
  PROVE  WellSummarised(values, Summary(values))
<1> DEFINE D == DOMAIN values
           n == Size(values)
           s == Sorted(values)
           f == Summary(values)
           total == SumFunctionOnSet(values, D)
<1> SUFFICES ASSUME D # {} PROVE WellSummarised(values, f)
  BY DEF WellSummarised
<1>1. /\ n \in Nat /\ DOMAIN s = 1 .. n
      /\ \A k \in 1 .. n : s[k] \in Int /\ \E i \in D : s[k] = values[i]
      /\ \A k \in 1 .. n : k <= Cardinality({i \in D : values[i] <= s[k]})
      /\ \A k \in 1 .. n : Cardinality({i \in D : values[i] < s[k]}) < k
      /\ \A k, l \in 1 .. n : k <= l => s[k] <= s[l]
  <2> HIDE DEF s, n
  <2>1. QED
    BY InOrder DEF s, n
<1>2. 0 < n /\ n = Cardinality(D)
  BY <1>1, FS_EmptySet DEF Size
<1>3. Size(s) = n
  <2>1. Cardinality(1 .. n) = IF 1 > n THEN 0 ELSE n - 1 + 1
    BY <1>1, FS_Interval
  <2>2. QED
    BY <1>1, <1>2, <2>1 DEF Size
<1>4. /\ f.min = s[1] /\ f.max = s[n] /\ f.mean = average(values) /\ f.variance = variance(values)
      /\ f.q1 = quantile(s, 1) /\ f.median = quantile(s, 2) /\ f.q3 = quantile(s, 3)
  BY <1>2 DEF Summary
<1>5. f.mean[1] = total
  BY <1>4 DEF average, SumFunction
<1> HIDE DEF f, s, n
<1>6. s[1] \in Int /\ s[n] \in Int /\ s[1] <= s[n]
  BY <1>1, <1>2
<1>7. ASSUME NEW i \in D PROVE s[1] <= values[i] /\ values[i] <= s[n]
  <2> DEFINE Under == {j \in D : values[j] < s[1]}
             UpTo == {j \in D : values[j] <= s[n]}
  <2>1. IsFiniteSet(Under) /\ IsFiniteSet(UpTo) /\ Cardinality(Under) \in Nat
    BY FS_Subset, FS_CardinalityType
  <2>2. Under = {}
    <3>1. Cardinality(Under) = 0
      BY <1>1, <1>2, <2>1
    <3>2. QED
      BY <2>1, <3>1, FS_EmptySet
  <2>3. UpTo = D
    <3>1. n <= Cardinality(UpTo) /\ UpTo \subseteq D
      BY <1>1, <1>2
    <3> HIDE DEF UpTo
    <3>2. QED
      BY <1>2, <3>1, <2>1, FS_Subset, FS_CardinalityType
  <2>4. QED
    BY <1>6, <2>2, <2>3
<1>8. total \in Int /\ s[1] * n <= total /\ total <= s[n] * n
  BY <1>2, <1>6, <1>7, SumBetween, SumOfRest
<1>9. 4 * s[1] <= f.q1 /\ f.q1 <= f.median /\ f.median <= f.q3 /\ f.q3 <= 4 * s[n]
  <2>0. \A q \in 1 .. 3 :
          \E d \in Nat, r \in 0 .. 3 : 4 * d + r = q * (n - 1) /\ Between(s, quantile(s, q), d, r)
    <3>1. \A k \in 1 .. n : s[k] \in Int
      BY <1>1
    <3>2. QED
      BY <1>1, <1>2, <1>3, <3>1, QuantilePlace
  <2>1. PICK c1 \in Nat, r1 \in 0 .. 3 : 4 * c1 + r1 = 1 * (n - 1) /\ Between(s, f.q1, c1, r1)
    <3>1. 1 \in 1 .. 3
      OBVIOUS
    <3>2. QED
      BY <1>4, <2>0, <3>1
  <2>2. PICK c2 \in Nat, r2 \in 0 .. 3 : 4 * c2 + r2 = 2 * (n - 1) /\ Between(s, f.median, c2, r2)
    <3>1. 2 \in 1 .. 3
      OBVIOUS
    <3>2. QED
      BY <1>4, <2>0, <3>1
  <2>3. PICK c3 \in Nat, r3 \in 0 .. 3 : 4 * c3 + r3 = 3 * (n - 1) /\ Between(s, f.q3, c3, r3)
    <3>1. 3 \in 1 .. 3
      OBVIOUS
    <3>2. QED
      BY <1>4, <2>0, <3>1
  <2>4. 4 * c1 + r1 <= 4 * c2 + r2 /\ 4 * c2 + r2 <= 4 * c3 + r3
    <3>1. /\ 4 * c1 + r1 = 1 * (n - 1) /\ 4 * c2 + r2 = 2 * (n - 1) /\ 4 * c3 + r3 = 3 * (n - 1)
          /\ n - 1 \in Nat
      <4>1. n - 1 \in Nat
        BY <1>1, <1>2
      <4>2. QED
        BY ONLY <2>1, <2>2, <2>3, <4>1
    <3> DEFINE m == n - 1
    <3>2. 1 * m <= 2 * m /\ 2 * m <= 3 * m
      <4>1. m \in Nat
        BY <3>1
      <4> HIDE DEF m
      <4>2. QED
        BY ONLY <4>1
    <3>3. QED
      BY ONLY <3>1, <3>2
  <2>5. Rising(s, n)
    BY <1>1, <1>2 DEF Rising
  <2>6. 4 * s[1] <= f.q1 /\ f.q1 <= f.median
    BY <2>1, <2>2, <2>4, <2>5, QuantilesOrdered
  <2>7. f.median <= f.q3 /\ f.q3 <= 4 * s[n]
    BY <2>2, <2>3, <2>4, <2>5, QuantilesOrdered
  <2>8. QED
    BY <2>6, <2>7
<1>10. f.variance[1] >= 0 /\ (f.variance[1] = 0 <=> s[1] = s[n])
  <2> DEFINE square == [i \in D |-> values[i] * values[i]]
             squares == SumFunctionOnSet(square, D)
  <2>1. f.variance[1] = IF n < 2 THEN 0 ELSE n * squares - total * total
    BY <1>4 DEF variance, SumFunction, n
  <2>2. /\ total * total <= n * squares
        /\ \A i, j \in D : values[i] # values[j] => total * total < n * squares
        /\ (\A i, j \in D : values[i] = values[j]) => total * total = n * squares
    <3>1. \A i \in D : values[i] \in Int /\ square[i] = values[i] * values[i]
      OBVIOUS
    <3> HIDE DEF square
    <3>2. total * total <= Cardinality(D) * squares
      BY <3>1, SumOfSquares
    <3>3. ASSUME NEW i \in D, NEW j \in D, values[i] # values[j]
          PROVE  total * total < Cardinality(D) * squares
      BY <3>1, <3>3, SumOfSquares
    <3>4. (\A i, j \in D : values[i] = values[j]) => total * total = Cardinality(D) * squares
      BY <3>1, SumOfSquares
    <3> HIDE DEF squares, total
    <3>5. QED
      BY <1>2, <3>2, <3>3, <3>4
  <2>3. squares \in Int
    <3>1. \A i \in D : square[i] \in Int
      OBVIOUS
    <3> HIDE DEF square
    <3>2. QED
      BY <3>1, SumOfRest
  <2>4. (\A i, j \in D : values[i] = values[j]) <=> s[1] = s[n]
    <3>1. PICK i \in D, j \in D : s[1] = values[i] /\ s[n] = values[j]
      BY <1>1, <1>2
    <3>2. ASSUME s[1] = s[n] PROVE \A k, l \in D : values[k] = values[l]
      BY <1>6, <1>7, <3>2
    <3>3. QED
      BY <3>1, <3>2
  <2> HIDE DEF squares, square
  <2>5. CASE n < 2
    <3>1. n = 1
      BY <1>1, <1>2, <2>5
    <3>2. QED
      BY <1>6, <2>1, <2>5, <3>1
  <2>6. CASE ~(n < 2)
    <3>1. n * squares \in Int /\ total * total \in Int
      BY <1>1, <1>8, <2>3
    <3> HIDE DEF total
    <3>2. QED
      BY <2>1, <2>2, <2>4, <2>6, <3>1
  <2>7. QED
    BY <2>5, <2>6
<1>11. Divides(values, f.q1, 1) /\ Divides(values, f.median, 2) /\ Divides(values, f.q3, 3)
  BY <1>4, QuantileDivides DEF s
<1>12. QED
  BY <1>4, <1>5, <1>8, <1>9, <1>10, <1>11 DEF WellSummarised, n

\* The gaps between the packets add up to the time from the first to the last.
LEMMA GapsAddUp ==
  ASSUME NEW packets, IsFiniteSet(DOMAIN packets), DOMAIN packets \subseteq Int, DOMAIN packets # {},
         \A i \in DOMAIN packets : packets[i].time \in Int
  PROVE  SumFunction(iats(packets)) =
           packets[Max(DOMAIN packets)].time - packets[Min(DOMAIN packets)].time
<1> DEFINE D == DOMAIN packets
           newest == Max(D)
           oldest == Min(D)
           A == D \ {newest}
           to == [i \in A |-> Following(i, D)]
           time == [i \in D |-> packets[i].time]
           later == [i \in A |-> time[to[i]]]
           gaps == iats(packets)
<1>1. /\ newest \in D /\ \A i \in D : i <= newest
      /\ oldest \in D /\ \A i \in D : oldest <= i
  BY MaxOf, MinOf
<1>2. IsFiniteSet(A) /\ \A i \in D : i \in Int
  BY FS_Subset
<1>3. DOMAIN gaps = A /\ \A i \in A : gaps[i] = time[to[i]] - time[i]
  <2> SUFFICES ASSUME NEW i \in A PROVE to[i] \in D
    BY DEF iats
  <2> DEFINE N == {j \in D : i < j}
  <2>1. IsFiniteSet(N) /\ N \subseteq Int /\ newest \in N
    BY <1>1, <1>2, FS_Subset
  <2>2. to[i] = Min(N)
    BY DEF Following
  <2> HIDE DEF N, to
  <2>3. to[i] \in N
    BY <2>1, <2>2, MinOf
  <2>4. QED
    BY <2>3 DEF N
<1>4. \A i \in A : to[i] \in D /\ i < to[i] /\ \A j \in D : i < j => to[i] <= j
  <2> SUFFICES ASSUME NEW i \in A
               PROVE  to[i] \in D /\ i < to[i] /\ \A j \in D : i < j => to[i] <= j
    OBVIOUS
  <2> DEFINE N == {j \in D : i < j}
  <2>1. IsFiniteSet(N) /\ N \subseteq Int /\ newest \in N
    BY <1>1, <1>2, FS_Subset
  <2>2. to[i] = Min(N)
    BY DEF Following
  <2> HIDE DEF N, to
  <2>3. to[i] \in N /\ \A j \in N : to[i] <= j
    BY <2>1, <2>2, MinOf
  <2>4. QED
    BY <2>3 DEF N
<1> HIDE DEF to, oldest, newest, gaps
<1>5. \A x, y \in A : to[x] = to[y] => x = y
  <2>1. \A x, y \in A : x < y => to[x] # to[y]
    <3>1. TAKE x, y \in A
    <3>2. x < y => to[x] <= y /\ y < to[y] /\ to[y] \in Int
      BY <1>2, <1>4
    <3>3. x \in Int /\ y \in Int /\ to[x] \in Int
      BY <1>2, <1>4
    <3>4. QED
      BY <3>2, <3>3
  <2>2. \A x, y \in A : x \in Int /\ y \in Int /\ (x = y \/ x < y \/ y < x)
    BY <1>2
  <2>3. QED
    BY <2>1, <2>2
<1>6. (\A i \in A : to[i] \in D \ {oldest}) /\ (\A j \in D \ {oldest} : \E i \in A : to[i] = j)
  <2>1. ASSUME NEW i \in A PROVE to[i] \in D \ {oldest}
    <3>1. to[i] \in D /\ i < to[i] /\ oldest <= i
      BY <1>1, <1>4
    <3>2. i \in Int /\ to[i] \in Int /\ oldest \in Int
      BY <1>1, <1>2, <3>1
    <3>3. QED
      BY <3>1, <3>2
  <2>2. ASSUME NEW j \in D \ {oldest} PROVE \E i \in A : to[i] = j
    <3> DEFINE N == {i \in D : i < j}
               i == Max(N)
    <3>1. IsFiniteSet(N) /\ N \subseteq Int
      BY <1>2, FS_Subset
    <3>2. oldest \in N
      <4>1. oldest \in Int /\ j \in Int /\ oldest <= j /\ oldest \in D
        BY <1>1, <1>2
      <4>2. QED
        BY <4>1
    <3>3. i \in N /\ \A k \in N : k <= i
      <4> HIDE DEF N
      <4>1. QED
        BY <3>1, <3>2, MaxOf
    <3> HIDE DEF i
    <3>4. i \in D /\ i < j /\ i \in Int /\ j \in Int /\ j <= newest /\ newest \in Int
      BY <1>1, <1>2, <3>3
    <3>5. i \in A
      BY <3>4
    <3>6. to[i] \in D /\ to[i] \in Int /\ i < to[i] /\ to[i] <= j
      BY <1>2, <1>4, <3>4, <3>5
    <3>7. ~(to[i] < j)
      <4>1. to[i] < j => to[i] <= i
        BY <3>3, <3>6
      <4>2. QED
        BY <3>4, <3>6, <4>1
    <3>8. QED
      BY <3>4, <3>5, <3>6, <3>7
  <2>3. QED
    BY <2>1, <2>2
<1>7. /\ \A i \in D : time[i] \in Int
      /\ \A i \in A : i \in D /\ to[i] \in D /\ later[i] = time[to[i]]
  BY <1>4
<1> HIDE DEF time, later
<1>8. SumFunctionOnSet(gaps, A) = SumFunctionOnSet(later, A) - SumFunctionOnSet(time, A)
  <2>1. \A i \in A : later[i] \in Int /\ time[i] \in Int /\ gaps[i] = later[i] - time[i]
    BY <1>3, <1>7
  <2>2. QED
    BY <1>2, <2>1, SumOfDifferences
<1>9. SumFunctionOnSet(later, A) = SumFunctionOnSet(time, D \ {oldest})
  <2>1. \A i \in A : time[to[i]] \in Int /\ later[i] = time[to[i]]
    BY <1>7
  <2> DEFINE B == D \ {oldest}
  <2>2. \A i \in A : to[i] \in B
    BY <1>6
  <2>3. \A j \in B : \E i \in A : to[i] = j
    BY <1>6
  <2>4. IsFiniteSet(A)
    BY <1>2
  <2> HIDE DEF A, B
  <2>5. SumFunctionOnSet(later, A) = SumFunctionOnSet(time, B)
    BY ONLY <1>5, <2>1, <2>2, <2>3, <2>4, SumRenamed
  <2>6. QED
    BY <2>5 DEF B
<1>10. /\ SumFunctionOnSet(time, D) = time[oldest] + SumFunctionOnSet(time, D \ {oldest})
       /\ SumFunctionOnSet(time, D) = time[newest] + SumFunctionOnSet(time, A)
  <2>1. \A x \in D : SumFunctionOnSet(time, D) = time[x] + SumFunctionOnSet(time, D \ {x})
    BY <1>7, SumWithout
  <2>2. QED
    BY <1>1, <2>1
<1>11. /\ SumFunctionOnSet(time, A) \in Int /\ SumFunctionOnSet(time, D \ {oldest}) \in Int
       /\ time[oldest] \in Int /\ time[newest] \in Int
  <2>1. IsFiniteSet(D \ {oldest}) /\ \A i \in D \ {oldest} : time[i] \in Int
    BY <1>7, FS_Subset
  <2>2. SumFunctionOnSet(time, D \ {oldest}) \in Int
    BY <2>1, SumOfRest
  <2>3. SumFunctionOnSet(time, A) \in Int
    <3>1. \A i \in A : time[i] \in Int
      BY <1>7
    <3>2. QED
      BY <1>2, <3>1, SumOfRest
  <2>4. QED
    BY <1>1, <1>7, <2>2, <2>3
<1>12. SumFunctionOnSet(gaps, A) = time[newest] - time[oldest]
  BY <1>8, <1>9, <1>10, <1>11
<1>13. time[newest] = packets[newest].time /\ time[oldest] = packets[oldest].time
  BY <1>1 DEF time
<1>14. SumFunction(gaps) = SumFunctionOnSet(gaps, A)
  BY <1>3 DEF SumFunction
<1>15. QED
  BY <1>12, <1>13, <1>14 DEF gaps, oldest, newest

LengthsAt(capture, selected) == [i \in selected |-> capture.packets[i].length]

DirectionAt(capture, device_ip, i) == assign_direction(capture.packets[i], device_ip, NoIp)

\* What a capture has at some positions.
WellFormed(capture, selected) ==
  \A i \in selected :
    /\ i \in Int /\ capture.times[i] \in Int
    /\ capture.packets[i].length \in Nat /\ capture.packets[i].transport \in Transports

\* The directions and the transports are finite sets.
LEMMA ThreeAreFinite == ASSUME NEW a, NEW b, NEW c PROVE IsFiniteSet({a, b, c})
<1>1. IsFiniteSet({a}) /\ IsFiniteSet({b}) /\ IsFiniteSet({c})
  BY FS_Singleton
<1>2. IsFiniteSet({a} \cup {b})
  BY <1>1, FS_Union
<1>3. IsFiniteSet(({a} \cup {b}) \cup {c})
  BY <1>1, <1>2, FS_Union
<1>4. {a, b, c} = ({a} \cup {b}) \cup {c}
  OBVIOUS
<1>5. QED
  BY <1>3, <1>4

\* The features of some packets of a capture.
LEMMA FeaturesOf ==
  ASSUME NEW capture, NEW selected, IsFiniteSet(selected), selected # {}, WellFormed(capture, selected),
         NEW device_ip, NEW duration
  PROVE  LET f == extract_features(Packets(capture, selected, device_ip), duration)
             lengths == LengthsAt(capture, selected)
         IN  /\ f.duration = duration
             /\ f.packet_count = Cardinality(selected)
             /\ f.total_ip_bytes = SumFunctionOnSet(lengths, selected)
             /\ SumFunction(f.packets) = f.packet_count
             /\ SumFunction(f.bytes) = f.total_ip_bytes
             /\ SumFunction(f.transport) = f.packet_count
             /\ f.iat.mean[1] = capture.times[Max(selected)] - capture.times[Min(selected)]
             /\ f.ip_size = Summary(lengths)
             /\ \A d \in Directions : f.bytes[d] =
                  SumFunctionOnSet(lengths, {i \in selected : DirectionAt(capture, device_ip, i) = d})
<1> DEFINE packets == Packets(capture, selected, device_ip)
           f == extract_features(packets, duration)
           lengths == LengthsAt(capture, selected)
           direction == [i \in selected |-> packets[i].direction]
           transport == [i \in selected |-> packets[i].transport]
           counts == [d \in Directions |-> Cardinality({i \in selected : direction[i] = d})]
           bytes == [d \in Directions |-> SumFunctionOnSet(lengths, {i \in selected : direction[i] = d})]
           transports == [t \in Transports |-> Cardinality({i \in selected : transport[i] = t})]
<1>1. /\ DOMAIN packets = selected
      /\ \A i \in selected :
           /\ packets[i].time = capture.times[i] /\ packets[i].length = capture.packets[i].length
           /\ packets[i].transport = capture.packets[i].transport
           /\ packets[i].direction = DirectionAt(capture, device_ip, i)
  BY DEF Packets, DirectionAt
<1>2. sizes(packets) = lengths
  BY <1>1 DEF sizes, LengthsAt
<1> HIDE DEF packets
<1>3. /\ IsFiniteSet(Directions) /\ IsFiniteSet(Transports)
      /\ \A i \in selected : lengths[i] \in Int /\ packets[i].time \in Int
      /\ \A i \in selected : transport[i] \in Transports
  <2>1. IsFiniteSet({"outbound", "inbound", "unknown"}) /\ IsFiniteSet({"tcp", "udp", "other"})
    BY ThreeAreFinite
  <2>2. \A i \in selected : lengths[i] \in Int /\ packets[i].time \in Int
    BY <1>1 DEF WellFormed, LengthsAt
  <2>3. \A i \in selected : transport[i] \in Transports
    BY <1>1 DEF WellFormed
  <2>4. QED
    BY <2>1, <2>2, <2>3 DEF Directions, Transports
<1>4. \A i \in selected : direction[i] \in Directions /\ direction[i] = DirectionAt(capture, device_ip, i)
  <2>1. \A i \in selected : DirectionAt(capture, device_ip, i) \in Directions
    BY DEF DirectionAt, assign_direction, Directions
  <2>2. QED
    BY <1>1, <2>1
<1>5. /\ f.duration = duration /\ f.packet_count = Cardinality(selected)
      /\ f.total_ip_bytes = SumFunctionOnSet(lengths, selected)
      /\ f.ip_size = Summary(lengths) /\ f.iat = Summary(iats(packets))
  <2>1. DOMAIN lengths = selected
    BY DEF LengthsAt
  <2>2. QED
    BY <1>1, <1>2, <2>1 DEF extract_features, Size, SumFunction
<1>6. f.packets = counts /\ f.bytes = bytes /\ f.transport = transports
  <2>1. /\ \A d \in Directions : InDirection(packets, d) = {i \in selected : direction[i] = d}
        /\ \A t \in Transports : OverTransport(packets, t) = {i \in selected : transport[i] = t}
    BY <1>1 DEF InDirection, OverTransport
  <2>2. QED
    BY <1>2, <2>1 DEF extract_features
<1> HIDE DEF f, lengths, direction, transport
<1>7. SumFunction(f.packets) = Cardinality(selected)
  <2>1. DOMAIN counts = Directions /\ SumFunctionOnSet(counts, Directions) = Cardinality(selected)
    BY <1>3, <1>4, SumOfClasses
  <2> HIDE DEF counts
  <2>2. QED
    BY <1>6, <2>1 DEF SumFunction
<1>8. SumFunction(f.transport) = Cardinality(selected)
  <2>1. DOMAIN transports = Transports /\ SumFunctionOnSet(transports, Transports) = Cardinality(selected)
    BY <1>3, SumOfClasses
  <2> HIDE DEF transports
  <2>2. QED
    BY <1>6, <2>1 DEF SumFunction
<1>9. SumFunction(f.bytes) = SumFunctionOnSet(lengths, selected)
  <2>1. DOMAIN bytes = Directions /\ SumFunctionOnSet(bytes, Directions) = SumFunctionOnSet(lengths, selected)
    BY <1>3, <1>4, SumByClass
  <2> HIDE DEF bytes
  <2>2. QED
    BY <1>6, <2>1 DEF SumFunction
<1>10. f.iat.mean[1] = capture.times[Max(selected)] - capture.times[Min(selected)]
  <2>1. f.iat.mean[1] = SumFunction(iats(packets))
    BY <1>5 DEF Summary, average
  <2>2. selected \subseteq Int
    BY DEF WellFormed
  <2>3. SumFunction(iats(packets)) = packets[Max(selected)].time - packets[Min(selected)].time
    BY <1>1, <1>3, <2>2, GapsAddUp
  <2>4. Max(selected) \in selected /\ Min(selected) \in selected
    BY <2>2, MaxOf, MinOf
  <2>5. QED
    BY <1>1, <2>1, <2>3, <2>4
<1>11. \A d \in Directions :
         {i \in selected : direction[i] = d} = {i \in selected : DirectionAt(capture, device_ip, i) = d}
  BY <1>4
<1>12. QED
  BY <1>5, <1>6, <1>7, <1>8, <1>9, <1>10, <1>11 DEF f, packets, lengths
-----------------------------------------------------------------------------
(***************************************************************************)
(* The features of every window and the profile of every finished pass are *)
(* those of the packets in their intervals.                                *)
(*                                                                         *)
(* The inductive invariant, DetailInv, says which packets each window has, *)
(* of which version of the capture, and that its features were extracted   *)
(* from these; and for a finished pass that its profile was made from the  *)
(* whole interval of its row, whatever the window duration.  It needs      *)
(* the ledger's invariant (TallyInv) for the length of the discarded tail. *)
(***************************************************************************)

\* The packets of a capture in a half-open interval.
Chosen(capture, from, to) ==
  {i \in DOMAIN capture.times : from <= capture.times[i] /\ capture.times[i] < to}

\* What the command has read under a path.
Read(path) == Capture[Normal[path]][loaded[path]]

\* The capture the rows with that path are cut from.
InUse(path) ==
  /\ loaded[path] \in Versions
  /\ Read(path) # Unreadable
  /\ Ordered(Read(path).times)

\* A window has every packet of its interval, and the features of those packets.
CutFrom(w, f) ==
  LET path == rows[w.row].capture_file
      capture == Read(path)
      seconds == Durations[kind][w.pass]
  IN  /\ w.row \in Indices /\ w.pass \in DOMAIN Durations[kind]
      /\ w.version = loaded[path] /\ InUse(path)
      /\ w.from \in Int /\ w.to = w.from + seconds
      /\ w.packets = Chosen(capture, w.from, w.to)
      /\ w.packets # {} =>
           f = extract_features(Packets(capture, w.packets, DeviceIp[kind]), seconds)

\* The profile of an interval of a capture.
ProfileOf(capture, row, device_ip, tail) ==
  LET selected == Chosen(capture, row.start, row.end)
  IN  [ duration |-> row.end - row.start,
        total_ip_packets |-> Cardinality(selected),
        total_ip_bytes |-> Bytes(capture, selected),
        to_first |-> IF selected = {} THEN -1 ELSE capture.times[Min(selected)] - row.start,
        from_last |-> IF selected = {} THEN -1 ELSE row.end - capture.times[Max(selected)],
        discarded_tail |-> tail,
        aggregate |-> IF selected = {} THEN NoFeatures
                      ELSE extract_features(Packets(capture, selected, device_ip),
                                            row.end - row.start) ]

\* The profile of a finished pass is that of its whole interval.
Described(entry) ==
  LET row == rows[entry.row]
      path == row.capture_file
  IN  /\ entry.row \in Indices /\ InUse(path)
      /\ entry.profile =
           ProfileOf(Read(path), row, DeviceIp[kind],
                     row.end - row.start - entry.tally.scheduled * Durations[kind][entry.pass])

DetailInv ==
  /\ (\E S : features \in Seq(S)) /\ Len(features) = Len(windows)
  /\ \A w \in Made : CutFrom(windows[w], features[w])
  /\ \A t \in DOMAIN tallies : Described(tallies[t])
  /\ step = "windows" => InUse(Path)

\* A step that cuts nothing, and reads at most a capture that was not in the cache.
LEMMA DetailFrame ==
  ASSUME IInv, DetailInv, UNCHANGED <<rows, kind, windows, features>>,
         \A p \in Paths : loaded[p] # -1 => loaded'[p] = loaded[p],
         step' = "windows" => InUse(Path)',
         \A t \in DOMAIN tallies' :
           Described(tallies'[t]) \/ (t \in DOMAIN tallies /\ tallies'[t] = tallies[t])
  PROVE  DetailInv'
<1>1. ASSUME NEW p \in Paths, InUse(p) PROVE InUse(p)' /\ loaded'[p] = loaded[p] /\ Read(p)' = Read(p)
  <2>1. loaded[p] # -1
    BY <1>1, ManifestsAssumption DEF InUse, Versions
  <2>2. loaded'[p] = loaded[p]
    BY <2>1
  <2>3. QED
    BY <1>1, <2>2 DEF InUse, Read
<1>2. \A i \in Indices : rows[i].capture_file \in Paths
  BY RowType DEF IInv, ManifestTypeOK
<1>3. Made' = Made /\ Indices' = Indices
  BY DEF Made, Indices
<1>4. ASSUME NEW w \in Made PROVE CutFrom(windows[w], features[w])'
  <2> DEFINE path == rows[windows[w].row].capture_file
  <2>1. CutFrom(windows[w], features[w])
    BY DEF DetailInv
  <2>2. InUse(path) /\ path \in Paths
    BY <1>2, <2>1 DEF CutFrom
  <2>3. InUse(path)' /\ loaded'[path] = loaded[path] /\ Read(path)' = Read(path)
    BY <1>1, <2>2
  <2>4. QED
    BY <1>3, <2>1, <2>3 DEF CutFrom
<1>5. ASSUME NEW e, Described(e) PROVE Described(e)'
  <2> DEFINE path == rows[e.row].capture_file
  <2>1. InUse(path) /\ path \in Paths
    BY <1>2, <1>5 DEF Described
  <2>2. InUse(path)' /\ loaded'[path] = loaded[path] /\ Read(path)' = Read(path)
    BY <1>1, <2>1
  <2>3. QED
    BY <1>3, <1>5, <2>2 DEF Described
<1>6. ASSUME NEW t \in DOMAIN tallies' PROVE Described(tallies[t])'
  <2>1. Described(tallies'[t])
    BY DEF DetailInv
  <2>2. QED
    BY <1>5, <2>1
<1>7. QED
  BY <1>3, <1>4, <1>6 DEF DetailInv

\* A step that neither reads nor cuts nor ends a pass.
LEMMA DetailSteps ==
  ASSUME IInv, DInv, DetailInv,
         ValidateManifest \/ CaptureReplaced \/ NextRow \/ Finish \/ Rehash \/ Over \/ UNCHANGED vars
  PROVE  DetailInv'
<1>1. /\ UNCHANGED <<kind, windows, features, tallies, loaded>>
      /\ step' = "windows" => step = "windows"
      /\ step = "windows" => current' = current
  BY DEF ValidateManifest, CaptureReplaced, NextRow, Finish, Rehash, Over, Fail, Step, vars, dataVars
<1>2. rows' = rows
  BY RowsFixed DEF ValidateManifest, CaptureReplaced, NextRow, Finish, Rehash, Over, Fail, Step, vars,
                   manifestVars, ManifestNext
<1>3. step' = "windows" => InUse(Path)'
  <2>1. step' = "windows" => InUse(Path) /\ Path' = Path
    BY <1>1, <1>2 DEF DetailInv, File, Row, Path
  <2>2. QED
    BY <1>1, <2>1 DEF InUse, Read
<1>4. QED
  BY <1>1, <1>2, <1>3, DetailFrame

\* What is read is in order, or the command fails.
LEMMA DetailRead ==
  ASSUME IInv, DInv, DetailInv, ReadCapture PROVE DetailInv'
<1>1. /\ step = "read" /\ UNCHANGED <<rows, kind, windows, features, tallies, current>>
      /\ loaded' = [loaded EXCEPT ![Path] = Version]
      /\ step' = "windows" => /\ Capture[File][Version] # Unreadable
                             /\ Ordered(Capture[File][Version].times)
  BY DEF ReadCapture, manifestVars
<1>2. File \in Captures /\ Path \in Paths /\ File = Normal[Path] /\ Path' = Path
  <2>1. current \in Indices
    BY <1>1 DEF DInv, DataTypeOK
  <2>2. QED
    BY <1>1, <2>1, RowType DEF File, Row, IInv, ManifestTypeOK, Path
<1>3. Version \in Versions /\ (loaded[Path] # -1 => Version = loaded[Path])
  <2>1. file[File] \in Versions /\ loaded[Path] \in Versions \cup {-1}
    BY <1>2 DEF IInv, ManifestTypeOK, DInv, DataTypeOK
  <2>2. QED
    BY <2>1, ManifestsAssumption DEF Versions, Version
<1>4. loaded'[Path] = Version
  BY <1>1, <1>2 DEF DInv, DataTypeOK
<1>5. step' = "windows" => InUse(Path)'
  BY <1>1, <1>2, <1>3, <1>4 DEF InUse, Versions, Read
<1>6. \A p \in Paths : loaded[p] # -1 => loaded'[p] = loaded[p]
  BY <1>1, <1>2, <1>3 DEF DInv, DataTypeOK
<1>7. QED
  BY <1>1, <1>5, <1>6, DetailFrame

\* The pass that ends is described.
LEMMA DetailEnd ==
  ASSUME IInv, DInv, TallyInv, DetailInv, EndOfInterval PROVE DetailInv'
<1> DEFINE entry == [row |-> current, pass |-> pass, tally |-> tally, profile |-> Profile]
<1>1. /\ step = "windows" /\ UNCHANGED <<rows, kind, windows, features, loaded, current>>
      /\ tallies' = IF kind = "analysis" THEN Append(tallies, entry) ELSE tallies
  BY DEF EndOfInterval, manifestVars
<1>2. current \in Indices /\ InUse(Path) /\ loaded[Path] # -1
  BY <1>1 DEF DInv, DataTypeOK, DetailInv, Ahead
<1>3. InUse(Path)'
  BY <1>1, <1>2 DEF InUse, File, Row, Path, Read
<1>4. kind = "analysis" => Described(entry)
  <2> SUFFICES ASSUME kind = "analysis" PROVE Described(entry)
    OBVIOUS
  <2>1. at = Row.start + tally.scheduled * Seconds /\ tally.scheduled \in 0 .. Len(windows)
    BY <1>1 DEF TallyInv, Cutting
  <2>2. Row.start \in Int /\ Row.end \in Int /\ Seconds \in Int /\ tally.scheduled \in Int
    <3>1. Durations[kind] \in Seq(Nat \ {0}) /\ pass \in DOMAIN Durations[kind]
      BY <1>1, DatasetAssumption DEF DInv, DataTypeOK, Ahead
    <3>2. Seconds \in Int
      BY <3>1 DEF Seconds
    <3>3. QED
      BY <1>2, <2>1, <3>2, RowType DEF Row, IInv, ManifestTypeOK
  <2>3. Row.end - at = Row.end - Row.start - tally.scheduled * Seconds
    <3>1. tally.scheduled * Seconds \in Int
      BY <2>2
    <3>2. \A a, b, x \in Int : b - (a + x) = b - a - x
      OBVIOUS
    <3>3. QED
      BY <2>1, <2>2, <3>1, <3>2
  <2>4. PacketsIn(Row.start, Row.end) = Chosen(Opened, Row.start, Row.end)
    BY DEF PacketsIn, Chosen, Times, Opened, File, Path
  <2>5. Profile = ProfileOf(Opened, Row, DeviceIp[kind], Row.end - at)
    BY <2>4 DEF Profile, ProfileOf, Extracted, Times, Opened, File, Path
  <2>6. entry.row = current /\ entry.pass = pass /\ entry.tally = tally /\ entry.profile = Profile
    OBVIOUS
  <2> HIDE DEF entry
  <2>7. QED
    BY <1>2, <2>3, <2>5, <2>6 DEF Described, Opened, Row, File, Seconds, Path, Read, CaptureOf
<1> HIDE DEF entry
<1>5. PICK S : tallies \in Seq(S)
  BY DEF TallyInv
<1>6. tallies \in Seq(S \cup {entry})
  BY <1>5
<1>7. \A t \in DOMAIN tallies' :
        Described(tallies'[t]) \/ (t \in DOMAIN tallies /\ tallies'[t] = tallies[t])
  BY <1>1, <1>4, <1>6
<1>8. QED
  BY <1>1, <1>3, <1>7, DetailFrame

\* A window is cut from the capture in use.
LEMMA DetailWindow ==
  ASSUME IInv, DInv, DetailInv, Window PROVE DetailInv'
<1> DEFINE packets == PacketsIn(at, at + Seconds)
           made == [ row |-> current, pass |-> pass, from |-> at, to |-> at + Seconds,
                     packets |-> packets, version |-> loaded[Path] ]
           extracted == Extracted(packets, Seconds)
<1>1. /\ step = "windows" /\ UNCHANGED <<rows, kind, loaded, current, tallies>>
      /\ \/ UNCHANGED <<windows, features>>
         \/ windows' = Append(windows, made) /\ features' = Append(features, extracted)
  BY DEF Window, manifestVars
<1>2. /\ current \in Indices /\ InUse(Path) /\ at \in Int /\ pass \in DOMAIN Durations[kind]
      /\ windows \in Seq(WindowRecord)
  BY <1>1 DEF DInv, DataTypeOK, DetailInv, Ahead
<1>3. InUse(Path)'
  BY <1>1, <1>2 DEF InUse, File, Row, Path, Read
<1>4. CutFrom(made, extracted)
  <2>1. packets = Chosen(Opened, at, at + Seconds)
    BY DEF PacketsIn, Chosen, Times, Opened, File, Path
  <2>2. packets # {} => extracted = extract_features(Packets(Opened, packets, DeviceIp[kind]), Seconds)
    BY DEF Extracted
  <2>3. /\ made.row = current /\ made.pass = pass /\ made.from = at /\ made.to = at + Seconds
        /\ made.packets = packets /\ made.version = loaded[Path]
    OBVIOUS
  <2> HIDE DEF made, packets, extracted
  <2>4. QED
    BY <1>2, <2>1, <2>2, <2>3 DEF CutFrom, Opened, File, Row, Seconds, Path, Read, CaptureOf
<1> HIDE DEF made, extracted
<1>5. CASE UNCHANGED <<windows, features>>
  <2>1. \A p \in Paths : loaded[p] # -1 => loaded'[p] = loaded[p]
    BY <1>1
  <2>2. \A t \in DOMAIN tallies' : t \in DOMAIN tallies /\ tallies'[t] = tallies[t]
    BY <1>1
  <2>3. QED
    BY <1>1, <1>3, <1>5, <2>1, <2>2, DetailFrame
<1>6. CASE windows' = Append(windows, made) /\ features' = Append(features, extracted)
  <2>1. PICK S : features \in Seq(S)
    BY DEF DetailInv
  <2>2. Len(features) = Len(windows)
    BY DEF DetailInv
  <2>3. /\ Len(windows) \in Nat /\ Len(windows') = Len(windows) + 1
        /\ \A w \in 1 .. Len(windows) : windows'[w] = windows[w]
        /\ windows'[Len(windows) + 1] = made
    BY <1>2, <1>6, Appended
  <2>4. /\ Len(features') = Len(windows) + 1
        /\ \A w \in 1 .. Len(windows) : features'[w] = features[w]
        /\ features'[Len(windows) + 1] = extracted
    BY <1>6, <2>1, <2>2, Appended
  <2>5. features' \in Seq(S \cup {extracted})
    <3>1. features \in Seq(S \cup {extracted})
      BY <2>1
    <3>2. QED
      BY <1>6, <3>1
  <2>6. ASSUME NEW w, NEW f, CutFrom(w, f) PROVE CutFrom(w, f)'
    BY <1>1, <2>6 DEF CutFrom, InUse, Indices, Read
  <2>7. ASSUME NEW e, Described(e) PROVE Described(e)'
    BY <1>1, <2>7 DEF Described, InUse, Indices, Read
  <2>8. \A w \in Made' : CutFrom(windows[w], features[w])'
    <3> SUFFICES ASSUME NEW w \in Made' PROVE CutFrom(windows[w], features[w])'
      OBVIOUS
    <3>1. CutFrom(windows'[w], features'[w])
      <4>1. w \in 1 .. Len(windows) \/ w = Len(windows) + 1
        BY <2>3 DEF Made
      <4>2. CASE w \in 1 .. Len(windows)
        BY <2>3, <2>4, <4>2 DEF DetailInv, Made
      <4>3. CASE w = Len(windows) + 1
        BY <1>4, <2>3, <2>4, <4>3
      <4>4. QED
        BY <4>1, <4>2, <4>3
    <3>2. QED
      BY <2>6, <3>1
  <2>9. \A t \in DOMAIN tallies' : Described(tallies[t])'
    <3> SUFFICES ASSUME NEW t \in DOMAIN tallies' PROVE Described(tallies[t])'
      OBVIOUS
    <3>1. Described(tallies'[t])
      BY <1>1 DEF DetailInv
    <3>2. QED
      BY <2>7, <3>1
  <2>10. (\E T : features' \in Seq(T)) /\ Len(features') = Len(windows')
    BY <2>3, <2>4, <2>5
  <2>11. QED
    BY <1>3, <2>8, <2>9, <2>10 DEF DetailInv
<1>7. QED
  BY <1>1, <1>5, <1>6

\* Every step preserves what is known of features and profiles.
LEMMA DetailStep == IInv /\ DInv /\ TallyInv /\ DetailInv /\ [DataNext]_vars => DetailInv'
  BY DetailSteps, DetailRead, DetailEnd, DetailWindow DEF DataNext

\* Nothing has been extracted in the beginning.
LEMMA DetailInit == DataInit => DetailInv
<1> SUFFICES ASSUME DataInit PROVE DetailInv
  OBVIOUS
<1>1. features = <<>> /\ windows = <<>> /\ tallies = <<>> /\ step = "manifest"
  BY DEF DataInit
<1>2. features \in Seq({}) /\ Made = {} /\ DOMAIN tallies = {}
  BY <1>1 DEF Made
<1>3. QED
  BY <1>1, <1>2 DEF DetailInv

\* The four invariants hold in every behaviour.
LEMMA DetailInvariance == Spec => [](IInv /\ DInv /\ TallyInv /\ DetailInv)
  BY TallyInvariance, DetailInit, DetailStep, PTL DEF Spec

\* A capture make_windows accepts.
ReadWell(capture) ==
  /\ capture.times \in Seq(Int) /\ Ordered(capture.times)
  /\ \A i \in DOMAIN capture.times :
       capture.packets[i].length \in Nat /\ capture.packets[i].transport \in Transports

\* The packets of an interval are finitely many, and there is a first and a last one.
LEMMA ChosenWell ==
  ASSUME NEW capture, ReadWell(capture), NEW from, NEW to
  PROVE  LET selected == Chosen(capture, from, to)
         IN  /\ IsFiniteSet(selected) /\ selected \subseteq Nat
             /\ selected \subseteq DOMAIN capture.times
             /\ WellFormed(capture, selected)
             /\ selected # {} => /\ Min(selected) \in selected /\ Max(selected) \in selected
                                 /\ \A i \in selected : Min(selected) <= i /\ i <= Max(selected)
<1> DEFINE selected == Chosen(capture, from, to)
<1>1. /\ capture.times \in Seq(Int)
      /\ \A i \in DOMAIN capture.times :
           capture.packets[i].length \in Nat /\ capture.packets[i].transport \in Transports
  BY DEF ReadWell
<1>2. selected \subseteq DOMAIN capture.times
  BY DEF Chosen
<1> HIDE DEF selected
<1>3. DOMAIN capture.times = 1 .. Len(capture.times) /\ Len(capture.times) \in Nat
  BY <1>1
<1>4. IsFiniteSet(selected) /\ selected \subseteq Nat /\ selected \subseteq Int
  <2>1. IsFiniteSet(1 .. Len(capture.times))
    BY <1>3, FS_Interval
  <2>2. QED
    BY <1>2, <1>3, <2>1, FS_Subset
<1>5. WellFormed(capture, selected)
  BY <1>1, <1>2, <1>3 DEF WellFormed
<1>6. selected # {} => /\ Min(selected) \in selected /\ Max(selected) \in selected
                       /\ \A i \in selected : Min(selected) <= i /\ Max(selected) >= i
  BY <1>4, MinOf, MaxOf
<1>7. \A i \in selected : Max(selected) >= i => i <= Max(selected)
  OBVIOUS
<1>8. QED
  BY <1>2, <1>4, <1>5, <1>6, <1>7 DEF selected

\* What the command uses has passed make_windows' test.
LEMMA UsedIsWell ==
  ASSUME NEW path \in Paths, InUse(path) PROVE ReadWell(Read(path))
<1>1. Normal[path] \in Captures
  BY ManifestsAssumption
<1>2. QED
  BY <1>1, DatasetAssumption DEF InUse, Read, ReadWell

\* A feature vector agrees with itself and with its window: directions and transports
\* partition packets and bytes, the gaps add up to the time from the first packet to the
\* last and that is shorter than the window, and the order statistics divide the sizes
\* as their names say, for every capture, manifest and window duration (extract_features).
THEOREM FeaturesTrue == Spec => []FeaturesAddUp
<1>1. IInv /\ DInv /\ DetailInv => FeaturesAddUp
  <2> SUFFICES ASSUME IInv, DInv, DetailInv, NEW w \in Made, windows[w].packets # {}
               PROVE  LET f == features[w]
                          times == Capture[CaptureOf(rows[windows[w].row])][windows[w].version].times
                      IN  /\ f.packet_count = Cardinality(windows[w].packets)
                          /\ SumFunction(f.packets) = f.packet_count
                          /\ SumFunction(f.bytes) = f.total_ip_bytes
                          /\ SumFunction(f.transport) = f.packet_count
                          /\ f.iat.mean[1] = times[Max(windows[w].packets)] - times[Min(windows[w].packets)]
                          /\ f.iat.mean[1] < f.duration
                          /\ WellSummarised(LengthsOf(windows[w]), f.ip_size)
    BY DEF FeaturesAddUp
  <2> DEFINE path == rows[windows[w].row].capture_file
             capture == Read(path)
             seconds == Durations[kind][windows[w].pass]
             selected == windows[w].packets
             lengths == LengthsAt(capture, selected)
             f == features[w]
             times == capture.times
             newest == Max(selected)
             oldest == Min(selected)
  <2>1. /\ windows[w].row \in Indices /\ windows[w].pass \in DOMAIN Durations[kind]
        /\ windows[w].version = loaded[path] /\ InUse(path)
        /\ windows[w].from \in Int /\ windows[w].to = windows[w].from + seconds
        /\ selected = Chosen(capture, windows[w].from, windows[w].to)
        /\ f = extract_features(Packets(capture, selected, DeviceIp[kind]), seconds)
    BY DEF DetailInv, CutFrom
  <2>2. path \in Paths
    BY <2>1, RowType DEF IInv, ManifestTypeOK
  <2>3. ReadWell(capture)
    BY <2>1, <2>2, UsedIsWell
  <2>4. /\ times \in Seq(Int) /\ IsFiniteSet(selected) /\ selected \subseteq DOMAIN times
        /\ WellFormed(capture, selected)
        /\ newest \in selected /\ oldest \in selected
    <3> HIDE DEF path, selected
    <3>1. /\ times \in Seq(Int)
          /\ IsFiniteSet(Chosen(capture, windows[w].from, windows[w].to))
          /\ Chosen(capture, windows[w].from, windows[w].to) \subseteq DOMAIN times
          /\ WellFormed(capture, Chosen(capture, windows[w].from, windows[w].to))
      BY <2>1, <2>3, ChosenWell DEF ReadWell
    <3>2. selected # {}
      BY DEF selected
    <3>3. newest \in selected /\ oldest \in selected
      BY <2>1, <2>3, <3>2, ChosenWell
    <3>4. QED
      BY <2>1, <3>1, <3>3
  <2>5. LengthsOf(windows[w]) = lengths
    BY <2>1 DEF LengthsOf, LengthsAt, Read, CaptureOf
  <2>6. times[newest] \in Int /\ times[oldest] \in Int
    <3> HIDE DEF times, newest, oldest, selected
    <3>1. QED
      BY <2>4
  <2>7. windows[w].from <= times[oldest] /\ times[newest] < windows[w].from + seconds
    <3>1. \A i \in selected : windows[w].from <= times[i] /\ times[i] < windows[w].to
      BY <2>1 DEF Chosen
    <3> HIDE DEF selected, times, newest, oldest
    <3>2. QED
      BY <2>1, <2>4, <3>1
  <2>8. seconds \in Int
    <3>1. kind # "validate" /\ kind \in Kinds
      <4>1. windows # <<>>
        BY DEF Made
      <4>2. QED
        BY <4>1 DEF DInv, DataTypeOK
    <3>2. Durations[kind] \in Seq(Nat \ {0})
      BY <3>1, DatasetAssumption
    <3>3. windows[w].pass \in DOMAIN Durations[kind]
      BY <2>1
    <3>4. QED
      BY ONLY <3>2, <3>3
  <2> HIDE DEF selected, capture, seconds, f, lengths, path
  <2>9. times[newest] - times[oldest] < seconds
    <3> HIDE DEF times, newest, oldest
    <3>1. QED
      BY <2>1, <2>6, <2>7, <2>8
  <2>10. /\ f.duration = seconds /\ f.packet_count = Cardinality(selected)
        /\ SumFunction(f.packets) = f.packet_count
        /\ SumFunction(f.bytes) = f.total_ip_bytes
        /\ SumFunction(f.transport) = f.packet_count
        /\ f.iat.mean[1] = times[newest] - times[oldest]
        /\ f.ip_size = Summary(lengths)
    <3>1. selected # {}
      BY DEF selected
    <3>2. QED
      BY <2>1, <2>4, <3>1, FeaturesOf DEF lengths
  <2>11. WellSummarised(lengths, Summary(lengths))
    <3>1. DOMAIN lengths = selected /\ \A i \in DOMAIN lengths : lengths[i] \in Int
      BY <2>4 DEF lengths, LengthsAt, WellFormed
    <3>2. QED
      BY <2>4, <3>1, Summarised
  <2>12. QED
    BY <2>1, <2>5, <2>9, <2>10, <2>11 DEF f, selected, capture, path, Read, CaptureOf
<1>2. QED
  BY <1>1, DetailInvariance, PTL
-----------------------------------------------------------------------------
(***************************************************************************)
(* The windows of a finished pass add up to its profile.                   *)
(*                                                                         *)
(* The windows are consecutive and of one length, so each packet of the    *)
(* interval they cover is in exactly one of them, and any sum over these   *)
(* packets can be taken window by window (SumByWindow).  What the profile  *)
(* has beyond that is the discarded tail.  The windows before the first    *)
(* packet are those that end before it: the quotient of its offset and the *)
(* window duration, or all of them.                                        *)
(***************************************************************************)

\* Multiples are in the order of their factors.
LEMMA TimesMonotonic ==
  ASSUME NEW a \in Int, NEW b \in Int, NEW s \in Nat, a <= b
  PROVE  a * s \in Int /\ b * s \in Int /\ a * s <= b * s
<1>1. a * s \in Int /\ b * s \in Int /\ (b - a) * s \in Nat
  OBVIOUS
<1>2. b * s = a * s + (b - a) * s
  OBVIOUS
<1>3. QED
  BY <1>1, <1>2

\* d is in the q-th interval of length s.
FallsInto(d, s, q) == q * s <= d /\ d < q * s + s

\* A number is in the interval its quotient counts.
LEMMA Quotient ==
  ASSUME NEW d \in Nat, NEW s \in Nat, 0 < s
  PROVE  d \div s \in Nat /\ FallsInto(d, s, d \div s)
<1> DEFINE q == d \div s
<1>1. q \in Int /\ q * s <= d /\ d < q * s + s
  OBVIOUS
<1> HIDE DEF q
<1>2. q >= 0
  <2>1. ASSUME q < 0 PROVE FALSE
    <3>1. (q + 1) * s <= 0 * s /\ (q + 1) * s \in Int
      BY <1>1, <2>1, TimesMonotonic
    <3>2. (q + 1) * s = q * s + s
      BY <1>1
    <3>3. QED
      BY <1>1, <3>1, <3>2
  <2>2. QED
    BY <1>1, <2>1
<1>3. QED
  BY <1>1, <1>2 DEF q, FallsInto

\* The interval a time falls into, of consecutive ones of one length.
LEMMA OneInterval ==
  ASSUME NEW d \in Nat, NEW s \in Nat, NEW q \in Nat, q * s <= d, d < q * s + s, NEW k \in Nat
  PROVE  /\ k * s \in Nat
         /\ k * s <= d /\ d < k * s + s <=> k = q
         /\ k * s + s <= d <=> k < q
         /\ d < k * s <=> q < k
<1>1. k * s \in Nat /\ q * s \in Nat
  OBVIOUS
<1>2. ASSUME k < q PROVE k * s + s <= d
  <2>1. (k + 1) * s <= q * s
    BY <1>2, TimesMonotonic
  <2>2. (k + 1) * s = k * s + s
    OBVIOUS
  <2>3. QED
    BY <1>1, <2>1, <2>2
<1>3. ASSUME q < k PROVE d < k * s
  <2>1. (q + 1) * s <= k * s
    BY <1>3, TimesMonotonic
  <2>2. (q + 1) * s = q * s + s
    OBVIOUS
  <2>3. QED
    BY <1>1, <2>1, <2>2
<1>4. k < q \/ k = q \/ q < k
  OBVIOUS
<1>5. CASE k < q
  BY <1>1, <1>2, <1>5
<1>6. CASE k = q
  BY <1>1, <1>6
<1>7. CASE q < k
  BY <1>1, <1>3, <1>7
<1>8. QED
  BY <1>4, <1>5, <1>6, <1>7

\* Consecutive windows that start together with an interval: each has the packets of its time.
Cuts(capture, packets, start, seconds, first, size) ==
  /\ ReadWell(capture)
  /\ start \in Int /\ seconds \in Nat /\ 0 < seconds /\ first \in Nat \ {0} /\ size \in Nat
  /\ \A w \in first .. first + size - 1 :
       packets[w] = Chosen(capture, start + (w - first) * seconds,
                           start + (w - first) * seconds + seconds)

\* The packets of the complete windows, and the windows that have any.
Body(capture, start, seconds, size) == Chosen(capture, start, start + size * seconds)
Busy(packets, first, size) == {w \in first .. first + size - 1 : packets[w] # {}}

\* A packet of the stretch the windows cover is in one of their intervals.
LEMMA SomeWindow ==
  ASSUME NEW capture, capture.times \in Seq(Int), NEW start \in Int, NEW seconds \in Nat, NEW size \in Nat,
         NEW i \in Body(capture, start, seconds, size),
         NEW k \in Nat, FallsInto(capture.times[i] - start, seconds, k)
  PROVE  k < size /\ capture.times[i] \in Int /\ capture.times[i] - start \in Nat
<1> DEFINE time == capture.times[i]
           d == time - start
<1>1. /\ i \in DOMAIN capture.times /\ start <= time /\ time < start + size * seconds
      /\ k * seconds <= d /\ d < k * seconds + seconds
  BY DEF Body, Chosen, FallsInto
<1>2. time \in Int
  BY <1>1
<1> HIDE DEF time
<1>3. d \in Nat /\ size * seconds \in Nat /\ d < size * seconds
  <2>1. size * seconds \in Nat
    OBVIOUS
  <2>2. QED
    BY <1>1, <1>2, <2>1
<1>4. k < size
  <2> HIDE DEF d
  <2>1. d < size * seconds <=> k < size
    BY <1>1, <1>3, OneInterval
  <2>2. QED
    BY <1>3, <2>1
<1>5. QED
  BY <1>2, <1>3, <1>4 DEF time

\* It is in the window of its interval and in no other.
LEMMA OneWindow ==
  ASSUME NEW capture, NEW packets, NEW start, NEW seconds, NEW first, NEW size,
         Cuts(capture, packets, start, seconds, first, size),
         NEW i \in Body(capture, start, seconds, size),
         NEW k \in Nat, FallsInto(capture.times[i] - start, seconds, k),
         NEW m, m = first + k, NEW w \in first .. first + size - 1
  PROVE  i \in packets[w] <=> w = m
<1> DEFINE time == capture.times[i]
           d == time - start
           j == w - first
<1>0. /\ capture.times \in Seq(Int) /\ Ordered(capture.times)
      /\ start \in Int /\ seconds \in Nat /\ 0 < seconds /\ first \in Nat \ {0} /\ size \in Nat
  BY DEF Cuts, ReadWell
<1>1. /\ i \in DOMAIN capture.times /\ k * seconds <= d /\ d < k * seconds + seconds
      /\ time \in Int /\ d \in Nat
  BY <1>0, SomeWindow DEF Body, Chosen, FallsInto
<1>2. j \in Nat /\ w = first + j
  BY <1>0
<1>3. i \in packets[w] <=> start + j * seconds <= time /\ time < start + j * seconds + seconds
  BY <1>1 DEF Cuts, Chosen
<1> HIDE DEF j, time
<1>4. j * seconds \in Nat /\ (j * seconds <= d /\ d < j * seconds + seconds <=> j = k)
  <2> HIDE DEF d
  <2>1. QED
    BY <1>0, <1>1, <1>2, OneInterval
<1>5. j * seconds <= d /\ d < j * seconds + seconds <=>
        start + j * seconds <= time /\ time < start + j * seconds + seconds
  <2>1. \A x, s, t, u \in Int : x <= t - u /\ t - u < x + s <=> u + x <= t /\ t < u + x + s
    OBVIOUS
  <2>2. j * seconds \in Int /\ seconds \in Int /\ start \in Int
    BY <1>0, <1>4
  <2>3. QED
    BY <1>1, <2>1, <2>2
<1>6. QED
  BY <1>0, <1>2, <1>3, <1>4, <1>5

\* A figure of each window that is the sum of f over those of its packets that are in R.
FigureOf(figure, active, packets, R, f) ==
  /\ \A i \in R : f[i] \in Int
  /\ \A w \in active : figure[w] = SumFunctionOnSet(f, packets[w] \cap R)

\* Such figures of the windows add up to the sum over R.
LEMMA SumByWindow ==
  ASSUME NEW capture, NEW packets, NEW start, NEW seconds, NEW first, NEW size,
         Cuts(capture, packets, start, seconds, first, size),
         NEW active, active = Busy(packets, first, size),
         NEW R, IsFiniteSet(R), R \subseteq Body(capture, start, seconds, size),
         NEW f, NEW figure, FigureOf(figure, active, packets, R, f)
  PROVE  SumFunctionOnSet(figure, active) = SumFunctionOnSet(f, R)
<1> DEFINE class == [i \in R |-> first + ((capture.times[i] - start) \div seconds)]
<1>0. /\ capture.times \in Seq(Int) /\ Ordered(capture.times)
      /\ start \in Int /\ seconds \in Nat /\ 0 < seconds /\ first \in Nat \ {0} /\ size \in Nat
  BY DEF Cuts, ReadWell
<1>1. ASSUME NEW i \in R
      PROVE  /\ class[i] \in first .. first + size - 1
             /\ \A w \in first .. first + size - 1 : i \in packets[w] <=> w = class[i]
  <2>1. i \in Body(capture, start, seconds, size)
    OBVIOUS
  <2>2. capture.times[i] - start \in Nat
    <3>1. i \in DOMAIN capture.times /\ start <= capture.times[i]
      BY <2>1 DEF Body, Chosen
    <3>2. QED
      BY <1>0, <3>1
  <2> DEFINE d == capture.times[i] - start
             k == d \div seconds
  <2>3. k \in Nat /\ FallsInto(d, seconds, k)
    <3>1. d \in Nat
      BY <2>2
    <3> HIDE DEF d
    <3>2. QED
      BY <1>0, <3>1, Quotient
  <2>4. class[i] = first + k
    OBVIOUS
  <2> HIDE DEF class, k
  <2>5. k \in 0 .. size - 1 /\ \A w \in first .. first + size - 1 : i \in packets[w] <=> w = first + k
    <3> HIDE DEF d
    <3>1. FallsInto(capture.times[i] - start, seconds, k)
      BY <2>3 DEF d
    <3>2. k < size
      BY ONLY <1>0, <2>1, <2>3, <3>1, SomeWindow
    <3>3. k \in 0 .. size - 1
      BY <1>0, <2>3, <3>2
    <3> DEFINE m == first + k
    <3>4. ASSUME NEW w \in first .. first + size - 1 PROVE i \in packets[w] <=> w = m
      <4>1. m = first + k
        OBVIOUS
      <4> HIDE DEF m
      <4>2. QED
        BY <2>1, <2>3, <3>1, <4>1, OneWindow
    <3>5. QED
      BY <3>3, <3>4
  <2>6. QED
    BY <1>0, <2>4, <2>5
<1>2. IsFiniteSet(active) /\ active = {w \in first .. first + size - 1 : packets[w] # {}}
  <2>1. first \in Int /\ first + size - 1 \in Int
    BY <1>0
  <2>2. IsFiniteSet(first .. first + size - 1)
    BY <2>1, FS_Interval
  <2>3. active = {w \in first .. first + size - 1 : packets[w] # {}}
    BY DEF Busy
  <2>4. QED
    BY <2>2, <2>3, FS_Subset
<1> HIDE DEF class
<1>3. /\ \A i \in R : class[i] \in active /\ f[i] \in Int
      /\ \A w \in active : figure[w] = SumFunctionOnSet(f, packets[w] \cap R)
  BY <1>1, <1>2 DEF FigureOf
<1>4. \A w \in active : packets[w] \cap R = {i \in R : class[i] = w}
  BY <1>1, <1>2
<1>5. SumFunctionOnSet([w \in active |-> SumFunctionOnSet(f, {i \in R : class[i] = w})], active) =
        SumFunctionOnSet(f, R)
  BY ONLY <1>2, <1>3, IsFiniteSet(R), SumByClass
<1> DEFINE sum == [w \in active |-> SumFunctionOnSet(f, {i \in R : class[i] = w})]
<1>6. \A w \in active : sum[w] \in Int /\ figure[w] = sum[w]
  <2>1. ASSUME NEW w \in active PROVE SumFunctionOnSet(f, {i \in R : class[i] = w}) \in Int
    <3>1. IsFiniteSet({i \in R : class[i] = w})
      BY FS_Subset
    <3>2. \A i \in {i \in R : class[i] = w} : f[i] \in Int
      BY <1>3
    <3>3. QED
      BY <3>1, <3>2, SumOfRest
  <2>2. QED
    BY <1>3, <1>4, <2>1
<1> HIDE DEF sum
<1>7. SumFunctionOnSet(sum, active) = SumFunctionOnSet(figure, active)
  BY <1>2, <1>6, SumsEqual
<1>8. QED
  BY <1>5, <1>7 DEF sum

\* The first packet of an interval of time, and the windows before it.
First(capture, start, end, oldest) ==
  oldest \in Chosen(capture, start, end) /\ \A i \in Chosen(capture, start, end) : oldest <= i
QuietBefore(packets, first, size, q) ==
  /\ \A k \in 0 .. size - 1 : k < q => packets[first + k] = {}
  /\ q < size => packets[first + q] # {}

\* The windows before the first packet are empty, the next one is not.
LEMMA QuietUntil ==
  ASSUME NEW capture, NEW packets, NEW start, NEW seconds, NEW first, NEW size,
         Cuts(capture, packets, start, seconds, first, size),
         NEW end \in Int, start + size * seconds <= end, NEW oldest, First(capture, start, end, oldest),
         NEW q \in Nat, FallsInto(capture.times[oldest] - start, seconds, q)
  PROVE  QuietBefore(packets, first, size, q)
<1>0. /\ capture.times \in Seq(Int) /\ Ordered(capture.times)
      /\ start \in Int /\ seconds \in Nat /\ 0 < seconds /\ first \in Nat \ {0} /\ size \in Nat
  BY DEF Cuts, ReadWell
<1> USE <1>0
<1> DEFINE times == capture.times
           time == times[oldest]
           d == time - start
<1>1. /\ oldest \in DOMAIN times /\ start <= time /\ time < end
      /\ q * seconds <= d /\ d < q * seconds + seconds
  BY DEF First, Chosen, FallsInto
<1>2. time \in Int
  BY <1>1
<1> HIDE DEF time
<1>3. d \in Nat
  <2>1. start <= time
    BY <1>1
  <2>2. QED
    BY ONLY <1>2, <2>1, start \in Int
<1>4. ASSUME NEW k \in Nat PROVE k * seconds \in Nat /\ (k * seconds + seconds <= d <=> k < q)
  <2> HIDE DEF d
  <2>1. QED
    BY <1>1, <1>3, OneInterval
<1>5. ASSUME NEW k \in 0 .. size - 1
      PROVE  /\ packets[first + k] = Chosen(capture, start + k * seconds, start + k * seconds + seconds)
             /\ k * seconds + seconds <= size * seconds /\ size * seconds \in Int
  <2>1. first + k \in first .. first + size - 1 /\ (first + k) - first = k
    OBVIOUS
  <2>2. (k + 1) * seconds <= size * seconds /\ size * seconds \in Int
    BY TimesMonotonic
  <2>3. (k + 1) * seconds = k * seconds + seconds
    OBVIOUS
  <2>4. QED
    BY <2>1, <2>2, <2>3 DEF Cuts
<1>6. ASSUME NEW k \in 0 .. size - 1, k < q PROVE packets[first + k] = {}
  <2>1. SUFFICES ASSUME NEW i \in packets[first + k] PROVE FALSE
    OBVIOUS
  <2>2. i \in DOMAIN times /\ start + k * seconds <= times[i] /\ times[i] < start + k * seconds + seconds
    BY <1>5, <2>1 DEF Chosen
  <2>3. times[i] \in Int /\ i \in Int /\ oldest \in Int
    <3>1. DOMAIN times \subseteq Int /\ \A j \in DOMAIN times : times[j] \in Int
      BY ONLY <1>0
    <3>2. i \in DOMAIN times /\ oldest \in DOMAIN times
      BY <1>1, <2>2
    <3>3. QED
      BY ONLY <3>1, <3>2
  <2> HIDE DEF times
  <2>4. k * seconds + seconds <= d /\ k * seconds \in Nat
    BY <1>4, <1>6
  <2>5. times[i] < time
    BY <1>2, <2>2, <2>3, <2>4
  <2>6. start <= times[i] /\ times[i] < end
    <3>1. \A x \in Nat : start + x <= times[i] => start <= times[i]
      BY <2>3
    <3>2. start <= times[i]
      BY <2>2, <2>4, <3>1
    <3>3. QED
      BY <1>1, <1>2, <2>3, <2>5, <3>2
  <2>7. oldest <= i
    BY <2>2, <2>6 DEF First, Chosen, times
  <2>8. time <= times[i]
    <3>1. oldest = i \/ oldest < i
      BY <2>3, <2>7
    <3>2. oldest < i => times[oldest] <= times[i]
      BY <1>1, <2>2 DEF Ordered, times
    <3>3. QED
      BY <1>2, <2>3, <3>1, <3>2 DEF time
  <2>9. QED
    BY <1>2, <2>3, <2>5, <2>8
<1>7. ASSUME q < size PROVE packets[first + q] # {}
  <2>1. q \in 0 .. size - 1 /\ q * seconds \in Nat
    BY <1>4, <1>7
  <2>2. start + q * seconds <= time /\ time < start + q * seconds + seconds
    <3> DEFINE before == q * seconds
    <3>1. before \in Int /\ before <= time - start /\ time - start < before + seconds
      BY ONLY <1>1, <2>1
    <3> HIDE DEF before
    <3>2. start + before <= time /\ time < start + before + seconds
      BY ONLY <1>2, <3>1, start \in Int, seconds \in Nat
    <3>3. QED
      BY ONLY <3>2 DEF before
  <2>3. oldest \in packets[first + q]
    BY <1>1, <1>5, <2>1, <2>2 DEF Chosen, time
  <2>4. QED
    BY <2>3
<1>8. QED
  BY <1>6, <1>7 DEF QuietBefore

\* The packets of a window are among those of the interval.
LEMMA InsideInterval ==
  ASSUME NEW capture, NEW packets, NEW start, NEW seconds, NEW first, NEW size,
         Cuts(capture, packets, start, seconds, first, size),
         NEW w \in first .. first + size - 1
  PROVE  /\ packets[w] \subseteq Chosen(capture, start, start + size * seconds)
         /\ IsFiniteSet(packets[w]) /\ WellFormed(capture, packets[w])
<1>0. /\ capture.times \in Seq(Int) /\ ReadWell(capture)
      /\ start \in Int /\ seconds \in Nat /\ 0 < seconds /\ first \in Nat \ {0} /\ size \in Nat
  BY DEF Cuts, ReadWell
<1> USE <1>0
<1> DEFINE j == w - first
           from == start + j * seconds
<1>1. packets[w] = Chosen(capture, from, from + seconds)
  BY DEF Cuts
<1>2. j \in Nat /\ j + 1 <= size
  OBVIOUS
<1> HIDE DEF j
<1>3. j * seconds \in Nat /\ j * seconds + seconds <= size * seconds /\ size * seconds \in Int
  <2>1. (j + 1) * seconds <= size * seconds /\ size * seconds \in Int
    BY <1>2, TimesMonotonic
  <2>2. (j + 1) * seconds = j * seconds + seconds /\ j * seconds \in Nat
    BY <1>2
  <2>3. QED
    BY <2>1, <2>2
<1>4. start <= from /\ from + seconds <= start + size * seconds /\ from \in Int
  <2> DEFINE before == j * seconds
             all == size * seconds
  <2>1. before \in Nat /\ all \in Int /\ before + seconds <= all
    BY ONLY <1>3
  <2> HIDE DEF before, all
  <2>2. start <= start + before /\ (start + before) + seconds <= start + all /\ start + before \in Int
    BY ONLY <2>1, start \in Int, seconds \in Nat
  <2>3. QED
    BY ONLY <2>2 DEF before, all
<1> HIDE DEF from
<1>5. \A i \in DOMAIN capture.times : capture.times[i] \in Int
  BY DEF ReadWell
<1>6. Chosen(capture, from, from + seconds) \subseteq Chosen(capture, start, start + size * seconds)
  <2> DEFINE to == from + seconds
             end == start + size * seconds
  <2>1. to \in Int /\ end \in Int /\ from \in Int /\ start <= from /\ to <= end
    BY <1>3, <1>4
  <2> HIDE DEF to, end
  <2>2. \A i \in Chosen(capture, from, to) : i \in Chosen(capture, start, end)
    BY ONLY <1>5, <2>1, start \in Int DEF Chosen
  <2>3. QED
    BY <2>2 DEF to, end
<1>7. QED
  BY <1>1, <1>6, ChosenWell

\* An interval is what the complete windows have and what is discarded.
LEMMA BodyAndTail ==
  ASSUME NEW capture, ReadWell(capture), NEW start \in Int, NEW middle \in Int, NEW end \in Int,
         start <= middle, middle <= end
  PROVE  /\ Chosen(capture, start, end) =
              Chosen(capture, start, middle) \cup Chosen(capture, middle, end)
         /\ Chosen(capture, start, middle) \cap Chosen(capture, middle, end) = {}
<1>1. \A i \in DOMAIN capture.times : capture.times[i] \in Int
  BY DEF ReadWell
<1>2. QED
  BY <1>1 DEF Chosen

\* The features of every window that has packets.
Extracts(capture, packets, feats, device_ip, seconds, first, size) ==
  \A w \in first .. first + size - 1 :
    packets[w] # {} =>
      feats[w] = extract_features(Packets(capture, packets[w], device_ip), seconds)

\* The windows from first on divide a stretch of a capture from start on.
Divided(capture, packets, feats, device_ip, start, seconds, first, size) ==
  /\ Cuts(capture, packets, start, seconds, first, size)
  /\ Extracts(capture, packets, feats, device_ip, seconds, first, size)

\* What the windows have together.
PacketSum(feats, active) == SumFunction([w \in active |-> feats[w].packet_count])
ByteSum(feats, active) == SumFunction([w \in active |-> feats[w].total_ip_bytes])
DirectionSum(feats, active, d) == SumFunction([w \in active |-> feats[w].bytes[d]])

\* The bytes of some packets, and the packets that go in a direction.
BytesAt(capture, selected) == SumFunctionOnSet(LengthsAt(capture, selected), selected)
BytesGoing(capture, selected, device_ip, d) ==
  SumFunctionOnSet(LengthsAt(capture, selected),
                   {i \in selected : DirectionAt(capture, device_ip, i) = d})

\* The windows add up to the interval they cut: packets, bytes and the bytes of a direction.
LEMMA WindowsAddUp ==
  ASSUME NEW capture, NEW packets, NEW feats, NEW device_ip, NEW start, NEW seconds, NEW first, NEW size,
         Divided(capture, packets, feats, device_ip, start, seconds, first, size)
  PROVE  LET body == Body(capture, start, seconds, size)
             active == Busy(packets, first, size)
         IN  /\ PacketSum(feats, active) = Cardinality(body)
             /\ ByteSum(feats, active) = BytesAt(capture, body)
             /\ \A d \in Directions :
                  DirectionSum(feats, active, d) = BytesGoing(capture, body, device_ip, d)
<1> DEFINE active == Busy(packets, first, size)
           body == Body(capture, start, seconds, size)
           lengths == LengthsAt(capture, body)
           one == [i \in body |-> 1]
           count == [w \in active |-> feats[w].packet_count]
           bytes == [w \in active |-> feats[w].total_ip_bytes]
           of(d) == {i \in body : DirectionAt(capture, device_ip, i) = d}
           part(d) == [w \in active |-> feats[w].bytes[d]]
<1>0. /\ ReadWell(capture)
      /\ start \in Int /\ seconds \in Nat /\ 0 < seconds /\ first \in Nat \ {0} /\ size \in Nat
      /\ Cuts(capture, packets, start, seconds, first, size)
      /\ Extracts(capture, packets, feats, device_ip, seconds, first, size)
  BY DEF Divided, Cuts
<1>1. /\ IsFiniteSet(body) /\ capture.times \in Seq(Int) /\ WellFormed(capture, body)
      /\ \A d : of(d) \subseteq body /\ IsFiniteSet(of(d))
  <2>1. IsFiniteSet(body) /\ WellFormed(capture, body)
    BY <1>0, ChosenWell DEF Body
  <2>2. \A d : of(d) \subseteq body
    OBVIOUS
  <2> HIDE DEF body, of
  <2>3. \A d : IsFiniteSet(of(d))
    BY <2>1, <2>2, FS_Subset
  <2>4. QED
    BY <1>0, <2>1, <2>2, <2>3 DEF ReadWell
<1>2. \A i \in body : one[i] = 1 /\ one[i] \in Int /\ lengths[i] \in Int
  BY <1>1 DEF LengthsAt, WellFormed
<1>3. ASSUME NEW w \in active
      PROVE  /\ packets[w] \subseteq body /\ IsFiniteSet(packets[w])
             /\ feats[w].packet_count = Cardinality(packets[w])
             /\ feats[w].total_ip_bytes = SumFunctionOnSet(LengthsAt(capture, packets[w]), packets[w])
             /\ \A d \in Directions : feats[w].bytes[d] =
                  SumFunctionOnSet(LengthsAt(capture, packets[w]),
                    {i \in packets[w] : DirectionAt(capture, device_ip, i) = d})
  <2>1. w \in first .. first + size - 1 /\ packets[w] # {}
    BY DEF Busy
  <2>2. packets[w] \subseteq body /\ IsFiniteSet(packets[w]) /\ WellFormed(capture, packets[w])
    BY <1>0, <2>1, InsideInterval DEF Body
  <2>3. feats[w] = extract_features(Packets(capture, packets[w], device_ip), seconds)
    BY <1>0, <2>1 DEF Extracts
  <2> HIDE DEF body
  <2>4. QED
    BY <2>1, <2>2, <2>3, FeaturesOf
<1> HIDE DEF body
<1>4. ASSUME NEW w \in active, NEW P \in SUBSET packets[w]
      PROVE  SumFunctionOnSet(LengthsAt(capture, packets[w]), P) = SumFunctionOnSet(lengths, P)
  <2>1. P \subseteq body /\ IsFiniteSet(P)
    BY <1>3, FS_Subset
  <2>2. \A i \in P : lengths[i] \in Int /\ LengthsAt(capture, packets[w])[i] = lengths[i]
    BY <1>2, <1>3, <2>1 DEF LengthsAt
  <2> HIDE DEF lengths
  <2>3. QED
    BY <2>1, <2>2, SumsEqual
<1>5. SumFunction(count) = SumFunctionOnSet(one, body)
  <2>0. /\ capture.times \in Seq(Int) /\ IsFiniteSet(body) /\ body \subseteq Body(capture, start, seconds, size)
    BY <1>1 DEF body
  <2>1. ASSUME NEW w \in active PROVE count[w] = SumFunctionOnSet(one, packets[w] \cap body)
    <3>1. packets[w] \cap body = packets[w] /\ IsFiniteSet(packets[w])
      BY <1>3
    <3>2. \A i \in packets[w] : one[i] = 1
      BY <1>2, <1>3
    <3> HIDE DEF one
    <3>3. SumFunctionOnSet(one, packets[w]) = Cardinality(packets[w])
      BY <3>1, <3>2, SumOfOnes
    <3>4. QED
      BY <1>3, <3>1, <3>3
  <2>2. SumFunction(count) = SumFunctionOnSet(count, active)
    BY DEF SumFunction
  <2>3. FigureOf(count, active, packets, body, one)
    BY <1>2, <2>1 DEF FigureOf
  <2> HIDE DEF count, one
  <2>4. QED
    BY ONLY <2>0, <2>2, <2>3, <1>0, SumByWindow, active = Busy(packets, first, size)
<1>6. SumFunctionOnSet(one, body) = Cardinality(body)
  <2> HIDE DEF one
  <2>1. QED
    BY <1>1, <1>2, SumOfOnes
<1>7. SumFunction(bytes) = SumFunctionOnSet(lengths, body)
  <2>0. /\ capture.times \in Seq(Int) /\ IsFiniteSet(body) /\ body \subseteq Body(capture, start, seconds, size)
    BY <1>1 DEF body
  <2>1. ASSUME NEW w \in active PROVE bytes[w] = SumFunctionOnSet(lengths, packets[w] \cap body)
    <3>1. packets[w] \cap body = packets[w]
      BY <1>3
    <3>2. QED
      BY <1>3, <1>4, <3>1
  <2>2. SumFunction(bytes) = SumFunctionOnSet(bytes, active)
    BY DEF SumFunction
  <2>3. FigureOf(bytes, active, packets, body, lengths)
    BY <1>2, <2>1 DEF FigureOf
  <2> HIDE DEF bytes, lengths
  <2>4. QED
    BY ONLY <2>0, <2>2, <2>3, <1>0, SumByWindow, active = Busy(packets, first, size)
<1>8. ASSUME NEW d \in Directions PROVE SumFunction(part(d)) = SumFunctionOnSet(lengths, of(d))
  <2>1. ASSUME NEW w \in active PROVE part(d)[w] = SumFunctionOnSet(lengths, packets[w] \cap of(d))
    <3>1. packets[w] \cap of(d) = {i \in packets[w] : DirectionAt(capture, device_ip, i) = d}
      BY <1>3
    <3>2. QED
      BY <1>3, <1>4, <3>1
  <2>2. SumFunction(part(d)) = SumFunctionOnSet(part(d), active)
    BY DEF SumFunction
  <2> DEFINE P == part(d)
             R == of(d)
  <2>3. /\ capture.times \in Seq(Int) /\ R \subseteq Body(capture, start, seconds, size)
        /\ IsFiniteSet(R) /\ \A i \in R : lengths[i] \in Int
    BY <1>1, <1>2 DEF body
  <2>4. FigureOf(P, active, packets, R, lengths)
    BY <2>1, <2>3 DEF FigureOf
  <2> HIDE DEF P, R, lengths
  <2>5. SumFunction(P) = SumFunctionOnSet(lengths, R)
    BY ONLY <2>2, <2>3, <2>4, <1>0, SumByWindow, active = Busy(packets, first, size)
       DEF P
  <2>6. QED
    BY <2>5 DEF P, R
<1>9. QED
  BY <1>5, <1>6, <1>7, <1>8 DEF body, PacketSum, ByteSum, DirectionSum, BytesAt, BytesGoing

\* The lesser of two numbers.
LEMMA LesserOfTwo ==
  ASSUME NEW a \in Int, NEW b \in Int
  PROVE  Min({a, b}) = IF a <= b THEN a ELSE b
<1>1. PICK least \in {a, b} : \A y \in {a, b} : least <= y
  OBVIOUS
<1>2. Min({a, b}) \in {a, b} /\ \A y \in {a, b} : Min({a, b}) <= y
  BY <1>1 DEF Min
<1>3. QED
  BY <1>2

\* The windows up to which nothing was seen.
Quiet(packets, first, size) ==
  {w \in first .. first + size - 1 :
     \A v \in first .. first + size - 1 : v <= w => packets[v] = {}}

\* There are as many as precede the first that has packets.
LEMMA QuietCount ==
  ASSUME NEW packets, NEW first \in Nat \ {0}, NEW size \in Nat, NEW q \in Nat,
         QuietBefore(packets, first, size, q)
  PROVE  Cardinality(Quiet(packets, first, size)) = Min({q, size})
<1> DEFINE least == IF q <= size THEN q ELSE size
<1>1. least = Min({q, size}) /\ least \in Nat /\ least <= size /\ least <= q
      /\ (least < q => least = size)
  <2>1. Min({q, size}) = IF q <= size THEN q ELSE size
    BY LesserOfTwo
  <2>2. QED
    BY <2>1
<1> HIDE DEF least
<1>2. ASSUME NEW w \in first .. first + size - 1 PROVE packets[w] = {} \/ q <= w - first
  <2> DEFINE k == w - first
  <2>1. k \in 0 .. size - 1 /\ w = first + k
    OBVIOUS
  <2> HIDE DEF k
  <2>2. k < q => packets[first + k] = {}
    BY <2>1 DEF QuietBefore
  <2>3. QED
    BY <2>1, <2>2
<1>3. Quiet(packets, first, size) = first .. first + least - 1
  <2>1. ASSUME NEW w \in first .. first + least - 1 PROVE w \in Quiet(packets, first, size)
    <3>1. w \in first .. first + size - 1
      BY <1>1
    <3>2. \A v \in first .. first + size - 1 : v <= w => packets[v] = {}
      BY <1>1, <1>2
    <3>3. QED
      BY <3>1, <3>2 DEF Quiet
  <2>2. ASSUME NEW w \in Quiet(packets, first, size) PROVE w \in first .. first + least - 1
    <3>1. w \in first .. first + size - 1
      BY DEF Quiet
    <3>2. \A v \in first .. first + size - 1 : v <= w => packets[v] = {}
      BY DEF Quiet
    <3>3. least = size \/ (least = q /\ q < size)
      BY <1>1
    <3>4. CASE least = size
      BY <3>1, <3>4
    <3>5. CASE least = q /\ q < size
      <4>1. first + q \in first .. first + size - 1 /\ packets[first + q] # {}
        BY <3>5 DEF QuietBefore
      <4>2. ~(first + q <= w)
        BY <3>2, <4>1
      <4>3. QED
        BY <3>1, <3>5, <4>2
    <3>6. QED
      BY <3>3, <3>4, <3>5
  <2>3. QED
    BY <2>1, <2>2
<1>4. Cardinality(first .. first + least - 1) = least
  <2>1. first \in Int /\ first + least - 1 \in Int
    BY <1>1
  <2>2. Cardinality(first .. first + least - 1) =
          IF first > first + least - 1 THEN 0 ELSE (first + least - 1) - first + 1
    BY <2>1, FS_Interval
  <2>3. QED
    BY <1>1, <2>2
<1>5. QED
  BY <1>1, <1>3, <1>4

\* What is discarded at the end of an interval.
Discarded(capture, start, end, seconds, size) == Chosen(capture, start + size * seconds, end)

\* A profile describes the packets of the windows and those of the tail.
LEMMA ProfileAddsUp ==
  ASSUME NEW capture, NEW packets, NEW feats, NEW device_ip, NEW start, NEW seconds, NEW first, NEW size,
         Divided(capture, packets, feats, device_ip, start, seconds, first, size),
         NEW end \in Int, start + size * seconds <= end, NEW row, row.start = start, row.end = end,
         NEW discarded, NEW profile, profile = ProfileOf(capture, row, device_ip, discarded),
         NEW active, active = Busy(packets, first, size)
  PROVE  /\ profile.total_ip_packets = PacketSum(feats, active)
                                         + Cardinality(Discarded(capture, start, end, seconds, size))
         /\ profile.total_ip_bytes >= ByteSum(feats, active)
         /\ Discarded(capture, start, end, seconds, size) = {} /\ profile.total_ip_packets > 0 =>
              \A d \in Directions :
                profile.aggregate.bytes[d] = DirectionSum(feats, active, d)
<1> DEFINE middle == start + size * seconds
           selected == Chosen(capture, start, end)
           body == Body(capture, start, seconds, size)
           tail == Chosen(capture, middle, end)
           lengths == LengthsAt(capture, selected)
<1>0. ReadWell(capture) /\ start \in Int /\ seconds \in Nat /\ size \in Nat
  BY DEF Divided, Cuts
<1>1. middle \in Int /\ start <= middle /\ middle <= end
  <2>1. size * seconds \in Nat
    BY <1>0
  <2>2. QED
    BY <1>0, <2>1
<1>2. selected = body \cup tail /\ body \cap tail = {}
  <2>1. body = Chosen(capture, start, middle)
    BY DEF Body
  <2> HIDE DEF middle, body
  <2>2. QED
    BY <1>0, <1>1, <2>1, BodyAndTail
<1>3. /\ IsFiniteSet(selected) /\ IsFiniteSet(body) /\ IsFiniteSet(tail)
      /\ WellFormed(capture, selected)
  BY <1>0, ChosenWell DEF Body
<1>4. /\ PacketSum(feats, active) = Cardinality(body)
      /\ ByteSum(feats, active) = BytesAt(capture, body)
      /\ \A d \in Directions :
           DirectionSum(feats, active, d) = BytesGoing(capture, body, device_ip, d)
  BY WindowsAddUp
<1>5. /\ profile.total_ip_packets = Cardinality(selected)
      /\ profile.total_ip_bytes = SumFunctionOnSet(lengths, selected)
      /\ selected # {} => profile.aggregate =
           extract_features(Packets(capture, selected, device_ip), end - start)
  BY DEF ProfileOf, Bytes, LengthsAt, SumFunction
<1>6. tail = Discarded(capture, start, end, seconds, size)
  BY DEF Discarded
<1> HIDE DEF selected, body, tail, middle
<1>7. \A i \in selected : lengths[i] \in Nat
  BY <1>3 DEF LengthsAt, WellFormed
<1>8. \A i \in body : LengthsAt(capture, body)[i] = lengths[i]
  BY <1>2 DEF LengthsAt
<1> HIDE DEF lengths
<1>9. BytesAt(capture, body) = SumFunctionOnSet(lengths, body)
  <2>1. \A i \in body : lengths[i] \in Int /\ LengthsAt(capture, body)[i] = lengths[i]
    BY <1>2, <1>7, <1>8
  <2>2. QED
    BY <1>3, <2>1, SumsEqual DEF BytesAt
<1>10. Cardinality(selected) = Cardinality(body) + Cardinality(tail)
  <2>1. Cardinality(body \cup tail) = Cardinality(body) + Cardinality(tail) - Cardinality({})
    BY <1>2, <1>3, FS_Union
  <2>2. Cardinality({}) = 0
    BY FS_EmptySet
  <2>3. Cardinality(body) \in Nat /\ Cardinality(tail) \in Nat
    BY <1>3, FS_CardinalityType
  <2>4. QED
    BY <1>2, <2>1, <2>2, <2>3
<1>11. profile.total_ip_bytes >= ByteSum(feats, active)
  <2>1. \A i \in body \cup tail : lengths[i] \in Int
    BY <1>2, <1>7
  <2>2. \A i \in tail : lengths[i] \in Nat
    BY <1>2, <1>7
  <2>3. SumFunctionOnSet(lengths, body \cup tail) =
          SumFunctionOnSet(lengths, body) + SumFunctionOnSet(lengths, tail)
    BY <1>2, <1>3, <2>1, SumOfUnion
  <2>4. SumFunctionOnSet(lengths, body) \in Int
    BY <1>3, <2>1, SumOfRest
  <2>5. SumFunctionOnSet(lengths, tail) \in Nat
    BY <1>3, <2>2, SumOfNaturals
  <2>6. ByteSum(feats, active) = SumFunctionOnSet(lengths, body)
    BY <1>4, <1>9
  <2>7. QED
    BY <1>2, <1>5, <2>3, <2>4, <2>5, <2>6
<1>12. ASSUME tail = {}, profile.total_ip_packets > 0, NEW d \in Directions
       PROVE  profile.aggregate.bytes[d] = DirectionSum(feats, active, d)
  <2>1. selected = body
    BY <1>2, <1>12
  <2>2. selected # {}
    <3>1. Cardinality({}) = 0
      BY FS_EmptySet
    <3>2. Cardinality(selected) > 0
      BY <1>5, <1>12
    <3>3. QED
      BY <3>1, <3>2
  <2>3. profile.aggregate.bytes[d] =
          BytesGoing(capture, selected, device_ip, d)
    BY <1>3, <1>5, <2>2, FeaturesOf DEF BytesGoing
  <2>4. QED
    BY <1>4, <2>1, <2>3
<1>13. QED
  BY <1>4, <1>5, <1>6, <1>10, <1>11, <1>12

\* The quiet stretch before the first packet, in seconds and in windows.
QuietAgrees(profile, packets, first, size, seconds) ==
  /\ profile.to_first >= 0 =>
       /\ Cardinality(Quiet(packets, first, size)) = Min({profile.to_first \div seconds, size})
       /\ profile.to_first + profile.from_last <= profile.duration
       /\ profile.from_last > 0
  /\ profile.to_first = -1 => Quiet(packets, first, size) = first .. first + size - 1

\* The profile and the windows agree on the quiet stretch.
LEMMA ProfileQuiet ==
  ASSUME NEW capture, NEW packets, NEW feats, NEW device_ip, NEW start, NEW seconds, NEW first, NEW size,
         Divided(capture, packets, feats, device_ip, start, seconds, first, size),
         NEW end \in Int, start + size * seconds <= end, NEW row, row.start = start, row.end = end,
         NEW discarded, NEW profile, profile = ProfileOf(capture, row, device_ip, discarded)
  PROVE  QuietAgrees(profile, packets, first, size, seconds)
<1> DEFINE selected == Chosen(capture, start, end)
           oldest == Min(selected)
           newest == Max(selected)
           times == capture.times
<1>1. /\ ReadWell(capture) /\ times \in Seq(Int) /\ Ordered(times)
      /\ start \in Int /\ seconds \in Nat /\ 0 < seconds /\ first \in Nat \ {0} /\ size \in Nat
      /\ Cuts(capture, packets, start, seconds, first, size)
  BY DEF Divided, Cuts, ReadWell
<1>2. /\ selected \subseteq Nat /\ selected \subseteq DOMAIN times
      /\ selected # {} => /\ oldest \in selected /\ newest \in selected
                          /\ \A i \in selected : oldest <= i /\ i <= newest
  <2> HIDE DEF times
  <2>1. QED
    BY <1>1, ChosenWell DEF times
<1>3. /\ profile.duration = end - start
      /\ profile.to_first = IF selected = {} THEN -1 ELSE times[oldest] - start
      /\ profile.from_last = IF selected = {} THEN -1 ELSE end - times[newest]
  BY DEF ProfileOf
<1>4. \A i \in selected : times[i] \in Int /\ start <= times[i] /\ times[i] < end
  <2>1. \A i \in DOMAIN times : times[i] \in Int
    BY <1>1
  <2>2. QED
    BY <1>2, <2>1 DEF Chosen
<1> HIDE DEF selected, oldest, newest, times
<1>5. CASE selected # {}
  <2> DEFINE d == times[oldest] - start
             q == d \div seconds
  <2>1. /\ oldest \in selected /\ newest \in selected /\ oldest <= newest
        /\ oldest \in Nat /\ newest \in Nat
    BY <1>2, <1>5
  <2>2. times[oldest] <= times[newest]
    <3>1. oldest = newest \/ oldest < newest
      BY <2>1
    <3>2. oldest < newest => times[oldest] <= times[newest]
      BY <1>1, <1>2, <2>1 DEF Ordered
    <3>3. QED
      BY <1>4, <2>1, <3>1, <3>2
  <2>3. /\ d \in Nat /\ profile.to_first = d /\ profile.to_first + profile.from_last <= profile.duration
        /\ profile.from_last > 0
    <3>1. /\ times[oldest] \in Int /\ times[newest] \in Int
          /\ start <= times[oldest] /\ times[newest] < end /\ start \in Int
      BY <1>1, <1>4, <2>1
    <3>2. profile.to_first = d /\ profile.from_last = end - times[newest]
      BY <1>3, <1>5
    <3>3. \A a, b, x, y \in Int : a <= x /\ x <= y /\ y < b =>
            x - a \in Nat /\ (x - a) + (b - y) <= b - a /\ b - y > 0
      OBVIOUS
    <3>4. /\ d \in Nat /\ d + (end - times[newest]) <= end - start /\ end - times[newest] > 0
      BY <2>2, <3>1, <3>3
    <3> HIDE DEF d
    <3>5. QED
      BY <1>3, <3>2, <3>4
  <2> HIDE DEF d
  <2>4. q \in Nat /\ FallsInto(d, seconds, q)
    BY <1>1, <2>3, Quotient
  <2> HIDE DEF q
  <2>5. FallsInto(times[oldest] - start, seconds, q)
    BY <2>4 DEF d
  <2>6. QuietBefore(packets, first, size, q)
    <3>1. First(capture, start, end, oldest)
      <4>1. oldest \in selected /\ \A i \in selected : oldest <= i
        BY <1>2, <1>5, <2>1
      <4>2. QED
        BY ONLY <4>1 DEF selected, First
    <3>2. QED
      BY ONLY <1>1, <2>4, <2>5, <3>1, QuietUntil, end \in Int, start + size * seconds <= end DEF times
  <2>7. Cardinality(Quiet(packets, first, size)) = Min({q, size})
    BY <1>1, <2>4, <2>6, QuietCount
  <2>8. q = profile.to_first \div seconds
    BY <2>3 DEF q
  <2>9. QED
    BY <2>3, <2>7, <2>8 DEF QuietAgrees
<1>6. CASE selected = {}
  <2>1. profile.to_first = -1
    BY <1>3, <1>6
  <2>2. ASSUME NEW w \in first .. first + size - 1 PROVE packets[w] = {}
    <3>1. packets[w] \subseteq Chosen(capture, start, start + size * seconds)
      BY <1>1, InsideInterval
    <3>2. Chosen(capture, start, start + size * seconds) \subseteq selected
      <4> DEFINE middle == start + size * seconds
      <4>1. middle \in Int /\ start <= middle /\ middle <= end
        <5>1. size * seconds \in Nat
          BY <1>1
        <5>2. QED
          BY <1>1, <5>1
      <4> HIDE DEF middle
      <4>2. Chosen(capture, start, middle) \subseteq selected
        BY <1>1, <4>1, BodyAndTail DEF selected
      <4>3. QED
        BY <4>2 DEF middle
    <3>3. QED
      BY <1>6, <3>1, <3>2
  <2>3. Quiet(packets, first, size) = first .. first + size - 1
    BY <2>2 DEF Quiet
  <2>4. QED
    BY <2>1, <2>3 DEF QuietAgrees
<1>7. QED
  BY <1>5, <1>6

\* The packets of the windows of a finished pass.
InWindows(t) == [w \in Ledger(t) |-> windows[w].packets]

\* What is known of a finished pass: its windows divide the interval from its start on
\* and the profile is that of the whole interval.
LEMMA FinishedPass ==
  ASSUME IInv, DInv, TallyInv, DetailInv, NEW t \in DOMAIN tallies
  PROVE  LET row == rows[tallies[t].row]
             capture == Read(row.capture_file)
             seconds == Durations[kind][tallies[t].pass]
         IN  \E first, size \in Nat :
               /\ Ledger(t) = first .. first + size - 1 /\ Cardinality(Ledger(t)) = size
               /\ Divided(capture, InWindows(t), features, DeviceIp[kind], row.start, seconds, first, size)
               /\ row.end \in Int /\ row.start + size * seconds <= row.end
               /\ row.end - (row.end - row.start - size * seconds) = row.start + size * seconds
               /\ tallies[t].profile =
                    ProfileOf(capture, row, DeviceIp[kind], row.end - row.start - size * seconds)
<1> DEFINE row == rows[tallies[t].row]
           path == row.capture_file
           capture == Read(path)
           seconds == Durations[kind][tallies[t].pass]
           start == row.start
           end == row.end
<1>1. Finished(tallies[t]) /\ Described(tallies[t]) /\ kind # "validate"
  BY DEF TallyInv, DetailInv
<1>2. PICK first \in Nat \ {0}, size \in Nat :
        /\ first + size - 1 <= Len(windows)
        /\ Tiles(windows, tallies[t].row, tallies[t].pass, start, seconds, first, size)
        /\ Counts(windows, tallies[t].tally, first, size)
        /\ 0 <= end - start - size * seconds
  BY <1>1 DEF Finished
<1>3. /\ tallies[t].row \in Indices /\ InUse(path)
      /\ tallies[t].profile =
           ProfileOf(capture, row, DeviceIp[kind], end - start - tallies[t].tally.scheduled * seconds)
  BY <1>1 DEF Described
<1>4. /\ seconds \in Nat \ {0} /\ path \in Paths /\ start \in Int /\ end \in Int
  BY <1>1, <1>3, FinishedType, RowType DEF IInv, ManifestTypeOK
<1>5. tallies[t].tally.scheduled = size
  BY <1>2 DEF Counts
<1>6. /\ size * seconds \in Int /\ start + size * seconds <= end
      /\ end - (end - start - size * seconds) = start + size * seconds
  <2>1. size * seconds \in Int
    BY <1>4
  <2> HIDE DEF start, end, seconds
  <2>2. QED
    BY <1>2, <1>4, <2>1
<1>7. ReadWell(capture)
  BY <1>3, <1>4, UsedIsWell
<1>8. Ledger(t) = first .. first + size - 1 /\ Cardinality(Ledger(t)) = size
  <2> HIDE DEF start, seconds
  <2>1. QED
    BY <1>2, LedgerIsInterval
<1>9. ASSUME NEW w \in first .. first + size - 1
      PROVE  LET from == start + (w - first) * seconds
             IN  /\ windows[w].packets = Chosen(capture, from, from + seconds)
                 /\ windows[w].packets # {} =>
                      features[w] = extract_features(Packets(capture, windows[w].packets, DeviceIp[kind]), seconds)
  <2>1. w \in Made /\ windows[w].row = tallies[t].row /\ windows[w].pass = tallies[t].pass
    BY <1>8 DEF Ledger
  <2>2. CutFrom(windows[w], features[w])
    BY <2>1 DEF DetailInv
  <2>3. windows[w].from = start + (w - first) * seconds
    BY <1>2 DEF Tiles
  <2>4. QED
    BY <2>1, <2>2, <2>3 DEF CutFrom
<1>10. Divided(capture, InWindows(t), features, DeviceIp[kind], start, seconds, first, size)
  <2>1. \A w \in first .. first + size - 1 : InWindows(t)[w] = windows[w].packets
    BY <1>8 DEF InWindows
  <2> HIDE DEF capture, seconds, start
  <2>2. Cuts(capture, InWindows(t), start, seconds, first, size)
    BY <1>4, <1>7, <1>9, <2>1 DEF Cuts
  <2>3. Extracts(capture, InWindows(t), features, DeviceIp[kind], seconds, first, size)
    BY <1>9, <2>1 DEF Extracts
  <2>4. QED
    BY <2>2, <2>3 DEF Divided
<1>11. QED
  BY <1>3, <1>4, <1>5, <1>6, <1>8, <1>10

\* The condition profile and the ledger of a row describe the same packets: the profile
\* has every packet of the windows and beyond them only those of the discarded tail, the
\* quiet stretch before the first packet is the same in both, and the profile does not
\* depend on the window duration, for every capture, manifest and duration (analyze_condition).
THEOREM ProfileTrue == Spec => []ProfileMatchesLedger
<1>1. ASSUME IInv, DInv, TallyInv, DetailInv, NEW t \in DOMAIN tallies
      PROVE  LET profile == tallies[t].profile
                 row == rows[tallies[t].row]
                 version == loaded[row.capture_file]
                 tail == {i \in DOMAIN Capture[CaptureOf(row)][version].times :
                            LET time == Capture[CaptureOf(row)][version].times[i]
                            IN  row.end - profile.discarded_tail <= time /\ time < row.end}
                 seconds == Durations[kind][tallies[t].pass]
                 quiet == {w \in Ledger(t) : \A v \in Ledger(t) : v <= w => windows[v].packets = {}}
             IN  /\ profile.total_ip_packets =
                      SumFunction([w \in Active(t) |-> features[w].packet_count]) + Cardinality(tail)
                 /\ profile.total_ip_bytes >= SumFunction([w \in Active(t) |-> features[w].total_ip_bytes])
                 /\ tail = {} /\ profile.total_ip_packets > 0 => \A d \in Directions :
                      profile.aggregate.bytes[d] = SumFunction([w \in Active(t) |-> features[w].bytes[d]])
                 /\ profile.to_first >= 0 =>
                      /\ Cardinality(quiet) = Min({profile.to_first \div seconds, Cardinality(Ledger(t))})
                      /\ profile.to_first + profile.from_last <= profile.duration
                      /\ profile.from_last > 0
                 /\ profile.to_first = -1 => quiet = Ledger(t)
  <2> DEFINE profile == tallies[t].profile
             row == rows[tallies[t].row]
             capture == Read(row.capture_file)
             seconds == Durations[kind][tallies[t].pass]
             start == row.start
             end == row.end
             packets == InWindows(t)
             device_ip == DeviceIp[kind]
             quiet == {w \in Ledger(t) : \A v \in Ledger(t) : v <= w => windows[v].packets = {}}
             tail == {i \in DOMAIN capture.times :
                        LET time == capture.times[i]
                        IN  end - profile.discarded_tail <= time /\ time < end}
  <2>1. PICK first \in Nat, size \in Nat :
          /\ Ledger(t) = first .. first + size - 1 /\ Cardinality(Ledger(t)) = size
          /\ Divided(capture, packets, features, device_ip, start, seconds, first, size)
          /\ end \in Int /\ start + size * seconds <= end
          /\ end - (end - start - size * seconds) = start + size * seconds
          /\ profile = ProfileOf(capture, row, device_ip, end - start - size * seconds)
    BY <1>1, FinishedPass
  <2> HIDE DEF profile, capture, seconds, device_ip
  <2>2. tail = Discarded(capture, start, end, seconds, size)
    <3>1. profile.discarded_tail = end - start - size * seconds
      BY <2>1 DEF ProfileOf
    <3>2. end - profile.discarded_tail = start + size * seconds
      BY <2>1, <3>1
    <3>3. QED
      BY <3>2 DEF Discarded, Chosen
  <2>3. \A w \in Ledger(t) : packets[w] = windows[w].packets
    BY DEF InWindows
  <2> HIDE DEF packets
  <2>4. Active(t) = Busy(packets, first, size)
    BY <2>1, <2>3 DEF Active, Busy
  <2>5. quiet = Quiet(packets, first, size)
    BY <2>1, <2>3 DEF Quiet
  <2> HIDE DEF start, end, row, tail, quiet
  <2>6. row.start = start /\ row.end = end
    BY DEF start, end
  <2>7. /\ profile.total_ip_packets = PacketSum(features, Active(t)) + Cardinality(tail)
        /\ profile.total_ip_bytes >= ByteSum(features, Active(t))
        /\ tail = {} /\ profile.total_ip_packets > 0 => \A d \in Directions :
             profile.aggregate.bytes[d] = DirectionSum(features, Active(t), d)
    BY <2>1, <2>2, <2>4, <2>6, ProfileAddsUp
  <2>8. /\ profile.to_first >= 0 =>
             /\ Cardinality(quiet) = Min({profile.to_first \div seconds, size})
             /\ profile.to_first + profile.from_last <= profile.duration
             /\ profile.from_last > 0
        /\ profile.to_first = -1 => quiet = Ledger(t)
    <3>1. QuietAgrees(profile, packets, first, size, seconds)
      BY <2>1, <2>6, ProfileQuiet
    <3>2. QED
      BY ONLY <2>1, <2>5, <3>1 DEF QuietAgrees
  <2>9. Cardinality(Ledger(t)) = size
    BY <2>1
  <2>10. QED
    BY <2>7, <2>8, <2>9
       DEF PacketSum, ByteSum, DirectionSum, profile, row, capture, seconds, start, end, tail, quiet, Read,
           CaptureOf
\* The profile is made of the interval and of nothing else of the pass.
<1>2. ASSUME DetailInv, NEW t \in DOMAIN tallies, NEW u \in DOMAIN tallies,
             tallies[u].row = tallies[t].row
      PROVE  [tallies[u].profile EXCEPT !.discarded_tail = 0] =
               [tallies[t].profile EXCEPT !.discarded_tail = 0]
  <2> DEFINE row == rows[tallies[t].row]
             capture == Read(row.capture_file)
             Same(profile) ==
               \E tail : profile = ProfileOf(capture, row, DeviceIp[kind], tail)
  <2>1. Described(tallies[t]) /\ Described(tallies[u])
    BY <1>2 DEF DetailInv
  <2>2. Same(tallies[t].profile) /\ Same(tallies[u].profile)
    BY <1>2, <2>1 DEF Described
  <2> HIDE DEF row, capture
  <2>3. ASSUME NEW profile, Same(profile)
        PROVE  [profile EXCEPT !.discarded_tail = 0] = ProfileOf(capture, row, DeviceIp[kind], 0)
    BY <2>3 DEF ProfileOf
  <2>4. QED
    BY <2>2, <2>3
<1>3. IInv /\ DInv /\ TallyInv /\ DetailInv => ProfileMatchesLedger
  BY <1>1, <1>2 DEF ProfileMatchesLedger
<1>4. QED
  BY <1>3, DetailInvariance, PTL
=============================================================================
