-------------------------- MODULE SessionManifest --------------------------
(***************************************************************************)
(* Reading a session manifest and validating it against the captures it    *)
(* names (session_manifest.cpp): every row must be well formed, every      *)
(* session ID new, every capture must have its recorded SHA-256, and the   *)
(* intervals of one capture must not overlap.  The overlap is looked for   *)
(* between neighbours only, after sorting.                                 *)
(*                                                                         *)
(* A row names its capture by a path; two paths name the same capture when *)
(* they are equal in lexically normal form, as x.pcap and ./x.pcap are.    *)
(* The capture files are external and may change at any moment; a version  *)
(* number stands for a content and for its digest, and a content, once     *)
(* replaced, does not come back.                                           *)
(***************************************************************************)
EXTENDS Integers, FiniteSets, Sequences

CONSTANTS
  Captures,   \* capture files, by normalised path
  Paths,      \* the paths manifests are written with
  Normal,     \* the capture each of them names: path::lexically_normal
  Manifests,  \* the manifests a command may be given
  Rows,       \* the rows they are made of
  MaxVersion  \* bound: changes of a capture file

ASSUME ManifestsAssumption ==
  /\ MaxVersion \in Nat
  /\ Normal \in [Paths -> Captures]
  /\ Manifests \subseteq Seq(Rows)
  /\ \A row \in Rows :
       /\ row.capture_file \in Paths
       /\ row.start \in Int /\ row.end \in Int

VARIABLES
  pc,        \* "read", "hash", "overlap", "valid" or "invalid"
  rows,      \* the manifest
  file,      \* the version each capture file holds
  verified,  \* how many rows have been hashed
  compared,  \* the rows (by index) whose interval has been compared
  last,      \* per capture, the row compared last, 0 if none
  reason     \* why the manifest is invalid

manifestVars == <<pc, rows, file, verified, compared, last, reason>>

Versions == 0 .. MaxVersion
Indices  == 1 .. Len(rows)

\* The capture a row is about, however its path is written.
CaptureOf(row) == Normal[row.capture_file]

Init ==
  /\ pc = "read"
  /\ rows \in Manifests
  /\ file \in [Captures -> Versions]
  /\ verified = 0
  /\ compared = {} /\ last = [c \in Captures |-> 0]
  /\ reason = "none"

Reject(why) ==
  /\ pc' = "invalid"
  /\ reason' = why
  /\ UNCHANGED <<rows, file, verified, compared, last>>

Proceed(label) == pc' = label /\ UNCHANGED <<rows, file, verified, compared, last, reason>>

\* Everything a row can be refused for on its own.
RowAccepted(row) == row.wellFormed /\ 0 <= row.start /\ row.start < row.end

Readable ==
  /\ rows # <<>>
  /\ \A i \in Indices : RowAccepted(rows[i])
  /\ \A i, j \in Indices : i # j => rows[i].session_id # rows[j].session_id

ReadManifest ==
  /\ pc = "read"
  /\ \/ ~Readable /\ Reject("row")
     \/ Readable /\ Proceed("hash")

HashRow ==
  /\ pc = "hash"
  /\ verified < Len(rows)
  /\ LET row == rows[verified + 1]
     IN  \/ file[CaptureOf(row)] # row.capture_sha256 /\ Reject("hash")
         \/ /\ file[CaptureOf(row)] = row.capture_sha256
            /\ verified' = verified + 1
            /\ UNCHANGED <<pc, rows, file, compared, last, reason>>

AllHashed == pc = "hash" /\ verified = Len(rows) /\ Proceed("overlap")

\* Mutant: rows are compared in the order of the manifest.
PrecedesInFile(i, j) == i < j

\* The sort order: by start, then by end; equal rows in either order.
Precedes(i, j) ==
  \/ rows[i].start < rows[j].start
  \/ rows[i].start = rows[j].start /\ rows[i].end <= rows[j].end

SameCapture(i, j) == CaptureOf(rows[i]) = CaptureOf(rows[j])

\* Mutant: only a row that starts together with its neighbour overlaps it.
ClashesAtStart(i, j) == rows[j].start = rows[i].start

\* The neighbours' test: row j starts before row i, compared before it, ends.
Clashes(i, j) == rows[j].start < rows[i].end

MustReject(i) ==
  LET previous == last[CaptureOf(rows[i])]
  IN  previous # 0 /\ Clashes(previous, i)

\* Row i is next in its capture's sorted list.  (The code finishes one capture
\* before the next; the order makes no difference to any capture.)
CompareRow(i) ==
  /\ pc = "overlap"
  /\ i \notin compared
  /\ \A j \in Indices \ compared : SameCapture(i, j) /\ i # j => Precedes(i, j)
  /\ \/ MustReject(i) /\ Reject("overlap")
     \/ /\ ~MustReject(i)
        /\ compared' = compared \cup {i}
        /\ last' = [last EXCEPT ![CaptureOf(rows[i])] = i]
        /\ UNCHANGED <<pc, rows, file, verified, reason>>

AllCompared == pc = "overlap" /\ compared = Indices /\ Proceed("valid")

\* Somebody replaces a capture.
FileChanges(c) ==
  /\ file[c] < MaxVersion
  /\ file' = [file EXCEPT ![c] = @ + 1]
  /\ UNCHANGED <<pc, rows, verified, compared, last, reason>>

Validate == ReadManifest \/ HashRow \/ AllHashed \/ (\E i \in Indices : CompareRow(i)) \/ AllCompared

ManifestNext == Validate \/ \E c \in Captures : FileChanges(c)

ManifestSpec == Init /\ [][ManifestNext]_manifestVars
-----------------------------------------------------------------------------
ManifestTypeOK ==
  /\ pc \in {"read", "hash", "overlap", "valid", "invalid"}
  /\ rows \in Seq(Rows)
  /\ file \in [Captures -> Versions]
  /\ verified \in 0 .. Len(rows)
  /\ compared \subseteq Indices
  /\ last \in [Captures -> 0 .. Len(rows)]
  /\ reason \in {"none", "row", "hash", "overlap"}

Disjoint(i, j) == rows[i].end <= rows[j].start \/ rows[j].end <= rows[i].start

\* Comparing neighbours is enough: in a manifest that is accepted no two rows
\* of one capture overlap, however many lie between them.
AcceptedIsDisjoint ==
  pc = "valid" =>
    \A i, j \in Indices : i # j /\ SameCapture(i, j) => Disjoint(i, j)

\* A manifest is refused for an overlap only if two of its rows do overlap.
OverlapIsReal ==
  reason = "overlap" =>
    \E i, j \in Indices : i # j /\ SameCapture(i, j) /\ ~Disjoint(i, j)
=============================================================================
