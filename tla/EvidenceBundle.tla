--------------------------- MODULE EvidenceBundle ---------------------------
(***************************************************************************)
(* The two ways this program writes a checksummed directory.               *)
(*   "staged":   fill .<id>.staging, then rename it to <id>; an exception  *)
(*               removes the staging directory                             *)
(*               (write_synthetic_evidence_bundle);                        *)
(*   "in_place": create the directory and fill it                          *)
(*               (write_condition_analysis_bundle).                        *)
(* Each file is written by one open-write-close; the stream is tested      *)
(* before its destructor flushes it, so a failure of that flush leaves the *)
(* file cut short and nobody the wiser.  Paths are looked up anew by every *)
(* call, so a directory that another run renamed or removed is simply      *)
(* gone.                                                                   *)
(***************************************************************************)
EXTENDS Naturals, FiniteSets, Sequences

CONSTANTS
  Runs,        \* invocations on one experiment ID or output directory
  KindOf,
  Artifacts,   \* the files of a bundle, in the order they are written
  Nothing,     \* no file, no owner
  Crowds,      \* the sets of runs that may run at the same time
  MaxFaults    \* bound: crashes and failed calls

ASSUME EvidenceBundleAssumption ==
  /\ KindOf \in [Runs -> {"staged", "in_place"}]
  /\ Len(Artifacts) \in Nat \ {0}
  /\ Crowds \subseteq SUBSET Runs
  /\ MaxFaults \in Nat
  /\ {Nothing, "cut"} \cap Runs = {} /\ Nothing # "cut"

VARIABLES
  pc,
  staging,  \* the staging directory
  final,    \* the published directory
  next,     \* next[r]: index of the artifact run r writes or hashes next
  hashed,   \* hashed[r]: the checksums run r has collected
  faults,
  shared    \* history: two runs have overlapped

vars == <<pc, staging, final, next, hashed, faults, shared>>

Names   == {Artifacts[i] : i \in 1 .. Len(Artifacts)}
NoFiles == [name \in Names |-> Nothing]

\* The content of a file that was cut short, as read or as hashed.
Cut == "cut"
CutSums == [name \in Names |-> Cut]

\* A directory: who made it, who wrote each file, and the checksum file.
Absent    == [maker |-> Nothing, files |-> NoFiles, sums |-> NoFiles]
Empty(r)  == [Absent EXCEPT !.maker = r]
Exists(directory) == directory.maker # Nothing

Over       == {"new", "ok", "failed", "dead"}
Running(r) == pc[r] \notin Over
Staged(r)  == KindOf[r] = "staged"
Place(r)   == IF Staged(r) THEN staging ELSE final

Goto(r, label) == pc' = [pc EXCEPT ![r] = label]
Jump(r, label) == Goto(r, label) /\ UNCHANGED <<staging, final, next, hashed, faults, shared>>

\* The directory run r fills becomes d.
Fill(r, d) ==
  IF Staged(r) THEN staging' = d /\ UNCHANGED final
               ELSE final' = d /\ UNCHANGED staging

\* Where an exception thrown after the directory was made leads.
Handler(r) == IF Staged(r) THEN "catch" ELSE "failed"

Init ==
  /\ pc = [r \in Runs |-> "new"]
  /\ staging = Absent /\ final = Absent
  /\ next = [r \in Runs |-> 1]
  /\ hashed = [r \in Runs |-> NoFiles]
  /\ faults = MaxFaults
  /\ shared = FALSE
-----------------------------------------------------------------------------
Start(r) ==
  /\ pc[r] = "new"
  /\ {s \in Runs : Running(s)} \cup {r} \in Crowds
  /\ shared' = (shared \/ \E s \in Runs : Running(s))
  /\ Goto(r, "check")
  /\ UNCHANGED <<staging, final, next, hashed, faults>>

\* Mutant: a leftover staging directory is taken over.
OccupiedFinal(r) == Exists(final)

\* exists(final) || exists(staging); the analysis knows no staging directory.
Occupied(r) == Exists(final) \/ (Staged(r) /\ Exists(staging))

Check(r) ==
  /\ pc[r] = "check"
  /\ Jump(r, IF Occupied(r) THEN "failed" ELSE "make")

\* create_directory reports an existing directory by a result nobody reads.
Make(r) ==
  /\ pc[r] = "make"
  /\ Fill(r, IF Exists(Place(r)) THEN Place(r) ELSE Empty(r))
  /\ Goto(r, "write")
  /\ UNCHANGED <<next, hashed, faults, shared>>

\* write_text leaves the content, or what remains of it; faults pay for the loss.
Reaches(left, content) ==
  /\ left # content => faults > 0
  /\ faults' = IF left = content THEN faults ELSE faults - 1

\* write_text: fails when the directory is gone.
Write(r) ==
  /\ pc[r] = "write"
  /\ next[r] <= Len(Artifacts)
  /\ \/ ~Exists(Place(r)) /\ Jump(r, Handler(r))
     \/ /\ Exists(Place(r))
        /\ \E left \in {r, Cut} :
             /\ Reaches(left, r)
             /\ Fill(r, [Place(r) EXCEPT !.files[Artifacts[next[r]]] = left])
        /\ next' = [next EXCEPT ![r] = @ + 1]
        /\ UNCHANGED <<pc, hashed, shared>>

Written(r) ==
  /\ pc[r] = "write"
  /\ next[r] > Len(Artifacts)
  /\ next' = [next EXCEPT ![r] = 1]
  /\ Goto(r, "hash")
  /\ UNCHANGED <<staging, final, hashed, faults, shared>>

\* sha256_file reads the artifact back.
Hash(r) ==
  LET name == Artifacts[next[r]]
  IN  /\ pc[r] = "hash"
      /\ next[r] <= Len(Artifacts)
      /\ \/ Place(r).files[name] = Nothing /\ Jump(r, Handler(r))
         \/ /\ Place(r).files[name] # Nothing
            /\ hashed' = [hashed EXCEPT ![r][name] = Place(r).files[name]]
            /\ next' = [next EXCEPT ![r] = @ + 1]
            /\ UNCHANGED <<pc, staging, final, faults, shared>>

\* Mutant: the last artifact is left out of the checksums.
WriteSumsEarly(r) ==
  /\ pc[r] = "hash"
  /\ next[r] >= Len(Artifacts)
  /\ \/ ~Exists(Place(r)) /\ Jump(r, Handler(r))
     \/ /\ Exists(Place(r))
        /\ \E left \in {hashed[r], CutSums} :
             Reaches(left, hashed[r]) /\ Fill(r, [Place(r) EXCEPT !.sums = left])
        /\ Goto(r, IF Staged(r) THEN "rename" ELSE "ok")
        /\ UNCHANGED <<next, hashed, shared>>

WriteSums(r) ==
  /\ pc[r] = "hash"
  /\ next[r] > Len(Artifacts)
  /\ \/ ~Exists(Place(r)) /\ Jump(r, Handler(r))
     \/ /\ Exists(Place(r))
        /\ \E left \in {hashed[r], CutSums} :
             Reaches(left, hashed[r]) /\ Fill(r, [Place(r) EXCEPT !.sums = left])
        /\ Goto(r, IF Staged(r) THEN "rename" ELSE "ok")
        /\ UNCHANGED <<next, hashed, shared>>

\* Mutant: the target is replaced.
RenameReplaces(r) ==
  /\ pc[r] = "rename"
  /\ \/ ~Exists(staging) /\ Jump(r, "catch")
     \/ /\ Exists(staging)
        /\ final' = staging
        /\ staging' = Absent
        /\ Goto(r, "ok")
        /\ UNCHANGED <<next, hashed, faults, shared>>

\* rename(2) of a directory: the source must exist, and a target with files in
\* it is refused.
Rename(r) ==
  /\ pc[r] = "rename"
  /\ \/ (~Exists(staging) \/ final.files # NoFiles) /\ Jump(r, "catch")
     \/ /\ Exists(staging) /\ final.files = NoFiles
        /\ final' = staging
        /\ staging' = Absent
        /\ Goto(r, "ok")
        /\ UNCHANGED <<next, hashed, faults, shared>>

\* Mutant: the handler forgets the staging directory.
CleanUpForgets(r) == pc[r] = "catch" /\ Jump(r, "failed")

\* catch (...): remove_all(staging), whoever filled it.
CleanUp(r) ==
  /\ pc[r] = "catch"
  /\ staging' = Absent
  /\ Goto(r, "failed")
  /\ UNCHANGED <<final, next, hashed, faults, shared>>

\* The disk or git fails; for the analysis also a capture that cannot be read or
\* does not have its recorded hash.
CallFails(r) ==
  /\ pc[r] \in {"make", "write", "hash", "rename"}
  /\ faults > 0
  /\ faults' = faults - 1
  /\ Goto(r, IF pc[r] = "make" THEN "failed" ELSE Handler(r))
  /\ UNCHANGED <<staging, final, next, hashed, shared>>

Crash(r) ==
  /\ Running(r)
  /\ faults > 0
  /\ faults' = faults - 1
  /\ Goto(r, "dead")
  /\ UNCHANGED <<staging, final, next, hashed, shared>>

Step(r) ==
  \/ Start(r) \/ Check(r) \/ Make(r) \/ Write(r) \/ Written(r)
  \/ Hash(r) \/ WriteSums(r) \/ Rename(r) \/ CleanUp(r)

AllOver == (\A r \in Runs : pc[r] \in {"ok", "failed", "dead"}) /\ UNCHANGED vars

Next == (\E r \in Runs : Step(r) \/ CallFails(r) \/ Crash(r)) \/ AllOver

Spec == Init /\ [][Next]_vars
-----------------------------------------------------------------------------
Directories ==
  [ maker : Runs \cup {Nothing},
    files : [Names -> Runs \cup {Nothing, Cut}],
    sums  : [Names -> Runs \cup {Nothing, Cut}] ]

TypeOK ==
  /\ pc \in [Runs -> Over \cup {"check", "make", "write", "hash", "rename", "catch"}]
  /\ staging \in Directories /\ final \in Directories
  /\ next \in [Runs -> 1 .. Len(Artifacts) + 1]
  /\ hashed \in [Runs -> [Names -> Runs \cup {Nothing, Cut}]]
  /\ faults \in 0 .. MaxFaults /\ shared \in BOOLEAN

Complete(d) == \E r \in Runs : \A name \in Names : d.files[name] = r /\ d.sums[name] = r

\* The run whose whole, verifiable bundle is published.
Published == IF Complete(final) THEN final.files[Artifacts[1]] ELSE Nothing

\* Every file is there and was written by one run, though perhaps cut short.
OfOneRun(d) == \E r \in Runs : \A name \in Names : d.files[name] \in {r, Cut}

\* A checksum file that was not cut short itself describes the files next to it,
\* all of one run ...
ChecksumsHold ==
  final.sums \notin {NoFiles, CutSums} => OfOneRun(final) /\ final.sums = final.files

\* ... and a staged bundle appears under its name with all its files or not at all.
StagedIsWhole ==
  Exists(final) /\ Staged(final.maker) => OfOneRun(final) /\ final.sums # NoFiles

\* Run one at a time, whatever crashes or fails in between, runs publish nothing
\* but bundles with every file, whose checksums can be verified.  What the
\* checksums cannot show is a file whose last flush failed: write_text does not
\* notice, and sha256_file hashes what reached the disk.
PublishedIsWhole == ~shared => ChecksumsHold /\ StagedIsWhole

\* A complete bundle is never replaced, extended or removed, also when staged
\* runs overlap and fill or remove each other's staging directory.
Bundle == INSTANCE WriteOnce WITH Writers <- Runs, artifact <- Published

ImplementsWriteOnce == Bundle!Spec

\* Run one at a time, no run fills or removes a staging directory whose maker is no
\* longer about, so what a crashed run left can still be examined.
ForeignStagingIsKept ==
  [][~shared' /\ Exists(staging) /\ ~Running(staging.maker) => UNCHANGED staging]_vars

\* Unless it was killed, a run that ends leaves no staging directory of its own,
\* so the same experiment ID can be used again.
FailureLeavesNoStaging ==
  ~shared /\ Exists(staging) => Running(staging.maker) \/ pc[staging.maker] = "dead"
=============================================================================
