---------------------------- MODULE ArtifactFile ----------------------------
(***************************************************************************)
(* The three ways this program writes one file at a path it was given.     *)
(*   "dry_run": refuse an existing path, write <path>.tmp, refuse again,   *)
(*              rename (write_dry_run_result and its caller, app.cpp);     *)
(*   "plan":    refuse an existing path, then write it in place            *)
(*              (write_session_plan);                                      *)
(*   "export":  write <path>.tmp and rename over whatever is there         *)
(*              (export_features).                                         *)
(* A run is one invocation of the program.  The file system is external:   *)
(* a name refers to an inode, an open stream keeps its inode, and opening  *)
(* with trunc empties the inode the name refers to.  A run creates at most *)
(* one inode, so inodes are named after the runs that create them.         *)
(***************************************************************************)
EXTENDS Naturals, FiniteSets

CONSTANTS
  Runs,        \* invocations of the program on one path
  KindOf,      \* what each of them does
  Chunks,      \* how many times a stream flushes its buffer
  Nothing,     \* no inode, no bytes
  MaxRunning,  \* how many runs may overlap
  MaxFaults    \* bound: crashes, failed adb commands, failed writes

ASSUME ArtifactFileAssumption ==
  /\ KindOf \in [Runs -> {"dry_run", "plan", "export"}]
  /\ Chunks \in Nat \ {0}
  /\ MaxRunning \in Nat /\ MaxFaults \in Nat
  /\ Nothing \notin Runs

VARIABLES
  pc,      \* where each run is
  final,   \* the inode the output path names
  tmp,     \* the inode <path>.tmp names
  bytes,   \* bytes[i][k]: the run that wrote chunk k of inode i
  stream,  \* [inode, flushed, bad]: each run's std::ofstream
  faults,  \* faults left
  shared   \* history: two runs have overlapped

vars == <<pc, final, tmp, bytes, stream, faults, shared>>

Blank   == [k \in 1 .. Chunks |-> Nothing]
ByRun(r) == [k \in 1 .. Chunks |-> r]
Closed  == [inode |-> Nothing, flushed |-> 0, bad |-> FALSE]

Over       == {"new", "ok", "failed", "dead"}
Running(r) == pc[r] \notin Over

Goto(r, label) == pc' = [pc EXCEPT ![r] = label]

\* Only the run's position changes.
Jump(r, label) == Goto(r, label) /\ UNCHANGED <<final, tmp, bytes, stream, faults, shared>>

\* Something fails and leaves every file as it is.
Fault(r, label) ==
  /\ faults > 0
  /\ faults' = faults - 1
  /\ Goto(r, label)
  /\ UNCHANGED <<final, tmp, bytes, stream, shared>>

\* An exception leaves the command; what it wrote stays where it is.
Throw(r) == Jump(r, "failed")

Init ==
  /\ pc = [r \in Runs |-> "new"]
  /\ final = Nothing /\ tmp = Nothing
  /\ bytes = [r \in Runs |-> Blank]
  /\ stream = [r \in Runs |-> Closed]
  /\ faults = MaxFaults
  /\ shared = FALSE

-----------------------------------------------------------------------------
Start(r) ==
  /\ pc[r] = "new"
  /\ Cardinality({s \in Runs : Running(s)}) < MaxRunning
  /\ shared' = (shared \/ \E s \in Runs : Running(s))
  /\ Goto(r, IF KindOf[r] = "export" THEN "open" ELSE "check")
  /\ UNCHANGED <<final, tmp, bytes, stream, faults>>

\* Mutant: nobody looks whether the path is taken.
TakenNever == FALSE

\* Mutant: a leftover temporary file counts as the artifact.
TakenByLeftover == final # Nothing \/ tmp # Nothing

\* std::filesystem::exists(path)
Taken == final # Nothing

\* The first test, before the phone is inspected.
Check(r) ==
  /\ pc[r] = "check"
  /\ \/ Taken /\ Throw(r)
     \/ ~Taken /\ Jump(r, "adb")

\* Everything that happens on the phone; any adb command may throw.
UsePhone(r) ==
  /\ pc[r] = "adb"
  /\ \/ Fault(r, "failed")
     \/ Jump(r, IF KindOf[r] = "plan" THEN "open" ELSE "recheck")

\* write_dry_run_result tests once more.
Recheck(r) ==
  /\ pc[r] = "recheck"
  /\ \/ Taken /\ Throw(r)
     \/ ~Taken /\ Jump(r, "open")

\* Mutant: the stream resumes after what a crashed run left.
OpenUntruncated(r, named) ==
  LET inode == IF named = Nothing THEN r ELSE named
  IN  /\ UNCHANGED bytes
      /\ stream' = [stream EXCEPT ![r] = [inode |-> inode, flushed |-> 1, bad |-> FALSE]]

\* An ofstream on a name: a fresh inode, or the named one, emptied.
OpenTruncated(r, named) ==
  LET inode == IF named = Nothing THEN r ELSE named
  IN  /\ bytes' = [bytes EXCEPT ![inode] = Blank]
      /\ stream' = [stream EXCEPT ![r] = [inode |-> inode, flushed |-> 0, bad |-> FALSE]]

Open(r) ==
  /\ pc[r] = "open"
  /\ IF KindOf[r] = "plan"
       THEN /\ OpenTruncated(r, final)
            /\ final' = stream'[r].inode
            /\ UNCHANGED tmp
       ELSE /\ OpenTruncated(r, tmp)
            /\ tmp' = stream'[r].inode
            /\ UNCHANGED final
  /\ Goto(r, "write")
  /\ UNCHANGED <<faults, shared>>

\* The file cannot be opened.
OpenFails(r) == pc[r] = "open" /\ Fault(r, "failed")

\* The next chunk reaches the file, or the stream turns bad and stays so.
Flush(r) ==
  LET k == stream[r].flushed + 1
      inode == stream[r].inode
  IN  \/ /\ ~stream[r].bad
         /\ bytes' = [bytes EXCEPT ![inode][k] = r]
         /\ stream' = [stream EXCEPT ![r].flushed = k]
         /\ UNCHANGED faults
      \/ /\ stream[r].bad \/ faults > 0
         /\ stream' = [stream EXCEPT ![r] = [inode |-> inode, flushed |-> k, bad |-> TRUE]]
         /\ faults' = IF stream[r].bad THEN faults ELSE faults - 1
         /\ UNCHANGED bytes

\* The chunks that are flushed while the text is being written.
Write(r) ==
  /\ pc[r] = "write"
  /\ stream[r].flushed < Chunks - 1
  /\ Flush(r)
  /\ UNCHANGED <<pc, final, tmp, shared>>

\* An export reads its captures while it writes; a capture that does not verify or
\* does not parse throws, and the stream's destructor runs.
Raise(r) ==
  /\ pc[r] = "write" /\ KindOf[r] = "export"
  /\ Fault(r, "unwind")

\* Mutant: close, and forget to look at the stream.
CloseUnchecked(r) ==
  /\ pc[r] = "write" /\ KindOf[r] # "plan"
  /\ stream[r].flushed = Chunks - 1
  /\ Flush(r)
  /\ Goto(r, "rename")
  /\ UNCHANGED <<final, tmp, shared>>

\* close() flushes the rest; then the stream is tested.
Close(r) ==
  /\ pc[r] = "write" /\ KindOf[r] # "plan"
  /\ stream[r].flushed = Chunks - 1
  /\ Flush(r)
  /\ Goto(r, IF stream'[r].bad THEN "failed" ELSE "rename")
  /\ UNCHANGED <<final, tmp, shared>>

\* The plan tests the stream while the rest is still in its buffer ...
Test(r) ==
  /\ pc[r] = "write" /\ KindOf[r] = "plan"
  /\ stream[r].flushed = Chunks - 1
  /\ Jump(r, IF stream[r].bad THEN "unwind" ELSE "destroy")

\* ... and the destructor flushes what is left in the buffer, reporting nothing.
Destroy(r) ==
  /\ pc[r] \in {"destroy", "unwind"}
  /\ Flush(r)
  /\ Goto(r, IF pc[r] = "destroy" THEN "ok" ELSE "failed")
  /\ UNCHANGED <<final, tmp, shared>>

\* rename(2) replaces the target; it fails if the source is gone.
Rename(r) ==
  /\ pc[r] = "rename"
  /\ \/ tmp = Nothing /\ Throw(r)
     \/ /\ tmp # Nothing
        /\ final' = tmp
        /\ tmp' = Nothing
        /\ Goto(r, "ok")
        /\ UNCHANGED <<bytes, stream, faults, shared>>

\* The process is killed; buffered chunks are lost.
Crash(r) == Running(r) /\ Fault(r, "dead")

Step(r) ==
  \/ Start(r) \/ Check(r) \/ UsePhone(r) \/ Recheck(r) \/ Open(r) \/ OpenFails(r)
  \/ Write(r) \/ Raise(r) \/ Close(r) \/ Test(r) \/ Destroy(r) \/ Rename(r)

AllOver == (\A r \in Runs : pc[r] \in Over \ {"new"}) /\ UNCHANGED vars

Next == (\E r \in Runs : Step(r) \/ Crash(r)) \/ AllOver

Spec == Init /\ [][Next]_vars

\* A run that is started is scheduled until it ends.
FairSpec == Spec /\ \A r \in Runs : WF_vars(Step(r))
-----------------------------------------------------------------------------
TypeOK ==
  /\ pc \in [Runs -> Over \cup {"check", "adb", "recheck", "open", "write", "rename",
                                "destroy", "unwind"}]
  /\ final \in Runs \cup {Nothing} /\ tmp \in Runs \cup {Nothing}
  /\ bytes \in [Runs -> [1 .. Chunks -> Runs \cup {Nothing}]]
  /\ stream \in [Runs -> [inode : Runs \cup {Nothing}, flushed : 0 .. Chunks, bad : BOOLEAN]]
  /\ faults \in 0 .. MaxFaults /\ shared \in BOOLEAN

Renamed(i) == KindOf[i] # "plan"

\* The run whose complete text the output path holds.
Published ==
  IF final # Nothing /\ \E r \in Runs : bytes[final] = ByRun(r)
    THEN CHOOSE r \in Runs : bytes[final] = ByRun(r)
    ELSE Nothing

\* A file that was renamed into place is whole and the work of one run, even if
\* earlier runs crashed and left their temporary file, as long as runs do not
\* overlap: they share the name of the temporary file.
RenamedFileIsWhole ==
  ~shared /\ final # Nothing /\ Renamed(final) => Published # Nothing

\* A run that renames its file reports success only for its own complete text.
\* (A plan may not: Destroy flushes after the last test.)
SuccessIsPublished ==
  [][\A r \in Runs :
       ~shared /\ Renamed(r) /\ pc'[r] = "ok" /\ pc[r] # "ok" => Published' = r]_vars

\* Run one at a time, the commands that refuse an existing path never replace or
\* alter what another run has completed; only an export does.
CompleteFileIsKept ==
  [][~shared' /\ Published # Nothing /\ Published' # Published =>
       \E r \in Runs : KindOf[r] = "export" /\ pc[r] # pc'[r]]_vars

\* No evidence or plan, once complete, is replaced or altered.
File == INSTANCE WriteOnce WITH Writers <- Runs, artifact <- Published

ImplementsWriteOnce == File!Spec

\* A stale temporary file stops nobody: once nothing fails any more, a run that
\* finds the path free, with no other run about, publishes; and each ends,
\* whatever the others took away from it.
RetryPublishes ==
  \A r \in Runs :
    /\ (pc[r] = "check" /\ final = Nothing /\ faults = 0 /\ ~shared)
         ~> (shared \/ (pc[r] = "ok" /\ Published = r))
    /\ pc[r] # "new" ~> pc[r] \in {"ok", "failed", "dead"}
=============================================================================
