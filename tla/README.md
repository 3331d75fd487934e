# CipherTraceDroid in TLA+

CipherTraceDroid is a C++ research tool. It drives an Android phone over `adb`, decides
whether the phone was really in the foreground or in the background while traffic was
captured, cuts captures into labelled windows, and evaluates how well applications are
recognised across the two states. What it publishes is meant to be evidence: files that
appear whole, are never replaced, and agree with what happened. This directory specifies
those parts in TLA+, model-checks them with TLC, and proves the central results with TLAPS.

Paths below are relative to the repository.

## 1. Inventory

| Component | Source | State | Operations | Model |
|---|---|---|---|---|
| Android state classifier | `src/device/android_state.cpp` | none | `classify_android_state` | `AndroidState` |
| Background stabilizer | `src/device/android_state.cpp` | observations, terminal result | `observe`, `result`, `finish` | `BackgroundStabilizer`, abstract `QuietPeriod` |
| `session dry-run` | `src/app.cpp`, `src/device/adb_client.cpp` | loop counter, timestamps, the phone | verify, launch, home, poll, publish | `DryRun` |
| Artifact files | `src/app.cpp`, `src/experiments/session_plan.cpp`, `src/features/dataset_export.cpp` | output path, temporary file, open streams | check, open, write, close, rename | `ArtifactFile`, abstract `WriteOnce` |
| Evidence bundles | `src/experiments/integration_experiment.cpp`, `src/analysis/condition_analysis.cpp` | staging and final directory, checksums | check, make, write, hash, rename, clean up | `EvidenceBundle`, abstract `WriteOnce` |
| Session manifest | `src/experiments/session_manifest.cpp` | rows, capture files | read, hash, sort, compare | `SessionManifest` |
| Windowing, features, condition analysis | `src/traffic/windowing.cpp`, `src/features/dataset_export.cpp`, `src/analysis/condition_analysis.cpp`, `src/app.cpp` | capture cache, window ledger, occupancy, profiles | the three commands that read a manifest | `DatasetCommands` |
| Feature extractor | `src/features/feature_extractor.cpp` | none | `extract_features` | `FeatureExtractor` |
| PCAP reader | `src/capture/pcap_reader.cpp` | position in the frame, counters, packets | frame loop, Ethernet, IPv4, IPv6, ports | `PcapReader` |
| Six-condition experiment | `src/experiments/integration_experiment.cpp`, `capture_source.cpp` | held-out runs, training and test samples, centroids, results | admit, hold out, select, balance, guard, train, evaluate | `SixConditions`, `Metrics` |
| adb client | `src/device/adb_client.cpp` | a pipe and a child per call | `run_process`, queries and intents | `AdbProcess`, `DryRun`, `PhoneCommands` |
| `session transition`, `observe`, `history` | `src/app.cpp`, `src/device/adb_client.cpp` | the phone | inspect, observe, move, report | `PhoneCommands` |
| Manifest builder | `src/experiments/manifest_builder.cpp` | rows | `add_interval` with a gate result | `ManifestBuilder` |
| Command dispatch and menu | `src/app.cpp`, `src/main.cpp` | words, options, typed lines | dispatch, option loops, menu | `CommandLine` |
| Grouped partitioner | `src/experiments/grouped_partitioner.cpp` | none | called by tests only | not modelled |
| PCAPdroid control, input diagnostics, logging, SHA-256 | `src/device/`, `src/util/` | none to speak of | argument lists, text | not modelled |

How they interact. The commands in `app.cpp` call the libraries in sequence, in one thread.
What runs concurrently is outside the program or another invocation of it:

- the phone, which changes between any two adb commands (`DryRun`, `PhoneCommands`);
- the child process of every adb or git command, and adb's daemon (`AdbProcess`);
- the clock, which advances during every adb command (`DryRun`, `QuietPeriod`);
- other invocations on the same output path or experiment ID (`ArtifactFile`, `EvidenceBundle`);
- whoever replaces a capture file while a command hashes and reads it (`SessionManifest`);
- the file system, which may fail a call, and a crash, which keeps what has been written.

What makes each part correct:

- *Stabilizer and manifest builder*: a pass is earned by a complete, gap-free, quiet
  series; a failure has a reason; the first verdict is final, so that an interval admitted
  on it stays justified.
- *Dry run*: exit status, evidence and phone agree; a visit of the target longer than two
  maximum gaps is not missed; the command ends.
- *Phone commands*: what is printed was true when it was asked; a locked phone is driven
  only if it locked after the test, or if the report that was tested said nothing.
- *adb process*: a call returns, leaves nothing behind, and does not yield half a list as long
  as the status of a child can be asked for.
- *Command line*: the menu builds only what `run` accepts; options are the pairs given.
- *Artifacts and bundles*: an artifact is published whole and at most once; a retry after a
  crash works; nobody touches another run's staging directory.
- *Manifest and windows*: an accepted manifest has no overlap, a refused one has a reason;
  no packet is counted twice; the ledger of windows has no hole; features, occupancy and
  profile agree with the ledger and with each other.
- *PCAP reader*: no byte outside the captured packet is interpreted; counts add up.
- *Experiment*: a run is on one side of the split in all conditions; mixed training is
  balanced; no application silently disappears; a report agrees with its predictions.

## 2. Modules

| Module | Extends / instantiates | Contents |
|---|---|---|
| `AndroidState` | | classifier as a function from an observation to a state |
| `BackgroundStabilizer` | `AndroidState`, `QuietPeriod` | the class, called with any timestamps in any order |
| `QuietPeriod` | | abstract promise of the guard |
| `ManifestBuilder` | `BackgroundStabilizer` | the guard, a coordinator that keeps its result, and the rows it adds |
| `DryRun` | `BackgroundStabilizer` | the command, adb queries, phone and clock |
| `PhoneCommands` | `AndroidState` | `session transition`, `observe`, `history` and the phone |
| `AdbProcess` | | `run_process`: fork, pipe, child, daemon; the test for one device |
| `CommandLine` | | dispatch, options, menu |
| `ArtifactFile` | `WriteOnce` | three ways of writing one file |
| `EvidenceBundle` | `WriteOnce` | two ways of writing a checksummed directory |
| `WriteOnce` | | abstract promise of a published artifact |
| `SessionManifest` | | reading and validating a manifest |
| `FeatureExtractor` | | operators for the features of the packets of a window, given by their positions |
| `DatasetCommands` | `SessionManifest`, `FeatureExtractor` | `validate-manifest`, `features`, `analysis conditions` |
| `PcapReader` | | `read_pcap` |
| `Metrics` | | `calculate_metrics` with exact fractions |
| `SixConditions` | `Metrics` | `run_six_condition_experiment` |
| `*_proofs` | their component, `TLAPS` | theorems; `DryRun_proofs` also has those of the guard and of the manifest builder, `DatasetCommands_proofs` those of the manifest and of `FeatureExtractor`, `SixConditions_proofs` those of `Metrics` |
| `Commands_proofs` | `AdbProcess`, `CommandLine`, `PhoneCommands`, `TLAPS` | theorems about the program around its libraries |
| `DataInduction` | `Functions`, `TLAPS` | lemmas: induction over numbers and finite sets, what a sum over a set is and how it splits |
| `MC*` | their component | finite instances for TLC |

Each module's operators keep the names of the code where TLA+ allows it, and
`PROJECT.json` gives the lines behind each. Operators introduced by a comment `Mutant:` are
broken variants of the definition that follows them; nothing in the specifications uses
them. They exist so that every checked property can be shown to fail for a plausible
mistake in the code.

### AndroidState, BackgroundStabilizer, QuietPeriod

A `dumpsys` text is the set of needles the policy looks for (target package, launcher
package, a normal launcher component, unusable), so `find` is membership. Times are integer
ticks; the code only subtracts and compares doubles. `terminal` is the optional
`terminal_`. `Observe`, `Result` and `Finish` are the methods; a caller may pass
non-finite, repeated or decreasing timestamps and may call after the verdict. `rejected`
(history) keeps the timestamp the guard refused, so that a failure is judged by what was
refused and not by the name it was given.

`QuietPeriod` keeps only first and last instant, kinds seen and verdict. The refinement
maps the first and last stored observation to its instants.

### ManifestBuilder

`add_interval` and its test of the gate, composed with the guard. The coordinator is the
caller the tests describe (nothing under `src/src` builds manifests this way yet): it may
ask for the result at any time, go on observing, and add intervals with the result it
holds or with none. `rows` remembers the result each row was admitted on, so that
`BackgroundRowsAreEarned` can compare it with what the guard says later.

### DryRun

One action per step that the phone can interleave with. Of the inspection, power
(`Inspect`) and trust (`InspectTrust`) decide. One observation is the four
queries of `observe_package_state` (`ReadTop`, `ReadWindows`, `ReadPower`, `ReadTrust`); a
field missing from the text reads as its default, as in the parsers. `CommandFails` is the
exception of any adb command or system call. The timestamp of a poll is taken in `Poll`,
before the queries, as in the code. `asked`, `visits` and `visitFrom` are history.

### PhoneCommands

Inspection, observation and intent as single adb commands; the phone changes between any
two. Of the inspection only power and trust decide anything (`Gate`). A field that is
missing from a text reads as FALSE, and an intent may report success without effect; the
history variable `quiet` says that none of this happened and nobody else touched the
phone. Matching is by the text of the activity, so a look-alike package (`beta`) matches
too, while the usage log is matched by its exact package; a line of it that lacks its type is dropped
(`Garbled`). `drove` (history) collects the intents that reached a locked phone, `told` what
the trust service reported to the inspection, `relocked` whether the phone locked after
that.

### AdbProcess

The pipe is a queue of whole lines with a capacity; `reading` and `writing` are the holders
of its two ends. The child inherits both ends at `fork`, closes what it does not need,
writes, and ends with zero, with an error or by a signal at any point; adb may leave a
daemon that keeps the write end for a while. `sigchld` is what the program inherited: where
the signal is ignored `waitpid` fails, which the code does not look at. A device in the list is its position:
`parse_devices` keeps the positions of what is a device, `SingleDevice` asks for exactly one. `run_process` of
`integration_experiment.cpp` is the same function for git.

### CommandLine

A command line is a sequence of words, and `run` an operator that says whether it is
printed, refused, executed, or goes on to the option loop, whose iterations are steps
(`TakeOption`, `EndOfOptions`). What a command does is left to the other modules. The menu
reads `input`; past its end every line is empty, as `getline` leaves it. One selection with
its prompts is one action (`Select`).

### ArtifactFile, EvidenceBundle, WriteOnce

Names refer to inodes, an open stream keeps its inode, `trunc` empties the named inode,
and `rename` replaces a file but not a directory with files in it. A stream flushes in
`Chunks` pieces, the last at `close` or in its destructor; the plan tests its stream before
that last flush, the other writers of single files after it. A file may fail to open
(`OpenFails`), and an export, which reads its captures while it writes, may throw half-way
(`Raise`): then the destructor flushes. The files of a bundle are
written by `write_text` and `write_file`, which test before it as well: a file can be cut
short (`Cut`) unnoticed, and is then hashed as it is. Digests are injective: a checksum is
the content it was computed from.

`shared` (history) becomes true when two runs overlap. What the code promises only for
runs one at a time is stated under `~shared`, so one run of TLC checks these promises and
those that survive an overlap on the same behaviours. `Crowds` are the sets of bundle
runs that may overlap. `ForeignStagingIsKept` speaks of every staging directory whose maker
no longer runs, so a retry after a crash may not touch it in any step, not only at `make`.

### SessionManifest, DatasetCommands

A capture has versions, and a digest is a version. Reading a manifest and hashing its
captures are separate steps, since a capture may be replaced in between (`FileChanges`). A
row names its capture by a path as written; `Normal` is `lexically_normal`, by which the
overlap test groups the rows (`CaptureOf`). The caches are keyed by the path as written, as
in the code, so a second spelling of a path is hashed and read anew.
The comparison of neighbours in sorted order is modelled row by row. What makes a row
invalid on its own (labels, numbers, flags) is one Boolean, `wellFormed`. The commands keep
their cache of decoded captures (`loaded`), and hash a cached capture again as the code does. The
window loop and the occupancy counters are modelled per window. The ledger of one row is
the set of its windows' positions among those made (`Ledger`), so that what is said of it
needs no recursion over a list. The packets of a window go through `extract_features`, and
those of a whole interval, its discarded tail included, into the condition profile. They
are given as a function from their positions in the capture, so a sum of sizes or gaps is a
sum over a set, and the sorted values are a function from ranks. Means are kept as sum and
count, deviations as variances and quantiles in quarters, so that nothing is rounded.
`validate-manifest` compares interval and capture duration, the other two commands do not:
the model has this difference too.

### PcapReader

A field is read once, so its value is chosen when it is read and the bytes need not be
kept. Every test that precedes a read is a guard. `reach` (history) is one past the last
byte read, `fragments` and `later` remember what the fragment fields said.

### SixConditions

A sample is its metadata and one integer predictor, which stands for the feature vector;
centroids are sum and count, so distances compare exactly. `predict` lets the first label
in the map's order win a tie, as the loop does. `Metrics` computes the report of a
condition with exact fractions; its sums are sums over the labels. Run IDs are numbers in the order of their names, because the code holds out the
last. `held_out_runs` is one set for all applications, as in the code.

## 3. Runs

| Run | Bounds | Shows |
|---|---|---|
| `stabilizer` | guard of 3 ticks, gap of 2, timestamps -1..5 and NaN, six texts, any calls, one interval | a pass is earned, a failure justified, `QuietPeriod` implemented, background rows stay earned |
| `dry_run` | guard of 2 s at 2 ticks/s, gap of 2 ticks, 5 ticks, 2 unasked changes, 3 activities | exit, evidence and phone agree; long visits are caught; a quiet guard is too short only after a late first poll; it terminates under fairness |
| `dry_run_late_answer` | violation | an answer may be read long after the timestamp it is filed under |
| `phone_commands` | 4 activities (one of a look-alike package), 3 unasked changes, 2 events kept | reports are true of the phone; a locked phone is driven only if it locked after the report or there was none |
| `artifacts` | 3 runs of all kinds, 2 at a time, 2 faults (crash, failed adb command, failed open or write, export that throws) | whole, kept, success only when published, a retry publishes, every run ends |
| `artifact_race` | violation, 2 overlapping runs, no fault | a published file can be replaced |
| `bundles` | 3 runs of both kinds, the staged ones also together, 2 files, 2 faults | whole and verifiable, cleaned up, not shared; never replaced |
| `dataset` | 3 rows of 6 intervals over 2 captures of 2 versions, one of them under 2 paths, 3 durations | overlaps are found exactly, no packet twice, ledger, occupancy, features and profile right |
| `pcap_reader` | 2 frames, 14 captured lengths, lengths around each test, 9 extension headers | reads stay in the packet, counts add up, fragments, decoding ends |
| `six_conditions` | the command's samples; 2 applications, 5 runs, 6 choices of windows per run | runs stay together, balance, coverage, reports add up |
| `command_line` | all lists of up to 4 words (`inspect` 5, `analysis` 6) that matter to a command; up to 4 typed lines, 6 after selection 2 | the menu is understood, options are the pairs, the program ends |
| `adb_process` | 2 calls, lists of up to 5 lines through a pipe of 2 | no half list unless SIGCHLD is ignored, every call returns |

Why the bounds are enough. The stabilizer compares only differences with two thresholds,
so a short guard with timestamps before, at and past each threshold has all cases; so do
`PcapReader`'s lengths, one below, at and above each test, with room for one more extension
header than the walk allows. A dry run of three polls has a first, a middle and a last one,
and two changes make a visit between polls; an activity of an unrelated
application would end its guard as a locked phone does, and is among the texts of `stabilizer`. Two overlapping runs are what a race needs, and
a third finds what they leave. Three rows of one capture are needed to overlap without
being neighbours in the file; the intervals of `dataset` include equal, nested, touching,
empty and over-long ones. Two applications with partly shared run IDs are the smallest
case in which one application's held-out run is another's training run. A pipe of two
lines and lists of up to five make both sides wait for each other; the second call finds
what the first left. The menu reads at most four lines per selection, so the inputs end
within every prompt. Bounds on faults,
changes and frames only cut off repetition; they are guards named `Max...` in the modules.

Deadlock is checked in every run; finished systems stutter in an explicit action.

### What the violations show

- `dry_run_late_answer`: `README.md` and `docs/adb-control-plane.md` say that an excessive
  polling gap fails immediately. The gap is measured between timestamps that are taken
  before the queries, so a stall inside the last poll is never measured.
- `artifact_race`: `docs/adb-control-plane.md:17` says "Commands that write an artifact
  refuse an existing file." Test and `rename` are two calls, so of two overlapping
  dry runs on one path the second replaces the first's evidence and both report success.
  Run one at a time, the same commands keep the promise (`artifacts`).

Three further disagreements with the documents are reachable in the models, without a run
of their own:

- `docs/adb-control-plane.md:21` says "Transitions also require Android to report an awake
  screen and an unlocked user." `deviceLocked=1` is looked for in the trust report
  (`adb_client.cpp:162`), so a report without the field reads as unlocked and the intent is
  sent. `LockedPhoneIsNotDriven` has to allow this case (`told = "nothing"`).
- `docs/research/decisions.md:71` asks to "require each manifest interval to fit the readable
  PCAP timeline before accepting a manifest for analysis". Only `validate-manifest` compares
  the two (`ReadCapture`); the analysis reports the missing part as observed and empty.
- `docs/adb-control-plane.md:17` says "All commands require exactly one authorized ADB
  device." In a program started with SIGCHLD ignored `waitpid` fails, its result is not tested
  and the status reads as success (`adb_client.cpp:52`); a list of two devices that was cut
  after the first is then accepted. `OnlyDeviceIsTheOnly` supposes the default.

More observations are described under `hazards` in `PROJECT.json`: the torn plan
that is reported as a success, the truncated bundle file whose checksum verifies, the
background transition that is "consistent" because nothing could be read, the staging directory two runs can share, the
capture replaced between hash and read of its only row, and the second IPv6 fragment header that
overwrites what the first one said.

## 4. Fairness

Safety properties use no fairness. Where something must happen:

- `DryRun`: weak fairness of the command's steps and of time. The loop is sequential code
  that always has a next step, provided adb answers; `run_process` has no timeout, so this
  assumption about adb is real and is stated here. The phone owes nothing.
- `ArtifactFile`: weak fairness of each run's own steps, since each is a running process;
  none for faults and crashes.
- `AdbProcess`: weak fairness of the parent, of the child, which is scheduled and has
  something finite to say, and of the daemon's letting go of the pipe. The last is an
  assumption about adb: a daemon that kept the pipe would block `run_process` for ever.
- `CommandLine`: weak fairness of the next step; input ends sooner or later, and a command
  returns, which is what the other modules show.
- `PcapReader`: weak fairness of decoding: a sequential loop without blocking calls.

## 5. Proofs

TLAPS proves these for every value of the constants that satisfies the named assumption of
the module (`StabilizerAssumption`, `DryRunAssumption`, `ManifestBuilderAssumption`,
`ManifestsAssumption`, `DatasetAssumption`, `PcapAssumption`, `SixAssumption`,
`ProcessAssumption`, `ArtifactFileAssumption`, `EvidenceBundleAssumption`,
`CommandLineAssumption`, `PhoneCommandsAssumption`), which TLC evaluates in the runs. They
say what the values are: of a capture that can be read, that timestamps are integers,
lengths natural numbers and transports one of the three; of a phone, that a package's name
is in the text of its own activities and not in that of the launcher. Whether timestamps
increase is not assumed: the commands test it, and the invariant remembers that they did.

Every invariant, step property and refinement that a passing run checks is a theorem. Only
proved, and checked by no run, are the type invariants, `VerdictIsFinal`, `OutputIsWhole`,
`NothingLeftBehind` and `GuardIsIdle`.

| Module | Theorems | Argument |
|---|---|---|
| `DryRun_proofs`, the guard | `TypeCorrect`, `PassEarned`, `FailureJustified`, `VerdictFinal`, `Refinement` | `IInv`: stored observations are quiet and increasing with gaps within the limit, a verdict agrees with them, and a rejection with the timestamp that was refused (`rejected`). Neither property is inductive without it, because a pass looks only at the ends of the series. Every call is then a step or a stutter of `QuietPeriod` |
| `DryRun_proofs`, manifest builder | `RowsEarned` | a passing result that the coordinator holds, or that a row was admitted on, is the verdict of the guard (`Trusted`); the verdict is final, so it stays the one `PassEarned` is about |
| `DryRun_proofs`, the command | `CommandTypeCorrect`, `ExitMatches`, `PassMatches` | `CommandInv`: how far the command has come and what it has published (`Progress`), what the sample says of the phone it was asked of (`Asked`), and what a guard without a failure has been shown (`Judged`); the guard's part is `IInv` |
| `DryRun_proofs`, jitter | `ShortGuardLate` | `TimingInv`: while the guard is open every poll made is stored (`Counted`), none before its second (`Punctual`), and no verdict of the guard itself is for the length (`Blamed`); so what `finish` calls too short has all polls, and its last at the required duration or later |
| `DryRun_proofs`, visits | `LongVisitCaught` | `VisitInv`: a visit no query has seen is short, or began after the last stored instant, or began after the instant before that one and was over when the next poll was stamped (`Missed`); stored instants are at most one gap apart, so each new one keeps such a visit within two |
| `DatasetCommands_proofs`, manifest | `AcceptedDisjoint`, `OverlapReal` | sorted and pairwise-checked neighbours of one capture imply that all earlier rows of that capture end before the current one starts; the invariant carries this from row to row |
| `DatasetCommands_proofs`, windows | `DataRefinesManifest`, `PacketsCountedOnce`, `DataAcceptedDisjoint`, `DataOverlapReal` | the commands move the manifest's state only by its own steps, so its theorems carry over; windows of a row lie in its interval, in order, and rows of one capture are disjoint |
| `DatasetCommands_proofs`, captures | `SharedCaptureVerified` | versions only grow. `HashInv`: a verified row was recorded with no later version than the file has. `CacheInv`, for each path as written: what is cached is no later than the file and no earlier than some row of the capture recorded; a row just hashed is recorded with no earlier version than any cached one (`NotAhead`), and none of its capture with a later one (`Latest`). A row that is hashed after another of its capture was read therefore pins that one's version, and a row that finds its path in the cache is pinned by its own hash |
| `DatasetCommands_proofs`, ledger | `LedgerComplete`, `OccupancyMatches` | `TallyInv`: the windows of the row in hand tile its interval up to `start` (`Tiles`), the counters are cardinalities of sets of positions (`Counts`), and the running stretch of empty windows is the one that ends at the last window (`Trailing`), which makes the longest run inductive |
| `DatasetCommands_proofs`, features | `FeaturesTrue` | `DetailInv`: a window has every packet of its interval, and its features are those of these packets (`CutFrom`). Of the features themselves: the sorted values rise and divide the values as ranks do (`InOrder`), so a quantile lies between its neighbours and has as many values on either side as it should (`QuantileDivides`); gaps telescope to the time between first and last packet (`GapsAddUp`); a variance is not negative by Cauchy and Schwarz (`SumOfSquares`); classes that exclude each other and miss nothing add up (`SumByClass`, `SumOfClasses`) |
| `DatasetCommands_proofs`, profile | `ProfileTrue` | `DetailInv` also says that a finished profile is that of the whole interval (`Described`), whatever the duration of the windows. Windows are of one length and consecutive, so each packet before the discarded tail is in exactly one (`OneWindow`), and sums over packets are sums over windows (`SumByWindow`); the offset of the first packet divided by the length counts the quiet windows before it (`QuietCount`) |
| `PcapReader_proofs` | `TypeCorrect`, `ReadsAreBounded`, `CountsBalance`, `FragmentsHaveNoPorts` | where each position lies at each stage (`Layout`), the counters one frame ahead of the results while a frame is decoded (`Balance`), and, while at most one fragment field was read, no ports after a later fragment (`FragmentInv`) |
| `SixConditions_proofs`, split | `RunsApart`, `LeakageGuardIsIdle` | training samples are never of a held-out run and test samples always are; `held_out` is fixed before the first selection |
| `SixConditions_proofs`, balance | `MixedBalanced` | before balancing the training set is all candidates of the condition (`MixedInv`); a group's ranks are a bijection with an initial segment of the numbers (`RankOnto`), and the rule keeps the same ranks of every group, so afterwards it is `Even` |
| `SixConditions_proofs`, coverage | `CompleteRunsCover` | `CoverInv`: when runs are complete, every application has a run that is held out and one that is not (`Divided`: the last run of one application is no run of another), so training and test set have samples of every application (`Covers`), before and after balancing |
| `SixConditions_proofs`, reports | `TypeCorrect`, `ReportsTrue` | `ReportInv`: a prediction is a label that was trained, since the nearest centroid of a nonempty set is one of it (`BestExists`), and a report is `calculate_metrics` of what was predicted (`Told`). Of the metrics: rows, columns and diagonal of the confusion matrix count the samples they name (`Totals`), shares lie between 0 and 1 (`Figures`), and a mean of such fractions is 1 only if each of them is (`MeanOfOnes`) |
| `Commands_proofs`, adb process | `ProcessTypeCorrect`, `NothingLeft`, `WholeOutput`, `OnlyDevice` | `Stream`: output and pipe are, in this order, what the child has written of the listing; `Stages`: who holds which end of the pipe at each step. At end of file nobody can write and the pipe is empty; a child that ended with zero had written everything. Both `WholeOutput` and `OnlyDevice` suppose that SIGCHLD is not ignored |
| `Commands_proofs`, command line | `OptionsPairs`, `MenuUnderstood` | the loop stands at the start of a pair or behind the last (`AtPair`), and the options hold what the pairs before it gave (`ReadSoFar`); the eight forms of command line the menu builds (`MenuLine`) are followed through `run` and the loop |
| `Commands_proofs`, phone commands | `SessionTypeCorrect`, `LockedNotDriven`, `ReportTrue` | `GateInv`: what the trust service called unlocked stays so until the phone locks, and past the gate it was called unlocked or not mentioned; `SampleInv`: what the sample says is true of the phone it was taken of, and after an undisturbed intent that phone shows what was wanted. Neither property is inductive alone: a verdict is right because of the sample, and the sample because of the intent. After each entry of the log the loop holds the target's events so far (`EventsLoop`), so the last one printed is the last the log had (`LastEvent`) |
| `EvidenceBundle_proofs` | `TypeCorrect`, `PublishedWhole`, `NoStagingLeft`, `ForeignStagingKept`, `Refinement` | a directory's checksums that were not cut describe its files, all of one run (`Sealed`); each run's progress says what its staging directory holds. For the refinement, `rename` onto an existing directory fails, so a bundle is published once, also when staged runs overlap |
| `ArtifactFile_proofs` | `RenamedWhole`, `SuccessPublishes`, `CompleteKept` | as long as no two runs have overlapped, the inode behind the temporary name is the one the running run created, and at `rename` it holds all chunks; a destructor has exactly one flush left (`Halfway`) |
| `DataInduction` | lemmas only | the library's induction theorems take an operator as a parameter, which the provers cannot instantiate. Here induction is about sets: a nonempty set of numbers has a least element (`LeastElement`, from the well-foundedness of the order), so a set with 0 and all successors has every number, and likewise for subsets of a finite set. A fold of the community modules is then shown to be a function defined by recursion over subsets, and a sum the same whichever element is taken off first (`SumIsFold`, `SumWithout`) |

`EvidenceBundle_proofs!Refinement` assumes `OnlyStagedOverlap`: condition analyses write
straight into their final directory, and two of them, or one and an experiment, may
interfere. What is promised only of runs one at a time says `~shared` itself: of the
proved properties `RenamedFileIsWhole`, `SuccessIsPublished`, `CompleteFileIsKept`,
`PublishedIsWhole`, `FailureLeavesNoStaging` and `ForeignStagingIsKept`. `artifact_race`
shows what overlapping runs do to a single file.

Only model-checked is liveness: `Terminates`, `RetryPublishes`, `EveryFrameEnds`,
`ProgramEnds` and `CallsReturn` need ENABLED and fairness, which the prover does not handle.

## 6. Not modelled

- Rounding of doubles: the tolerance of 1e-12 s in windowing is zero here, and means,
  quantiles, distances and metrics are exact.
- The text of reports, JSON and CSV; the parsing of numbers and addresses.
- All predictors but one in the classifier: the distance is a sum over predictors of the
  same form, so one dimension shows how labels, ties and splits behave, but not scaling.
- What `inspect_single_device` only prints, and `measure_clock_offset_seconds`.
- `grouped_partitioner.cpp`, which only tests call; the experiment splits by itself.
- `pcapdroid_controller.cpp` (argument lists) and `input_diagnostics.cpp` (text to text):
  no state and no control beyond one pass over their input.
- Logging, and SHA-256 other than as an injective function of the content.
- Names of one capture that lexical normalisation does not unify, such as symbolic links, or
  an absolute and a relative name: for the program, and here, they are different captures.
  `validate-manifest` keys its durations by path objects, for which `a//b` is `a/b`; here
  these are two spellings and the second is read anew.
- The first read of a capture, under the last of its rows, can follow a replacement after the
  hash; nothing in the program notices, and `SharedCaptureIsVerified` claims nothing of it.
- `--hands-off-confirmed` and the other words of a command line are in `CommandLine`, not
  repeated in `DryRun`.

## 7. State and what could follow

The models are complete as far as section 6 says; every safety and step property that a
passing run checks is proved for all constants, and liveness is checked on the bounds of
section 3. What would extend the project:

1. Rounding: windows cut with the tolerance of 1e-12 s, and a bound on what doubles do to
   means and quantiles. The proofs of `DatasetCommands_proofs` show what to keep.
2. Several predictors and their scaling in `SixConditions`.
3. The proof that `ProgramEnds` and `EveryFrameEnds` follow from a measure that every step
   decreases; the measures are natural numbers, but the last step needs ENABLED.
