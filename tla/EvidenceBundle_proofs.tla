------------------------ MODULE EvidenceBundle_proofs ------------------------
(***************************************************************************)
(* Proofs about the two checksummed directories, for every number of runs, *)
(* every list of artifacts and every number of crashes and failed calls.   *)
(***************************************************************************)
EXTENDS EvidenceBundle, TLAPS

Busy == {"check", "make", "write", "hash", "rename", "catch"}

Owners == Runs \cup {Nothing, Cut}

\* Checksums that were not cut short describe the files next to them, all of one run.
Sealed(d) == d.sums # NoFiles => OfOneRun(d) /\ d.sums \in {CutSums, d.files}

Alone == \A r, s \in Runs : Running(r) /\ Running(s) => r = s

\* What run r, on its own, has done so far.
Working(r) ==
  /\ pc[r] \in {"new", "check", "make"} => next[r] = 1
  /\ pc[r] \in {"make", "write", "hash", "rename"} /\ Staged(r) => ~Exists(final)
  /\ pc[r] = "make" => ~Exists(Place(r))
  /\ pc[r] \in {"write", "hash"} => Place(r).maker = r /\ Place(r).sums = NoFiles
  /\ pc[r] = "write" =>
       \A i \in 1 .. next[r] - 1 : Place(r).files[Artifacts[i]] \in {r, Cut}
  /\ pc[r] = "hash" =>
       /\ \A name \in Names : Place(r).files[name] \in {r, Cut}
       /\ \A i \in 1 .. next[r] - 1 : hashed[r][Artifacts[i]] = Place(r).files[Artifacts[i]]
  /\ pc[r] \in {"rename", "catch"} => Staged(r) /\ staging.maker = r
  /\ pc[r] = "rename" => Sealed(staging) /\ staging.sums # NoFiles

\* What is on the disk.
Checksummed == Exists(final) /\ Staged(final.maker) => final.sums # NoFiles
Leftover ==
  Exists(staging) => /\ Staged(staging.maker)
                     /\ pc[staging.maker] \in {"write", "hash", "rename", "catch", "dead"}

Disk == Sealed(final) /\ Checksummed /\ Leftover

\* As long as no two runs have overlapped.
Sequential == Alone /\ (\A r \in Runs : Working(r)) /\ Disk

IInv == TypeOK /\ (~shared => Sequential)

\* Runs that overlap are staged, so an analysis has its directory for itself.
Lonely == \A r, s \in Runs : Running(r) /\ Running(s) /\ r # s => Staged(r)
InPlace(r) ==
  ~Staged(r) =>
    /\ pc[r] \notin {"rename", "catch"}
    /\ pc[r] = "make" => ~Exists(final)
    /\ pc[r] \in {"write", "hash"} => final.sums = NoFiles

Vacant == ~Exists(final) => final = Absent

RInv == TypeOK /\ Lonely /\ Vacant /\ \A r \in Runs : InPlace(r)


LEMMA PlaceType == ASSUME TypeOK, NEW r \in Runs PROVE Place(r) \in Directories
BY DEF TypeOK, Place

\* A run puts a directory where it works.
LEMMA FillType ==
  ASSUME TypeOK, NEW r \in Runs, NEW d \in Directories, Fill(r, d)
  PROVE  staging' \in Directories /\ final' \in Directories
BY DEF TypeOK, Fill

LEMMA EmptyType ==
  /\ Absent \in Directories
  /\ \A r \in Runs : Empty(r) \in Directories
BY DEF Absent, Empty, NoFiles, Directories

LEMMA GotoType ==
  ASSUME TypeOK, NEW r \in Runs, NEW l \in Over \cup Busy, Goto(r, l)
  PROVE  pc' \in [Runs -> Over \cup Busy]
BY DEF TypeOK, Goto, Busy

LEMMA JumpType ==
  ASSUME TypeOK, NEW r \in Runs, NEW l \in Over \cup Busy, Jump(r, l)
  PROVE  TypeOK'
BY GotoType DEF TypeOK, Jump, Busy

LEMMA Limits == Len(Artifacts) \in Nat /\ Len(Artifacts) > 0 /\ MaxFaults \in Nat
BY EvidenceBundleAssumption

LEMMA InitTypeOK == Init => TypeOK
<1> SUFFICES ASSUME Init PROVE TypeOK
  OBVIOUS
<1>1. NoFiles \in [Names -> Owners]
  BY DEF NoFiles, Owners
<1>2. 1 \in 1 .. Len(Artifacts) + 1 /\ MaxFaults \in 0 .. MaxFaults
  BY Limits
<1>3. shared \in BOOLEAN
  BY DEF Init
<1>4. QED
  BY <1>1, <1>2, <1>3, EmptyType DEF Init, TypeOK, Over, Owners

LEMMA ReachesType ==
  ASSUME TypeOK, NEW left, NEW content, Reaches(left, content)
  PROVE  faults' \in 0 .. MaxFaults
BY EvidenceBundleAssumption DEF TypeOK, Reaches

LEMMA WriteType == ASSUME TypeOK, NEW r \in Runs, Write(r) PROVE TypeOK'
<1>1. CASE Jump(r, Handler(r))
  BY <1>1, JumpType DEF Handler, Over, Busy
<1>2. CASE Exists(Place(r)) /\ next' = [next EXCEPT ![r] = @ + 1]
  <2>1. PICK left \in {r, Cut} :
          /\ Reaches(left, r)
          /\ Fill(r, [Place(r) EXCEPT !.files[Artifacts[next[r]]] = left])
    BY <1>2 DEF Write, Jump
  <2>2. [Place(r) EXCEPT !.files[Artifacts[next[r]]] = left] \in Directories
    BY PlaceType DEF Directories
  <2>3. staging' \in Directories /\ final' \in Directories
    BY <2>1, <2>2, FillType
  <2>4. next' \in [Runs -> 1 .. Len(Artifacts) + 1]
    BY <1>2, EvidenceBundleAssumption DEF TypeOK, Write
  <2>5. UNCHANGED <<pc, hashed, shared>>
    BY <1>2 DEF Write, Jump
  <2>6. QED
    BY <2>1, <2>3, <2>4, <2>5, ReachesType DEF TypeOK
<1>3. QED
  BY <1>1, <1>2 DEF Write

LEMMA HashType == ASSUME TypeOK, NEW r \in Runs, Hash(r) PROVE TypeOK'
<1>1. CASE Jump(r, Handler(r))
  BY <1>1, JumpType DEF Handler, Over, Busy
<1>2. CASE Place(r).files[Artifacts[next[r]]] # Nothing
  <2>1. /\ hashed' = [hashed EXCEPT ![r][Artifacts[next[r]]] = Place(r).files[Artifacts[next[r]]]]
        /\ next' = [next EXCEPT ![r] = @ + 1] /\ next[r] <= Len(Artifacts)
        /\ UNCHANGED <<pc, staging, final, faults, shared>>
    BY <1>2 DEF Hash
  <2>2. next[r] \in 1 .. Len(Artifacts)
    BY <2>1, EvidenceBundleAssumption DEF TypeOK
  <2>3. Place(r).files[Artifacts[next[r]]] \in Runs \cup {Nothing, Cut}
    <3>1. Artifacts[next[r]] \in Names
      BY <2>2 DEF Names
    <3>2. Place(r).files \in [Names -> Runs \cup {Nothing, Cut}]
      BY PlaceType DEF Directories
    <3>3. QED
      BY <3>1, <3>2
  <2>4. hashed' \in [Runs -> [Names -> Runs \cup {Nothing, Cut}]]
    BY <2>1, <2>3 DEF TypeOK
  <2>5. next' \in [Runs -> 1 .. Len(Artifacts) + 1]
    BY <2>1, <2>2, EvidenceBundleAssumption DEF TypeOK
  <2>6. QED
    BY <2>1, <2>4, <2>5 DEF TypeOK
<1>3. QED
  BY <1>1, <1>2 DEF Hash

LEMMA WriteSumsType == ASSUME TypeOK, NEW r \in Runs, WriteSums(r) PROVE TypeOK'
<1>1. CASE Jump(r, Handler(r))
  BY <1>1, JumpType DEF Handler, Over, Busy
<1>2. CASE /\ Exists(Place(r))
           /\ \E left \in {hashed[r], CutSums} :
                Reaches(left, hashed[r]) /\ Fill(r, [Place(r) EXCEPT !.sums = left])
           /\ Goto(r, IF Staged(r) THEN "rename" ELSE "ok")
           /\ UNCHANGED <<next, hashed, shared>>
  <2>1. PICK left \in {hashed[r], CutSums} :
          Reaches(left, hashed[r]) /\ Fill(r, [Place(r) EXCEPT !.sums = left])
    BY <1>2
  <2>2. left \in [Names -> Runs \cup {Nothing, Cut}]
    BY <2>1 DEF TypeOK, CutSums
  <2>3. [Place(r) EXCEPT !.sums = left] \in Directories
    BY <2>2, PlaceType DEF Directories
  <2>4. staging' \in Directories /\ final' \in Directories
    BY <2>1, <2>3, FillType
  <2>5. pc' \in [Runs -> Over \cup Busy]
    BY <1>2, GotoType DEF Over, Busy
  <2>6. QED
    BY <1>2, <2>1, <2>4, <2>5, ReachesType DEF TypeOK, Busy
<1>3. QED
  BY <1>1, <1>2 DEF WriteSums

\* Every other step of a run moves whole directories.
LEMMA StepType ==
  ASSUME TypeOK, NEW r \in Runs, Step(r) \/ CallFails(r) \/ Crash(r)
  PROVE  TypeOK'
<1>1. CASE Start(r) \/ Crash(r) \/ CallFails(r)
  <2>1. \E l \in Over \cup Busy : Goto(r, l)
    BY <1>1 DEF Start, Crash, CallFails, Handler, Over, Busy
  <2>2. pc' \in [Runs -> Over \cup Busy]
    BY <2>1, GotoType
  <2>3. faults' \in 0 .. MaxFaults
    BY <1>1, Limits DEF TypeOK, Start, Crash, CallFails
  <2>4. shared' \in BOOLEAN
    BY <1>1 DEF TypeOK, Start, Crash, CallFails
  <2>5. UNCHANGED <<staging, final, next, hashed>>
    BY <1>1 DEF Start, Crash, CallFails
  <2>6. QED
    BY <2>2, <2>3, <2>4, <2>5 DEF TypeOK, Busy
<1>2. CASE Check(r)
  BY <1>2, JumpType DEF Check, Over, Busy
<1>3. CASE Make(r)
  <2>1. staging' \in Directories /\ final' \in Directories
    BY <1>3, PlaceType, EmptyType, FillType DEF Make
  <2>2. pc' \in [Runs -> Over \cup Busy]
    BY <1>3, GotoType DEF Make, Busy
  <2>3. QED
    BY <1>3, <2>1, <2>2 DEF TypeOK, Busy, Make
<1>4. CASE Write(r) \/ Hash(r) \/ WriteSums(r)
  BY <1>4, WriteType, HashType, WriteSumsType
<1>5. CASE Written(r)
  <2>1. pc' \in [Runs -> Over \cup Busy]
    BY <1>5, GotoType DEF Written, Busy
  <2>2. next' \in [Runs -> 1 .. Len(Artifacts) + 1]
    BY <1>5, EvidenceBundleAssumption DEF TypeOK, Written
  <2>3. QED
    BY <1>5, <2>1, <2>2 DEF TypeOK, Busy, Written
<1>6. CASE Rename(r)
  <2>1. CASE Jump(r, "catch")
    BY <2>1, JumpType DEF Busy
  <2>2. CASE final' = staging /\ staging' = Absent /\ Goto(r, "ok")
    <3>1. pc' \in [Runs -> Over \cup Busy]
      BY <2>2, GotoType DEF Over
    <3>2. UNCHANGED <<next, hashed, faults, shared>>
      BY <1>6 DEF Rename, Jump
    <3>3. QED
      BY <2>2, <3>1, <3>2, EmptyType DEF TypeOK, Busy
  <2>3. QED
    BY <1>6, <2>1, <2>2 DEF Rename
<1>7. CASE CleanUp(r)
  <2>1. pc' \in [Runs -> Over \cup Busy]
    BY <1>7, GotoType DEF CleanUp, Over
  <2>2. QED
    BY <1>7, <2>1, EmptyType DEF TypeOK, Busy, CleanUp
<1>8. QED
  BY <1>1, <1>2, <1>3, <1>4, <1>5, <1>6, <1>7 DEF Step

LEMMA StepTypeOK == TypeOK /\ [Next]_vars => TypeOK'
<1> SUFFICES ASSUME TypeOK, [Next]_vars PROVE TypeOK'
  OBVIOUS
<1>1. CASE UNCHANGED vars
  BY <1>1 DEF vars, TypeOK
<1>2. CASE Next
  BY <1>1, <1>2, StepType DEF Next, AllOver
<1>3. QED
  BY <1>1, <1>2

(***************************************************************************)
(* The directories hold files and checksums of runs, or pieces of them.    *)
(***************************************************************************)
THEOREM TypeCorrect == Spec => []TypeOK
BY InitTypeOK, StepTypeOK, PTL DEF Spec
-----------------------------------------------------------------------------
LEMMA InitInv == Init => IInv
<1> SUFFICES ASSUME Init PROVE Sequential
  BY InitTypeOK DEF IInv
<1>1. \A r \in Runs : pc[r] = "new"
  BY DEF Init
<1>2. Alone /\ \A r \in Runs : Working(r)
  BY <1>1 DEF Alone, Working, Running, Over, Init
<1>3. Disk
  BY DEF Init, Disk, Sealed, Checksummed, Leftover, Exists, Absent
<1>4. QED
  BY <1>2, <1>3 DEF Sequential

\* While one run works, the others have nothing to keep.
LEMMA OthersRest ==
  ASSUME Sequential, NEW r \in Runs, Running(r),
         \A s \in Runs : s # r => pc'[s] = pc[s] /\ next'[s] = next[s], Working(r)'
  PROVE  Alone' /\ \A s \in Runs : Working(s)'
<1>1. \A s \in Runs : s # r => pc'[s] \in Over
  BY DEF Sequential, Alone, Running
<1>2. Alone'
  BY <1>1 DEF Alone, Running
<1>3. \A s \in Runs : s # r => Working(s)'
  BY <1>1 DEF Sequential, Working, Over
<1>4. QED
  BY <1>2, <1>3

\* A step that moves no file keeps the disk, if a maker of the staging directory stays one.
LEMMA DiskStays ==
  ASSUME TypeOK, Sequential, NEW r \in Runs, UNCHANGED <<staging, final>>,
         \A s \in Runs : s # r => pc'[s] = pc[s],
         staging.maker = r => pc'[r] \in {"write", "hash", "rename", "catch", "dead"}
  PROVE  Disk'
<1>1. Exists(staging) => staging.maker \in Runs
  BY DEF TypeOK, Directories, Exists, Cut
<1>2. Leftover'
  BY <1>1 DEF Sequential, Disk, Leftover, Exists
<1>3. QED
  BY <1>2 DEF Sequential, Disk, Sealed, Checksummed

LEMMA StartSeq ==
  ASSUME TypeOK, Sequential, NEW r \in Runs, Start(r), ~shared' PROVE Sequential'
<1>1. /\ \A s \in Runs : ~Running(s)
      /\ UNCHANGED <<staging, final, next, hashed>>
      /\ \A s \in Runs : pc'[s] = IF s = r THEN "check" ELSE pc[s]
  BY DEF Start, Goto, TypeOK
<1>2. Alone' /\ \A s \in Runs : Working(s)'
  BY <1>1 DEF Alone, Running, Working, Over, Sequential, Start
<1>3. Disk'
  <2>1. Leftover'
    BY <1>1, pc[r] = "new" DEF Sequential, Disk, Leftover, TypeOK, Directories, Start, Exists
  <2>2. QED
    BY <1>1, <2>1 DEF Sequential, Disk, Sealed, Checksummed
<1>4. QED
  BY <1>2, <1>3 DEF Sequential

\* A run that stops, where it leaves neither staging directory nor rename undone.
LEMMA StopSeq ==
  ASSUME TypeOK, Sequential, NEW r \in Runs, Running(r), NEW l \in {"failed", "dead"}, Goto(r, l),
         l = "failed" => staging.maker # r,
         UNCHANGED <<staging, final, next, hashed, shared>>
  PROVE  Sequential'
<1>1. \A s \in Runs : pc'[s] = IF s = r THEN l ELSE pc[s]
  BY DEF Goto, TypeOK
<1>2. Working(r)'
  BY <1>1 DEF Working
<1>3. Leftover'
  BY <1>1 DEF Sequential, Disk, Leftover, TypeOK, Directories, Exists
<1>4. Disk'
  BY <1>3 DEF Sequential, Disk, Sealed, Checksummed
<1>5. QED
  BY <1>1, <1>2, <1>4, OthersRest DEF Sequential

\* A staged run that fails with its directory made goes on to remove it.
LEMMA CatchSeq ==
  ASSUME TypeOK, Sequential, NEW r \in Runs, Running(r), Goto(r, "catch"),
         Staged(r), staging.maker = r, UNCHANGED <<staging, final, next, hashed, shared>>
  PROVE  Sequential'
<1>1. \A s \in Runs : pc'[s] = IF s = r THEN "catch" ELSE pc[s]
  BY DEF Goto, TypeOK
<1>2. Working(r)'
  BY <1>1 DEF Working
<1>3. Disk'
  BY <1>1 DEF Sequential, Disk, Sealed, Checksummed, Leftover, Exists
<1>4. QED
  BY <1>1, <1>2, <1>3, OthersRest DEF Sequential

\* The exception handler of either kind.
LEMMA HandlerSeq ==
  ASSUME TypeOK, Sequential, NEW r \in Runs, pc[r] \in {"write", "hash", "rename"},
         Goto(r, Handler(r)), UNCHANGED <<staging, final, next, hashed, shared>>
  PROVE  Sequential'
<1>1. Running(r) /\ r # Nothing
  BY EvidenceBundleAssumption DEF Running, Over
<1>2. CASE Staged(r)
  BY <1>1, <1>2, CatchSeq DEF Sequential, Working, Place, Handler
<1>3. CASE ~Staged(r)
  <2>1. staging.maker # r
    BY <1>1, <1>3 DEF Sequential, Disk, Leftover, Exists
  <2>2. QED
    BY <1>1, <1>3, <2>1, StopSeq DEF Handler
<1>4. QED
  BY <1>2, <1>3

\* A run that has made nothing yet may stop.
LEMMA EarlyStopSeq ==
  ASSUME TypeOK, Sequential, NEW r \in Runs, pc[r] \in {"check", "make"}, Goto(r, "failed"),
         UNCHANGED <<staging, final, next, hashed, shared>>
  PROVE  Sequential'
<1>1. Running(r) /\ r # Nothing
  BY EvidenceBundleAssumption DEF Running, Over
<1>2. staging.maker # r
  BY <1>1 DEF Sequential, Disk, Leftover, Exists
<1>3. QED
  BY <1>1, <1>2, StopSeq

LEMMA FaultSeq ==
  ASSUME TypeOK, Sequential, NEW r \in Runs, CallFails(r) \/ Crash(r) PROVE Sequential'
<1>1. CASE Crash(r)
  BY <1>1, StopSeq DEF Crash
<1>2. CASE CallFails(r) /\ pc[r] = "make"
  BY <1>2, EarlyStopSeq DEF CallFails
<1>3. CASE CallFails(r) /\ pc[r] # "make"
  BY <1>3, HandlerSeq DEF CallFails
<1>4. QED
  BY <1>1, <1>2, <1>3

LEMMA CheckSeq ==
  ASSUME TypeOK, Sequential, NEW r \in Runs, Check(r) PROVE Sequential'
<1>1. CASE Occupied(r)
  BY <1>1, EarlyStopSeq DEF Check, Jump
<1>2. CASE ~Occupied(r)
  <2>1. /\ \A s \in Runs : pc'[s] = IF s = r THEN "make" ELSE pc[s]
        /\ UNCHANGED <<staging, final, next, hashed>> /\ pc[r] = "check"
    BY <1>2 DEF Check, Jump, Goto, TypeOK
  <2>2. Working(r)'
    BY <1>2, <2>1 DEF Sequential, Working, Occupied, Place, Exists, Staged
  <2>3. staging.maker # r
    BY <2>1, EvidenceBundleAssumption DEF Sequential, Disk, Leftover, Exists
  <2>4. Disk'
    BY <2>1, <2>3, DiskStays
  <2>5. QED
    BY <2>1, <2>2, <2>4, OthersRest DEF Sequential, Running, Over
<1>3. QED
  BY <1>1, <1>2

LEMMA MakeSeq ==
  ASSUME TypeOK, Sequential, NEW r \in Runs, Make(r) PROVE Sequential'
<1>1. /\ \A s \in Runs : pc'[s] = IF s = r THEN "write" ELSE pc[s]
      /\ UNCHANGED <<next, hashed>> /\ pc[r] = "make" /\ r # Nothing
  BY EvidenceBundleAssumption DEF Make, Goto, TypeOK
<1>2. Fill(r, Empty(r)) /\ ~Exists(Place(r))
  BY <1>1 DEF Make, Sequential, Working
<1>3. Empty(r).maker = r /\ Empty(r).sums = NoFiles
  BY DEF Empty, Absent
<1>4. Working(r)'
  BY <1>1, <1>2, <1>3 DEF Sequential, Working, Fill, Place
<1>5. Disk'
  BY <1>1, <1>2, <1>3 DEF Sequential, Disk, Sealed, Checksummed, Leftover, Fill, Place, Exists, TypeOK, Directories
<1>6. QED
  BY <1>1, <1>4, <1>5, OthersRest DEF Sequential, Running, Over

\* write_text adds a file of run r, or a piece of one, to what r has written.
LEMMA WriteSeq ==
  ASSUME TypeOK, Sequential, NEW r \in Runs, Write(r) PROVE Sequential'
<1>1. /\ pc[r] = "write" /\ Place(r).maker = r /\ Place(r).sums = NoFiles /\ r # Nothing
      /\ \A i \in 1 .. next[r] - 1 : Place(r).files[Artifacts[i]] \in {r, Cut}
      /\ next[r] \in 1 .. Len(Artifacts)
  BY EvidenceBundleAssumption, Limits DEF Write, Sequential, Working, TypeOK
<1>2. /\ UNCHANGED <<pc, hashed, shared>>
      /\ next' = [next EXCEPT ![r] = @ + 1]
      /\ \E left \in {r, Cut} : Fill(r, [Place(r) EXCEPT !.files[Artifacts[next[r]]] = left])
  BY <1>1 DEF Write, Exists
<1>3. PICK left \in {r, Cut} : Fill(r, [Place(r) EXCEPT !.files[Artifacts[next[r]]] = left])
  BY <1>2
<1>4. Place(r) \in Directories /\ Artifacts[next[r]] \in Names
      /\ \A i \in 1 .. next[r] : Artifacts[i] \in Names
  BY <1>1, PlaceType, Limits DEF Names
<1>5. /\ Place(r)'.maker = r /\ Place(r)'.sums = NoFiles
      /\ \A name \in Names : Place(r)'.files[name] =
           IF name = Artifacts[next[r]] THEN left ELSE Place(r).files[name]
  BY <1>1, <1>3, <1>4 DEF Fill, Place, Staged, Directories
<1>6. next'[r] = next[r] + 1 /\ \A s \in Runs : s # r => next'[s] = next[s]
  BY <1>2 DEF TypeOK
<1>7. \A i \in 1 .. next'[r] - 1 : Place(r)'.files[Artifacts[i]] \in {r, Cut}
  BY <1>1, <1>4, <1>5, <1>6
<1>8. Staged(r) => UNCHANGED final
  BY <1>3 DEF Fill
<1>9. Working(r)'
  BY <1>1, <1>2, <1>5, <1>7, <1>8 DEF Sequential, Working, Exists, Staged
<1>10. Disk'
  BY <1>1, <1>2, <1>3, <1>5 DEF Sequential, Disk, Sealed, Checksummed, Leftover, Fill, Place, Exists, Staged
<1>11. QED
  BY <1>1, <1>2, <1>6, <1>9, <1>10, OthersRest DEF Sequential, Running, Over

\* All files are written once every artifact is.
LEMMA WrittenSeq ==
  ASSUME TypeOK, Sequential, NEW r \in Runs, Written(r) PROVE Sequential'
<1>1. /\ pc[r] = "write" /\ next'[r] = 1 /\ UNCHANGED <<staging, final, hashed, shared>>
      /\ \A s \in Runs : pc'[s] = IF s = r THEN "hash" ELSE pc[s]
      /\ \A s \in Runs : s # r => next'[s] = next[s]
  BY DEF Written, Goto, TypeOK
<1>2. \A name \in Names : Place(r).files[name] \in {r, Cut}
  <2>1. \A i \in 1 .. Len(Artifacts) : i \in 1 .. next[r] - 1
    BY Limits DEF Written, TypeOK
  <2>2. QED
    BY <1>1, <2>1 DEF Sequential, Working, Names
<1>3. Working(r)'
  BY <1>1, <1>2 DEF Sequential, Working, Place, Exists, Staged
<1>4. Disk'
  BY <1>1, DiskStays
<1>5. QED
  BY <1>1, <1>3, <1>4, OthersRest DEF Sequential, Running, Over

\* Reading an artifact back gives what this run has left there.
LEMMA HashSeq ==
  ASSUME TypeOK, Sequential, NEW r \in Runs, Hash(r) PROVE Sequential'
<1>1. /\ pc[r] = "hash" /\ r # Nothing /\ Artifacts[next[r]] \in Names
      /\ \A name \in Names : Place(r).files[name] \in {r, Cut}
      /\ next[r] \in 1 .. Len(Artifacts)
  BY EvidenceBundleAssumption, Limits DEF Hash, Sequential, Working, TypeOK, Names
<1>2. Place(r).files[Artifacts[next[r]]] # Nothing
  BY <1>1, EvidenceBundleAssumption DEF Cut
<1>3. /\ hashed' = [hashed EXCEPT ![r][Artifacts[next[r]]] = Place(r).files[Artifacts[next[r]]]]
      /\ next' = [next EXCEPT ![r] = @ + 1]
      /\ UNCHANGED <<pc, staging, final, shared>>
  BY <1>2 DEF Hash
<1>4. next'[r] = next[r] + 1 /\ \A s \in Runs : s # r => next'[s] = next[s]
  BY <1>3 DEF TypeOK
<1>5. \A name \in Names : hashed'[r][name] =
        IF name = Artifacts[next[r]] THEN Place(r).files[name] ELSE hashed[r][name]
  BY <1>1, <1>3 DEF TypeOK
<1>6. \A i \in 1 .. next'[r] - 1 : hashed'[r][Artifacts[i]] = Place(r).files[Artifacts[i]]
  <2>1. \A i \in 1 .. next[r] : Artifacts[i] \in Names
    BY <1>1, Limits DEF Names
  <2>2. \A i \in 1 .. next[r] - 1 : hashed[r][Artifacts[i]] = Place(r).files[Artifacts[i]]
    BY <1>1 DEF Sequential, Working
  <2>3. \A i \in 1 .. next[r] : i = next[r] \/ i \in 1 .. next[r] - 1
    BY <1>1, Limits
  <2>4. ASSUME NEW i \in 1 .. next[r]
        PROVE  hashed'[r][Artifacts[i]] = Place(r).files[Artifacts[i]]
    BY <1>5, <2>1, <2>2, <2>3
  <2>5. next'[r] - 1 = next[r]
    BY <1>1, <1>4, Limits
  <2>6. QED
    BY <2>4, <2>5
<1>7. Working(r)'
  BY <1>1, <1>3, <1>6 DEF Sequential, Working, Place, Exists, Staged
<1>8. Disk'
  BY <1>1, <1>3, DiskStays
<1>9. QED
  BY <1>1, <1>3, <1>4, <1>7, <1>8, OthersRest DEF Sequential, Running, Over

\* The checksum file closes a directory in which everything is there.
LEMMA WriteSumsSeq ==
  ASSUME TypeOK, Sequential, NEW r \in Runs, WriteSums(r) PROVE Sequential'
<1>1. /\ pc[r] = "hash" /\ r # Nothing /\ Place(r).maker = r /\ Place(r) \in Directories
      /\ \A name \in Names : Place(r).files[name] \in {r, Cut}
      /\ Staged(r) => ~Exists(final)
  BY EvidenceBundleAssumption, PlaceType DEF WriteSums, Sequential, Working
<1>2. hashed[r] = Place(r).files
  <2>1. \A i \in 1 .. Len(Artifacts) : i \in 1 .. next[r] - 1
    BY Limits DEF WriteSums, TypeOK
  <2>2. \A name \in Names : hashed[r][name] = Place(r).files[name]
    BY <1>1, <2>1 DEF Sequential, Working, Names
  <2>3. QED
    BY <1>1, <2>2 DEF TypeOK, Directories
<1>3. PICK left \in {Place(r).files, CutSums} : Fill(r, [Place(r) EXCEPT !.sums = left])
  BY <1>1, <1>2 DEF WriteSums, Exists
<1>4. left # NoFiles
  <2>1. Artifacts[1] \in Names
    BY Limits DEF Names
  <2>2. left[Artifacts[1]] # Nothing /\ NoFiles[Artifacts[1]] = Nothing
    BY <1>1, <1>3, <2>1, EvidenceBundleAssumption DEF CutSums, NoFiles, Cut
  <2>3. QED
    BY <2>2
<1>5. /\ Place(r)'.maker = r /\ Place(r)'.files = Place(r).files /\ Place(r)'.sums = left
  BY <1>1, <1>3 DEF Fill, Place, Staged, Directories
<1>6. Sealed(Place(r))'
  BY <1>1, <1>3, <1>4, <1>5 DEF Sealed, OfOneRun
<1>7. /\ \A s \in Runs : pc'[s] = IF s = r THEN IF Staged(r) THEN "rename" ELSE "ok" ELSE pc[s]
      /\ UNCHANGED <<next, hashed, shared>>
  BY <1>1 DEF WriteSums, Goto, TypeOK, Exists
<1>8. CASE Staged(r)
  <2>1. UNCHANGED final /\ Place(r) = staging /\ Place(r)' = staging'
    BY <1>3, <1>8 DEF Fill, Place, Staged
  <2>2. Working(r)'
    BY <1>1, <1>4, <1>5, <1>6, <1>7, <1>8, <2>1 DEF Working, Exists, Staged
  <2>3. Disk'
    BY <1>5, <1>7, <1>8, <2>1 DEF Sequential, Disk, Sealed, Checksummed, Leftover, Exists, Staged
  <2>4. QED
    BY <1>1, <1>7, <2>2, <2>3, OthersRest DEF Sequential, Running, Over
<1>9. CASE ~Staged(r)
  <2>1. UNCHANGED staging /\ Place(r)' = final' /\ staging.maker # r
    BY <1>1, <1>3, <1>9 DEF Sequential, Disk, Leftover, Exists, Fill, Place, Staged
  <2>2. Working(r)'
    BY <1>7, <1>9, <2>1 DEF Working
  <2>3. Leftover'
    BY <1>7, <2>1, EvidenceBundleAssumption DEF Sequential, Disk, Leftover, Exists, TypeOK, Directories
  <2>4. Disk'
    BY <1>5, <1>6, <1>9, <2>1, <2>3 DEF Disk, Checksummed, Staged
  <2>5. QED
    BY <1>1, <1>7, <2>2, <2>4, OthersRest DEF Sequential, Running, Over
<1>10. QED
  BY <1>8, <1>9

LEMMA RenameSeq ==
  ASSUME TypeOK, Sequential, NEW r \in Runs, Rename(r) PROVE Sequential'
<1>1. /\ pc[r] = "rename" /\ Staged(r) /\ staging.maker = r
      /\ Sealed(staging) /\ staging.sums # NoFiles
  BY DEF Rename, Sequential, Working
<1>2. CASE Jump(r, "catch")
  BY <1>1, <1>2, CatchSeq DEF Jump, Running, Over
<1>3. CASE final' = staging /\ staging' = Absent /\ Goto(r, "ok")
  <2>1. /\ \A s \in Runs : pc'[s] = IF s = r THEN "ok" ELSE pc[s]
        /\ UNCHANGED <<next, hashed, shared>>
    BY <1>3 DEF Rename, Jump, Goto, TypeOK
  <2>2. Working(r)'
    BY <2>1 DEF Working
  <2>3. Disk'
    BY <1>1, <1>3 DEF Disk, Sealed, Checksummed, Leftover, Exists, Absent, Staged, OfOneRun
  <2>4. QED
    BY <1>1, <2>1, <2>2, <2>3, OthersRest DEF Sequential, Running, Over
<1>4. QED
  BY <1>2, <1>3 DEF Rename

LEMMA CleanUpSeq ==
  ASSUME TypeOK, Sequential, NEW r \in Runs, CleanUp(r) PROVE Sequential'
<1>1. /\ \A s \in Runs : pc'[s] = IF s = r THEN "failed" ELSE pc[s]
      /\ UNCHANGED <<final, next, hashed, shared>> /\ staging' = Absent /\ pc[r] = "catch"
  BY DEF CleanUp, Goto, TypeOK
<1>2. Working(r)'
  BY <1>1 DEF Working
<1>3. Disk'
  BY <1>1 DEF Sequential, Disk, Sealed, Checksummed, Leftover, Exists, Absent, OfOneRun
<1>4. QED
  BY <1>1, <1>2, <1>3, OthersRest DEF Sequential, Running, Over

LEMMA StepInv == IInv /\ [Next]_vars => IInv'
<1> SUFFICES ASSUME IInv, [Next]_vars, ~shared' PROVE Sequential'
  BY StepTypeOK DEF IInv
<1>1. CASE UNCHANGED vars
  BY <1>1 DEF vars, IInv, Sequential, Alone, Working, Disk, Sealed, Checksummed, Leftover,
              Running, Place, Exists, OfOneRun
<1>2. ASSUME NEW r \in Runs, Step(r) \/ CallFails(r) \/ Crash(r) PROVE Sequential'
  <2>1. ~shared
    BY <1>2 DEF Step, Start, Check, Make, Write, Written, Hash, WriteSums, Rename, CleanUp,
                CallFails, Crash, Jump
  <2>2. QED
    BY <1>2, <2>1, StartSeq, CheckSeq, MakeSeq, WriteSeq, WrittenSeq, HashSeq, WriteSumsSeq,
       RenameSeq, CleanUpSeq, FaultSeq DEF IInv, Step
<1>3. QED
  BY <1>1, <1>2 DEF Next, AllOver

LEMMA Invariance == Spec => []IInv
BY InitInv, StepInv, PTL DEF Spec

(***************************************************************************)
(* As long as no two runs have overlapped, whatever crashed or failed in   *)
(* between: checksums that were not cut short describe every file, all of  *)
(* one run, and an experiment is published with all its files or not at    *)
(* all.                                                                    *)
(***************************************************************************)
THEOREM PublishedWhole == Spec => []PublishedIsWhole
<1>1. IInv => PublishedIsWhole
  BY DEF IInv, Sequential, Disk, Sealed, Checksummed, PublishedIsWhole, ChecksumsHold,
         StagedIsWhole, Exists, Staged
<1>2. QED
  BY <1>1, Invariance, PTL

(***************************************************************************)
(* A staging directory is that of a run that is still busy with it, or was *)
(* killed: every failure removes it.                                       *)
(***************************************************************************)
THEOREM NoStagingLeft == Spec => []FailureLeavesNoStaging
<1>1. IInv => FailureLeavesNoStaging
  BY DEF IInv, Sequential, Disk, Leftover, FailureLeavesNoStaging, Running, Over
<1>2. QED
  BY <1>1, Invariance, PTL

(***************************************************************************)
(* What a crashed run has left in its staging directory, no later run      *)
(* touches.                                                                *)
(***************************************************************************)
THEOREM ForeignStagingKept == Spec => ForeignStagingIsKept
<1> DEFINE Kept == ~shared' /\ Exists(staging) /\ ~Running(staging.maker) => UNCHANGED staging
<1>1. IInv /\ [Next]_vars => Kept
  <2> SUFFICES ASSUME IInv, [Next]_vars, ~shared', Exists(staging), ~Running(staging.maker)
               PROVE  UNCHANGED staging
    OBVIOUS
  <2>1. ASSUME NEW r \in Runs, Step(r) \/ CallFails(r) \/ Crash(r) PROVE UNCHANGED staging
    <3>1. Sequential
      BY <2>1 DEF IInv, Step, Start, Check, Make, Write, Written, Hash, WriteSums, Rename,
                  CleanUp, CallFails, Crash, Jump
    <3>2. CASE Start(r) \/ Check(r) \/ Written(r) \/ Hash(r) \/ CallFails(r) \/ Crash(r)
      BY <3>2 DEF Start, Check, Written, Hash, CallFails, Crash, Jump
    <3>3. CASE Make(r)
      BY <3>1, <3>3 DEF Sequential, Working, Make, Fill, Place
    <3>4. CASE Write(r) \/ WriteSums(r)
      <4>1. pc[r] \in {"write", "hash"} /\ Place(r).maker = r
        BY <3>1, <3>4 DEF Sequential, Working, Write, WriteSums
      <4>2. ~Staged(r)
        BY <4>1 DEF Place, Running, Over
      <4>3. QED
        BY <3>4, <4>2 DEF Write, WriteSums, Fill, Jump
    <3>5. CASE Rename(r) \/ CleanUp(r)
      BY <3>1, <3>5 DEF Sequential, Working, Rename, CleanUp, Running, Over
    <3>6. QED
      BY <2>1, <3>2, <3>3, <3>4, <3>5 DEF Step
  <2>2. QED
    BY <2>1 DEF Next, AllOver, vars
<1>2. QED
  BY <1>1, Invariance, PTL DEF Spec, ForeignStagingIsKept
-----------------------------------------------------------------------------
\* What is assumed of runs that overlap: they are all experiments.
OnlyStagedOverlap == \A crowd \in Crowds : \A r, s \in crowd : r # s => Staged(r)

LEMMA InitRInv == Init => RInv
BY InitTypeOK DEF Init, RInv, Lonely, Vacant, InPlace, Running, Over

LEMMA LonelyStep ==
  ASSUME OnlyStagedOverlap, TypeOK, Lonely, NEW r \in Runs, Step(r) \/ CallFails(r) \/ Crash(r)
  PROVE  Lonely'
<1>1. CASE Start(r)
  <2>1. {s \in Runs : Running(s)} \cup {r} \in Crowds
    BY <1>1 DEF Start
  <2>2. \A s \in Runs : Running(s)' => s \in {t \in Runs : Running(t)} \cup {r}
    BY <1>1 DEF Start, Goto, TypeOK, Running
  <2>3. QED
    BY <2>1, <2>2 DEF OnlyStagedOverlap, Lonely, Staged
<1>2. CASE ~Start(r)
  <2>1. Running(r) /\ \A s \in Runs : s # r => pc'[s] = pc[s]
    BY <1>2 DEF Step, Check, Make, Write, Written, Hash, WriteSums, Rename, CleanUp,
                CallFails, Crash, Jump, Goto, TypeOK, Running, Over
  <2>2. QED
    BY <2>1 DEF Lonely, Running, Staged
<1>3. QED
  BY <1>1, <1>2

\* While an analysis runs, nobody else takes a step.
LEMMA InPlaceStep ==
  ASSUME TypeOK, Lonely, \A s \in Runs : InPlace(s),
         NEW r \in Runs, Step(r) \/ CallFails(r) \/ Crash(r)
  PROVE  \A s \in Runs : InPlace(s)'
<1>1. CASE Start(r)
  <2>1. UNCHANGED final /\ \A s \in Runs : pc'[s] = IF s = r THEN "check" ELSE pc[s]
    BY <1>1 DEF Start, Goto, TypeOK
  <2>2. QED
    BY <2>1 DEF InPlace, Staged, Exists
<1>2. ASSUME ~Start(r), NEW s \in Runs, s # r PROVE InPlace(s)'
  <2>1. Running(r) /\ pc'[s] = pc[s]
    BY <1>2 DEF Step, Check, Make, Write, Written, Hash, WriteSums, Rename, CleanUp,
                CallFails, Crash, Jump, Goto, TypeOK, Running, Over
  <2>2. ~Staged(s) => pc'[s] \in Over
    BY <1>2, <2>1 DEF Lonely, Running
  <2>3. QED
    BY <2>2 DEF InPlace, Over, Staged
<1>3. ASSUME ~Start(r), ~Staged(r) PROVE InPlace(r)'
  <2>1. CASE pc'[r] \in Over
    BY <2>1 DEF InPlace, Over
  <2>2. CASE Check(r)
    BY <2>2 DEF Check, Jump, Goto, TypeOK, InPlace, Occupied, Exists
  <2>3. CASE Make(r)
    <3>1. pc'[r] = "write" /\ final' = Empty(r)
      BY <1>3, <2>3 DEF Make, Goto, TypeOK, InPlace, Fill, Place
    <3>2. QED
      BY <3>1 DEF InPlace, Empty, Absent
  <2>4. CASE Write(r) /\ ~Jump(r, Handler(r))
    <3>1. PICK left \in {r, Cut} : final' = [final EXCEPT !.files[Artifacts[next[r]]] = left]
      BY <1>3, <2>4 DEF Write, Fill, Place
    <3>2. final'.sums = final.sums
      BY <3>1 DEF TypeOK, Directories
    <3>3. QED
      BY <2>4, <3>2 DEF Write, InPlace
  <2>5. CASE Written(r) \/ (Hash(r) /\ ~Jump(r, Handler(r)))
    BY <2>5 DEF Written, Hash, Goto, TypeOK, InPlace
  <2>6. CASE Jump(r, Handler(r)) \/ CallFails(r) \/ Crash(r) \/ WriteSums(r)
    <3>1. pc'[r] \in Over
      BY <1>3, <2>6 DEF Jump, CallFails, Crash, WriteSums, Handler, Goto, TypeOK, Over
    <3>2. QED
      BY <2>1, <3>1
  <2>7. ~Rename(r) /\ ~CleanUp(r)
    BY <1>3 DEF InPlace, Rename, CleanUp
  <2>8. QED
    BY <1>3, <2>2, <2>3, <2>4, <2>5, <2>6, <2>7 DEF Step
<1>4. ASSUME Staged(r) PROVE InPlace(r)'
  BY <1>4 DEF InPlace, Staged
<1>5. QED
  BY <1>1, <1>2, <1>3, <1>4

\* Files are only ever put where there is a directory.
LEMMA VacantStep ==
  ASSUME TypeOK, Vacant, NEW r \in Runs, Step(r) \/ CallFails(r) \/ Crash(r)
  PROVE  Vacant'
<1> DEFINE Puts(d) == Exists(d) /\ Fill(r, d)
<1>1. CASE UNCHANGED final
  BY <1>1 DEF Vacant, Exists
<1>2. CASE \E d \in Directories : Puts(d)
  BY <1>1, <1>2 DEF Fill, Vacant, Exists
<1>3. CASE Make(r)
  <2>1. Exists(Empty(r)) /\ Empty(r) \in Directories /\ Place(r) \in Directories
    BY EvidenceBundleAssumption, EmptyType, PlaceType DEF Empty, Absent, Exists
  <2>2. QED
    BY <1>2, <1>3, <2>1 DEF Make
<1>4. CASE Write(r) /\ ~Jump(r, Handler(r))
  <2>1. PICK left \in {r, Cut} :
          Fill(r, [Place(r) EXCEPT !.files[Artifacts[next[r]]] = left]) /\ Exists(Place(r))
    BY <1>4 DEF Write
  <2>2. [Place(r) EXCEPT !.files[Artifacts[next[r]]] = left] \in Directories
        /\ Exists([Place(r) EXCEPT !.files[Artifacts[next[r]]] = left])
    BY <2>1, PlaceType DEF Directories, Exists
  <2>3. QED
    BY <1>2, <2>1, <2>2
<1>5. CASE WriteSums(r) /\ ~Jump(r, Handler(r))
  <2>1. PICK left \in {hashed[r], CutSums} :
          Fill(r, [Place(r) EXCEPT !.sums = left]) /\ Exists(Place(r))
    BY <1>5 DEF WriteSums
  <2>2. [Place(r) EXCEPT !.sums = left] \in Directories
        /\ Exists([Place(r) EXCEPT !.sums = left])
    BY <2>1, PlaceType DEF Directories, Exists, TypeOK, CutSums
  <2>3. QED
    BY <1>2, <2>1, <2>2
<1>6. CASE Rename(r)
  BY <1>1, <1>6 DEF Rename, Jump, Vacant, Exists
<1>7. QED
  BY <1>1, <1>3, <1>4, <1>5, <1>6
  DEF Step, Start, Check, Write, Written, Hash, WriteSums, CleanUp, CallFails, Crash, Jump

LEMMA StepRInv == OnlyStagedOverlap /\ RInv /\ [Next]_vars => RInv'
<1> SUFFICES ASSUME OnlyStagedOverlap, RInv, [Next]_vars PROVE RInv'
  OBVIOUS
<1>1. CASE UNCHANGED vars
  BY <1>1, StepTypeOK DEF vars, RInv, Lonely, Vacant, InPlace, Running, Staged, Exists
<1>2. CASE Next
  BY <1>1, <1>2, StepTypeOK, LonelyStep, VacantStep, InPlaceStep DEF Next, AllOver, RInv
<1>3. QED
  BY <1>1, <1>2

\* A directory that holds a complete bundle is neither filled nor replaced.
LEMMA CompleteStays ==
  ASSUME RInv, [Next]_vars, Complete(final) PROVE UNCHANGED final
<1>1. final.files # NoFiles /\ final.sums # NoFiles
  <2>1. Artifacts[1] \in Names
    BY Limits DEF Names
  <2>2. final.files[Artifacts[1]] # Nothing /\ final.sums[Artifacts[1]] # Nothing
    BY <2>1, EvidenceBundleAssumption DEF Complete
  <2>3. QED
    BY <2>1, <2>2 DEF NoFiles
<1>2. ASSUME NEW r \in Runs, Step(r) \/ CallFails(r) \/ Crash(r) PROVE UNCHANGED final
  <2>1. CASE Start(r) \/ Check(r) \/ Written(r) \/ Hash(r) \/ Rename(r) \/ CleanUp(r) \/ CallFails(r) \/ Crash(r)
    BY <1>1, <2>1 DEF Start, Check, Written, Hash, Rename, CleanUp, CallFails, Crash, Jump
  <2>2. CASE Make(r)
    BY <1>1, <2>2 DEF Make, Fill, Place, Staged, RInv, Vacant, InPlace, Absent
  <2>3. CASE Write(r) \/ WriteSums(r)
    <3>1. pc[r] \in {"write", "hash"}
      BY <2>3 DEF Write, WriteSums
    <3>2. Staged(r)
      BY <1>1, <3>1 DEF RInv, InPlace
    <3>3. QED
      BY <2>3, <3>2 DEF Write, WriteSums, Fill, Jump
  <2>4. QED
    BY <1>2, <2>1, <2>2, <2>3 DEF Step
<1>3. QED
  BY <1>2 DEF Next, AllOver, vars

(***************************************************************************)
(* Whoever overlaps with whom among the experiments, and whatever crashes: *)
(* a complete bundle appears at most once and then never changes.          *)
(***************************************************************************)
THEOREM Refinement == ASSUME OnlyStagedOverlap PROVE Spec => ImplementsWriteOnce
<1>1. Init => Bundle!Init
  <2> SUFFICES ASSUME Init PROVE ~Complete(final)
    BY DEF Bundle!Init, Published
  <2>1. Artifacts[1] \in Names
    BY Limits DEF Names
  <2>2. final.files[Artifacts[1]] = Nothing
    BY <2>1 DEF Init, Absent, NoFiles
  <2>3. QED
    BY <2>1, <2>2, EvidenceBundleAssumption DEF Complete
<1>2. RInv /\ [Next]_vars => [Bundle!Next]_Published
  <2> SUFFICES ASSUME RInv, [Next]_vars PROVE [Bundle!Next]_Published
    OBVIOUS
  <2>1. CASE Complete(final)
    <3>1. UNCHANGED final
      BY <2>1, CompleteStays
    <3>2. UNCHANGED Published
      BY <3>1 DEF Published, Complete
    <3>3. QED
      BY <3>2
  <2>2. CASE ~Complete(final)
    <3>1. Published = Nothing
      BY <2>2 DEF Published
    <3>2. Artifacts[1] \in Names
      BY Limits DEF Names
    <3>3. Published' = Nothing \/ Published' \in Runs
      BY <3>2 DEF Published, Complete
    <3>4. QED
      BY <3>1, <3>3 DEF Bundle!Next, Bundle!Publish
  <2>3. QED
    BY <2>1, <2>2
<1>3. QED
  BY <1>1, <1>2, InitRInv, StepRInv, PTL DEF Spec, ImplementsWriteOnce, Bundle!Spec
=============================================================================
