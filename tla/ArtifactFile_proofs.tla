------------------------- MODULE ArtifactFile_proofs -------------------------
(***************************************************************************)
(* Proofs about the three ways of writing one file, for every number and   *)
(* every mix of runs, crashes, failed writes and flushes, as long as no    *)
(* two runs have overlapped.                                               *)
(***************************************************************************)
EXTENDS ArtifactFile, TLAPS

Busy == {"check", "adb", "recheck", "open", "write", "rename", "destroy", "unwind"}

\* The destructor has a flush left to do.
Halfway == \A r \in Runs : pc[r] \in {"write", "destroy", "unwind"} => stream[r].flushed < Chunks

Alone == \A r, s \in Runs : Running(r) /\ Running(s) => r = s

\* A run has not created its inode before it opens a file.
Unborn(r) ==
  pc[r] \in {"new", "check", "adb", "recheck", "open"} => final # r /\ tmp # r

\* What run r, on its own, has found and done so far.
Working(r) ==
  /\ pc[r] \in {"check", "adb", "recheck"} => KindOf[r] # "export"
  /\ pc[r] = "recheck" => KindOf[r] # "plan"
  /\ pc[r] \in Busy \ {"check", "destroy", "unwind"} /\ KindOf[r] = "dry_run" => final = Nothing
  /\ pc[r] \in {"adb", "open"} /\ KindOf[r] = "plan" => final = Nothing
  /\ pc[r] \in {"write", "unwind"} /\ Renamed(r) =>
       /\ tmp # Nothing /\ stream[r].inode = tmp
       /\ ~stream[r].bad => \A k \in 1 .. stream[r].flushed : bytes[tmp][k] = r
  /\ pc[r] = "rename" => Renamed(r) /\ tmp # Nothing /\ bytes[tmp] = ByRun(r)
  /\ pc[r] = "destroy" => ~Renamed(r)
  /\ pc[r] \in {"write", "destroy", "unwind"} /\ ~Renamed(r) =>
       /\ final = r /\ stream[r].inode = r
       /\ bytes[r][Chunks] = Nothing

Whole == final # Nothing /\ Renamed(final) => \E r \in Runs : bytes[final] = ByRun(r)
Apart == tmp # Nothing => Renamed(tmp) /\ tmp # final

Sequential ==
  /\ Alone
  /\ \A r \in Runs : Unborn(r)
  /\ \A r \in Runs : Working(r)
  /\ Whole /\ Apart

IInv == TypeOK /\ Halfway /\ (~shared => Sequential)

Streams == [inode : Runs \cup {Nothing}, flushed : 0 .. Chunks, bad : BOOLEAN]

LEMMA Limits == Chunks \in Nat /\ Chunks > 0 /\ MaxFaults \in Nat /\ Nothing \notin Runs
BY ArtifactFileAssumption

LEMMA BlankType == Blank \in [1 .. Chunks -> Runs \cup {Nothing}]
BY DEF Blank

LEMMA GotoType ==
  ASSUME TypeOK, NEW r \in Runs, NEW l \in Over \cup Busy, Goto(r, l)
  PROVE  /\ pc' \in [Runs -> Over \cup Busy]
         /\ \A s \in Runs : pc'[s] = IF s = r THEN l ELSE pc[s]
BY DEF TypeOK, Goto, Busy

\* One flush: the position moves on, and the chunk reaches the file unless the stream is bad.
LEMMA FlushFacts ==
  ASSUME TypeOK, NEW r \in Runs, stream[r].flushed < Chunks, Flush(r)
  PROVE  /\ bytes' \in [Runs -> [1 .. Chunks -> Runs \cup {Nothing}]]
         /\ stream' \in [Runs -> Streams] /\ faults' \in 0 .. MaxFaults
         /\ stream'[r].inode = stream[r].inode
         /\ stream'[r].flushed = stream[r].flushed + 1
         /\ \A s \in Runs : s # r => stream'[s] = stream[s]
         /\ \A i \in Runs : i # stream[r].inode => bytes'[i] = bytes[i]
         /\ \A i \in Runs, k \in 1 .. Chunks : k # stream[r].flushed + 1 => bytes'[i][k] = bytes[i][k]
         /\ ~stream'[r].bad => ~stream[r].bad /\
              (stream[r].inode \in Runs => bytes'[stream[r].inode][stream[r].flushed + 1] = r)
<1> DEFINE k == stream[r].flushed + 1
           inode == stream[r].inode
<1>1. /\ stream[r] \in Streams /\ stream \in [Runs -> Streams] /\ k \in 1 .. Chunks
      /\ bytes \in [Runs -> [1 .. Chunks -> Runs \cup {Nothing}]]
      /\ faults \in 0 .. MaxFaults
  BY Limits DEF TypeOK, Streams
<1>2. CASE /\ ~stream[r].bad
           /\ bytes' = [bytes EXCEPT ![inode][k] = r]
           /\ stream' = [stream EXCEPT ![r].flushed = k]
           /\ UNCHANGED faults
  <2>1. stream' \in [Runs -> Streams] /\ stream'[r].inode = inode /\ stream'[r].flushed = k
        /\ \A s \in Runs : s # r => stream'[s] = stream[s]
    BY <1>1, <1>2, Limits DEF Streams
  <2>2. /\ bytes' \in [Runs -> [1 .. Chunks -> Runs \cup {Nothing}]]
        /\ \A i \in Runs : i # inode => bytes'[i] = bytes[i]
        /\ \A i \in Runs, j \in 1 .. Chunks : j # k => bytes'[i][j] = bytes[i][j]
        /\ inode \in Runs => bytes'[inode][k] = r
    BY <1>1, <1>2
  <2>3. QED
    BY <1>1, <1>2, <2>1, <2>2
<1>3. CASE /\ stream[r].bad \/ faults > 0
           /\ stream' = [stream EXCEPT ![r] = [inode |-> inode, flushed |-> k, bad |-> TRUE]]
           /\ faults' = IF stream[r].bad THEN faults ELSE faults - 1
           /\ UNCHANGED bytes
  <2> DEFINE turned == [inode |-> inode, flushed |-> k, bad |-> TRUE]
  <2>1. turned \in Streams /\ turned.inode = inode /\ turned.flushed = k /\ turned.bad = TRUE
    <3>1. inode \in Runs \cup {Nothing} /\ k \in 0 .. Chunks
      BY <1>1, Limits DEF Streams
    <3>2. QED
      BY <3>1 DEF Streams
  <2>2. stream' = [stream EXCEPT ![r] = turned]
    BY <1>3
  <2>3. /\ stream' \in [Runs -> Streams] /\ stream'[r] = turned
        /\ \A s \in Runs : s # r => stream'[s] = stream[s]
    BY <1>1, <2>1, <2>2
  <2>4. faults' \in 0 .. MaxFaults
    BY <1>1, <1>3, Limits
  <2>5. QED
    BY <1>1, <1>3, <2>1, <2>3, <2>4
<1>4. QED
  BY <1>2, <1>3 DEF Flush

\* A stream on a name: the inode it names, or the run's own, emptied.
LEMMA OpenFacts ==
  ASSUME TypeOK, NEW r \in Runs, NEW named \in Runs \cup {Nothing}, OpenTruncated(r, named)
  PROVE  LET inode == IF named = Nothing THEN r ELSE named
         IN  /\ stream' \in [Runs -> Streams]
             /\ stream'[r] = [inode |-> inode, flushed |-> 0, bad |-> FALSE]
             /\ bytes' \in [Runs -> [1 .. Chunks -> Runs \cup {Nothing}]]
             /\ bytes'[inode] = Blank
             /\ \A i \in Runs : i # inode => bytes'[i] = bytes[i]
             /\ \A s \in Runs : s # r => stream'[s] = stream[s]
<1> DEFINE inode == IF named = Nothing THEN r ELSE named
<1>1. inode \in Runs
  OBVIOUS
<1>2. bytes' = [bytes EXCEPT ![inode] = Blank]
      /\ stream' = [stream EXCEPT ![r] = [inode |-> inode, flushed |-> 0, bad |-> FALSE]]
  BY DEF OpenTruncated
<1>3. [inode |-> inode, flushed |-> 0, bad |-> FALSE] \in Streams
  BY <1>1, Limits DEF Streams
<1>4. QED
  BY <1>1, <1>2, <1>3, BlankType DEF TypeOK, Streams

LEMMA InitType == Init => TypeOK /\ Halfway
<1> SUFFICES ASSUME Init PROVE TypeOK /\ Halfway
  OBVIOUS
<1>1. Closed \in Streams /\ MaxFaults \in 0 .. MaxFaults
  BY Limits DEF Closed, Streams
<1>2. pc = [r \in Runs |-> "new"] /\ shared \in BOOLEAN
  BY DEF Init
<1>3. TypeOK
  BY <1>1, <1>2, BlankType DEF Init, TypeOK, Streams, Over
<1>4. Halfway
  BY <1>2 DEF Halfway
<1>5. QED
  BY <1>3, <1>4

LEMMA FlushingType ==
  ASSUME TypeOK, Halfway, NEW r \in Runs, Write(r) \/ Close(r) \/ Destroy(r)
  PROVE  TypeOK' /\ Halfway'
<1>1. stream[r].flushed < Chunks /\ Flush(r) /\ UNCHANGED <<final, tmp, shared>>
  BY Limits DEF Halfway, Write, Close, Destroy, TypeOK
<1>2. /\ bytes' \in [Runs -> [1 .. Chunks -> Runs \cup {Nothing}]]
      /\ stream' \in [Runs -> Streams] /\ faults' \in 0 .. MaxFaults
      /\ \A s \in Runs : s # r => stream'[s] = stream[s]
  BY <1>1, FlushFacts
<1>3. pc' \in [Runs -> Over \cup Busy] /\ \A s \in Runs : s # r => pc'[s] = pc[s]
  <2>1. \/ pc' = pc
        \/ \E l \in {"failed", "rename", "ok"} : Goto(r, l)
    BY DEF Write, Close, Destroy
  <2>2. QED
    BY <2>1, GotoType DEF Over, Busy, TypeOK
<1>4. \/ pc'[r] \notin {"write", "destroy", "unwind"}
      \/ stream'[r].flushed < Chunks
  <2>1. CASE Write(r)
    BY <1>1, <2>1, FlushFacts, Limits DEF Write, TypeOK
  <2>2. CASE Close(r) \/ Destroy(r)
    BY <2>2 DEF Close, Destroy, Goto, TypeOK
  <2>3. QED
    BY <2>1, <2>2
<1>5. TypeOK'
  BY <1>1, <1>2, <1>3 DEF TypeOK, Streams, Busy
<1>6. Halfway'
  BY <1>2, <1>3, <1>4 DEF Halfway
<1>7. QED
  BY <1>5, <1>6

LEMMA OpenType ==
  ASSUME TypeOK, Halfway, NEW r \in Runs, Open(r)
  PROVE  TypeOK' /\ Halfway'
<1>1. PICK named \in {final, tmp} :
        /\ OpenTruncated(r, named)
        /\ \/ final' = stream'[r].inode /\ UNCHANGED tmp
           \/ tmp' = stream'[r].inode /\ UNCHANGED final
  BY DEF Open
<1>2. named \in Runs \cup {Nothing}
  BY DEF TypeOK
<1>3. /\ stream' \in [Runs -> Streams] /\ stream'[r].inode \in Runs
      /\ bytes' \in [Runs -> [1 .. Chunks -> Runs \cup {Nothing}]]
      /\ \A s \in Runs : s # r => stream'[s] = stream[s]
      /\ stream'[r].flushed = 0
  <2> DEFINE inode == IF named = Nothing THEN r ELSE named
  <2>1. inode \in Runs
    BY <1>2
  <2>2. stream'[r] = [inode |-> inode, flushed |-> 0, bad |-> FALSE]
    BY <1>1, <1>2, OpenFacts
  <2>3. stream'[r].inode = inode /\ stream'[r].flushed = 0
    BY <2>2
  <2>4. QED
    BY <1>1, <1>2, <2>1, <2>3, OpenFacts
<1>4. pc' \in [Runs -> Over \cup Busy] /\ \A s \in Runs : pc'[s] = IF s = r THEN "write" ELSE pc[s]
  BY GotoType DEF Open, Busy
<1>5. TypeOK'
  BY <1>1, <1>3, <1>4 DEF TypeOK, Streams, Busy, Open
<1>6. Halfway'
  BY <1>3, <1>4, Limits DEF Halfway
<1>7. QED
  BY <1>5, <1>6

LEMMA StepType ==
  ASSUME TypeOK, Halfway, NEW r \in Runs, Step(r) \/ Crash(r)
  PROVE  TypeOK' /\ Halfway'
<1>1. CASE Write(r) \/ Close(r) \/ Destroy(r)
  BY <1>1, FlushingType
<1>2. CASE Open(r)
  BY <1>2, OpenType
<1>3. CASE \/ Start(r) \/ Check(r) \/ UsePhone(r) \/ Recheck(r) \/ OpenFails(r)
           \/ Raise(r) \/ Test(r) \/ Rename(r) \/ Crash(r)
  <2>1. PICK l \in Over \cup Busy :
          Goto(r, l) /\ (l \in {"write", "destroy", "unwind"} => pc[r] = "write")
    BY <1>3 DEF Start, Check, UsePhone, Recheck, OpenFails, Raise, Test, Rename, Crash, Throw,
                Fault, Jump, Over, Busy
  <2>2. /\ pc' \in [Runs -> Over \cup Busy]
        /\ \A s \in Runs : pc'[s] = IF s = r THEN l ELSE pc[s]
    BY <2>1, GotoType
  <2>3. UNCHANGED <<bytes, stream>>
    BY <1>3 DEF Start, Check, UsePhone, Recheck, OpenFails, Raise, Test, Rename,
                Crash, Throw, Fault, Jump
  <2>4. final' \in Runs \cup {Nothing} /\ tmp' \in Runs \cup {Nothing}
    BY <1>3 DEF Start, Check, UsePhone, Recheck, OpenFails, Raise, Test, Rename,
                Crash, Throw, Fault, Jump, TypeOK
  <2>5. faults' \in 0 .. MaxFaults
    BY <1>3, Limits DEF Start, Check, UsePhone, Recheck, OpenFails, Raise, Test, Rename,
                Crash, Throw, Fault, Jump, TypeOK
  <2>6. shared' \in BOOLEAN
    BY <1>3 DEF Start, Check, UsePhone, Recheck, OpenFails, Raise, Test, Rename,
                Crash, Throw, Fault, Jump, TypeOK
  <2>7. TypeOK'
    BY <2>2, <2>3, <2>4, <2>5, <2>6 DEF TypeOK, Busy
  <2>8. Halfway'
    BY <2>1, <2>2, <2>3 DEF Halfway
  <2>9. QED
    BY <2>7, <2>8
<1>4. QED
  BY <1>1, <1>2, <1>3 DEF Step
-----------------------------------------------------------------------------
LEMMA InitInv == Init => IInv
<1> SUFFICES ASSUME Init PROVE Sequential
  BY InitType DEF IInv
<1>1. final = Nothing /\ tmp = Nothing /\ \A r \in Runs : pc[r] = "new" /\ r # Nothing
  BY Limits DEF Init
<1>2. QED
  BY <1>1 DEF Sequential, Alone, Running, Over, Unborn, Working, Busy, Whole, Apart

\* While one run works, the others have nothing to keep but their unborn inodes.
LEMMA OthersRest ==
  ASSUME TypeOK, Sequential, NEW r \in Runs, Running(r),
         \A s \in Runs : s # r => pc'[s] = pc[s],
         final' \in {final, r, tmp}, tmp' \in {tmp, r, Nothing},
         Unborn(r)', Working(r)'
  PROVE  Alone' /\ (\A s \in Runs : Unborn(s)') /\ (\A s \in Runs : Working(s)')
<1>1. \A s \in Runs : s # r => pc'[s] \in Over
  BY DEF Sequential, Alone, Running
<1>2. Alone'
  BY <1>1 DEF Alone, Running
<1>3. \A s \in Runs : s # r => Working(s)'
  BY <1>1 DEF Working, Over, Busy
<1>4. \A s \in Runs : s # r => Unborn(s)'
  BY Limits DEF Sequential, Unborn
<1>5. QED
  BY <1>2, <1>3, <1>4

Early == {"check", "adb", "recheck", "open"}

\* A step that touches no file.
LEMMA JumpSeq ==
  ASSUME TypeOK, Sequential, NEW r \in Runs, Running(r), NEW l \in Over \cup Busy, Goto(r, l),
         l # "new", l \in Early => pc[r] \in Early,
         UNCHANGED <<final, tmp, bytes>>, Working(r)'
  PROVE  Sequential'
<1>1. \A s \in Runs : pc'[s] = IF s = r THEN l ELSE pc[s]
  BY GotoType
<1>2. Unborn(r)'
  BY <1>1 DEF Sequential, Unborn, Early
<1>3. Whole' /\ Apart'
  BY DEF Sequential, Whole, Apart, Renamed
<1>4. QED
  BY <1>1, <1>2, <1>3, OthersRest DEF Sequential

LEMMA StartSeq ==
  ASSUME TypeOK, Sequential, NEW r \in Runs, Start(r), ~shared' PROVE Sequential'
<1>1. PICK l \in {"open", "check"} : Goto(r, l) /\ (l = "open" <=> KindOf[r] = "export")
  BY DEF Start
<1>2. /\ \A s \in Runs : pc'[s] = IF s = r THEN l ELSE pc[s]
      /\ UNCHANGED <<final, tmp, bytes, stream>> /\ \A s \in Runs : ~Running(s)
      /\ pc[r] = "new"
  BY <1>1, GotoType DEF Start, Busy
<1>3. Alone' /\ \A s \in Runs : Working(s)'
  BY <1>1, <1>2 DEF Alone, Running, Working, Over, Busy
<1>4. \A s \in Runs : Unborn(s)'
  BY <1>2 DEF Sequential, Unborn
<1>5. Whole' /\ Apart'
  BY <1>2 DEF Sequential, Whole, Apart, Renamed
<1>6. QED
  BY <1>3, <1>4, <1>5 DEF Sequential

\* The steps before the file is opened, the test of a plan's stream, what fails, a crash.
LEMMA LookSeq ==
  ASSUME TypeOK, Sequential, NEW r \in Runs,
         \/ Check(r) \/ UsePhone(r) \/ Recheck(r) \/ OpenFails(r)
         \/ Raise(r) \/ Test(r) \/ Crash(r)
  PROVE  Sequential'
<1>1. PICK l \in Over \cup Busy : Goto(r, l)
  BY DEF Check, UsePhone, Recheck, OpenFails, Raise, Test, Crash, Throw, Fault, Jump, Over, Busy
<1>2. Running(r) /\ UNCHANGED <<final, tmp, bytes, stream>>
  BY DEF Check, UsePhone, Recheck, OpenFails, Raise, Test, Crash, Throw, Fault, Jump, Running, Over
<1>3. pc'[r] = l /\ Working(r)
  BY <1>1, GotoType DEF Sequential
<1>4. l # "new" /\ (l \in Early => pc[r] \in Early)
  BY <1>1, <1>3 DEF Check, UsePhone, Recheck, OpenFails, Raise, Test, Crash, Throw, Fault, Jump, Goto, Early, TypeOK
<1>5. Working(r)'
  <2>1. CASE l \in Over
    BY <1>3, <2>1 DEF Working, Over, Busy
  <2>2. CASE Check(r) /\ l \notin Over
    BY <1>2, <1>3, <2>2 DEF Check, Throw, Jump, Goto, TypeOK, Working, Taken, Over
  <2>3. CASE UsePhone(r) /\ l \notin Over
    BY <1>2, <1>3, <2>3 DEF UsePhone, Fault, Jump, Goto, TypeOK, Working, Busy, Over
  <2>4. CASE Recheck(r) /\ l \notin Over
    BY <1>2, <1>3, <2>4 DEF Recheck, Throw, Jump, Goto, TypeOK, Working, Taken, Over
  <2>5. CASE Test(r)
    BY <1>2, <1>3, <2>5 DEF Test, Jump, Goto, TypeOK, Working, Renamed
  <2>6. CASE Raise(r)
    <3>1. pc[r] = "write" /\ KindOf[r] = "export" /\ l = "unwind"
      BY <1>1, <2>6 DEF Raise, Fault, Goto, TypeOK
    <3>2. QED
      BY <1>2, <1>3, <3>1 DEF Working, Renamed
  <2>7. CASE Crash(r) \/ OpenFails(r)
    BY <1>3, <2>1, <2>7 DEF Crash, OpenFails, Fault, Goto, TypeOK, Over
  <2>8. QED
    BY <2>1, <2>2, <2>3, <2>4, <2>5, <2>6, <2>7
<1>6. QED
  BY <1>1, <1>2, <1>4, <1>5, JumpSeq

LEMMA OpenSeq ==
  ASSUME TypeOK, Sequential, NEW r \in Runs, Open(r) PROVE Sequential'
<1>1. /\ pc[r] = "open" /\ final # r /\ tmp # r /\ r # Nothing
      /\ final \in Runs \cup {Nothing} /\ tmp \in Runs \cup {Nothing}
      /\ \A s \in Runs : pc'[s] = IF s = r THEN "write" ELSE pc[s]
  BY Limits, GotoType DEF Open, Sequential, Unborn, TypeOK, Busy
<1>2. Unborn(r)'
  BY <1>1 DEF Unborn
<1>3. CASE KindOf[r] = "plan"
  <2>1. final = Nothing /\ UNCHANGED tmp /\ OpenTruncated(r, final) /\ final' = stream'[r].inode
    BY <1>1, <1>3 DEF Open, Sequential, Working
  <2>2. /\ stream'[r] = [inode |-> r, flushed |-> 0, bad |-> FALSE] /\ bytes'[r] = Blank
    BY <1>1, <2>1, OpenFacts
  <2>3. final' = r /\ stream'[r].inode = r /\ bytes'[r][Chunks] = Nothing
    BY <2>1, <2>2, Limits DEF Blank
  <2>4. Working(r)'
    BY <1>1, <1>3, <2>3 DEF Working, Renamed, Busy
  <2>5. Whole' /\ Apart'
    BY <1>1, <1>3, <2>1, <2>3 DEF Sequential, Whole, Apart, Renamed
  <2>6. QED
    BY <1>1, <1>2, <2>1, <2>3, <2>4, <2>5, OthersRest DEF Sequential, Running, Over
<1>4. CASE KindOf[r] # "plan"
  <2> DEFINE inode == IF tmp = Nothing THEN r ELSE tmp
  <2>1. UNCHANGED final /\ OpenTruncated(r, tmp) /\ tmp' = stream'[r].inode
    BY <1>4 DEF Open
  <2>2. /\ stream'[r] = [inode |-> inode, flushed |-> 0, bad |-> FALSE]
        /\ \A i \in Runs : i # inode => bytes'[i] = bytes[i]
    BY <1>1, <2>1, OpenFacts
  <2>3. tmp' = inode /\ inode \in {r, tmp} /\ stream'[r].inode = inode /\ stream'[r].flushed = 0
    BY <2>1, <2>2
  <2>4. inode # Nothing /\ inode # final /\ Renamed(inode)
    BY <1>1, <1>4 DEF Sequential, Apart, Renamed
  <2>5. Working(r)'
    BY <1>1, <1>4, <2>1, <2>3, <2>4 DEF Sequential, Working, Renamed, Busy
  <2>6. final # Nothing => bytes'[final] = bytes[final]
    BY <1>1, <2>2, <2>4
  <2>7. Whole' /\ Apart'
    BY <2>1, <2>3, <2>4, <2>6 DEF Sequential, Whole, Apart, Renamed
  <2>8. QED
    BY <1>1, <1>2, <2>1, <2>3, <2>5, <2>7, OthersRest DEF Sequential, Running, Over
<1>5. QED
  BY <1>3, <1>4

\* A flush into the temporary file ...
LEMMA FlushTmpSeq ==
  ASSUME TypeOK, Halfway, Sequential, NEW r \in Runs, Write(r) \/ Close(r) \/ Destroy(r), Renamed(r)
  PROVE  Sequential'
<1> DEFINE n == stream[r].flushed
<1>1. /\ pc[r] \in {"write", "unwind"} /\ Flush(r) /\ n \in Nat /\ n + 1 <= Chunks
      /\ tmp \in Runs /\ stream[r].inode = tmp /\ tmp # final
      /\ ~stream[r].bad => \A k \in 1 .. n : bytes[tmp][k] = r
      /\ UNCHANGED <<final, tmp>>
  BY Limits DEF Write, Close, Destroy, Halfway, Sequential, Working, Apart, TypeOK
<1>2. /\ stream'[r].inode = tmp /\ stream'[r].flushed = n + 1
      /\ bytes' \in [Runs -> [1 .. Chunks -> Runs \cup {Nothing}]]
      /\ \A i \in Runs : i # tmp => bytes'[i] = bytes[i]
      /\ \A k \in 1 .. Chunks : k # n + 1 => bytes'[tmp][k] = bytes[tmp][k]
      /\ ~stream'[r].bad => ~stream[r].bad /\ bytes'[tmp][n + 1] = r
  BY <1>1, FlushFacts, Limits
<1>3. ~stream'[r].bad => \A k \in 1 .. n + 1 : bytes'[tmp][k] = r
  BY <1>1, <1>2, Limits
<1>4. Whole' /\ Apart'
  BY <1>1, <1>2 DEF Sequential, Whole, Apart, Renamed, TypeOK
<1>5. CASE Write(r)
  <2>1. UNCHANGED pc /\ pc[r] = "write"
    BY <1>5 DEF Write
  <2>2. Working(r)'
    BY <1>1, <1>2, <1>3, <2>1, Limits DEF Sequential, Working, Renamed, Busy
  <2>3. Unborn(r)'
    BY <1>1, <2>1 DEF Unborn
  <2>4. QED
    BY <1>1, <1>4, <2>1, <2>2, <2>3, OthersRest DEF Sequential, Running, Over
<1>6. CASE Close(r)
  <2>1. \A s \in Runs : pc'[s] = IF s = r THEN IF stream'[r].bad THEN "failed" ELSE "rename" ELSE pc[s]
    BY <1>6 DEF Close, Goto, TypeOK
  <2>2. n + 1 = Chunks /\ pc[r] = "write"
    BY <1>1, <1>6, Limits DEF Close
  <2>3. pc'[r] = "rename" => bytes'[tmp] = ByRun(r)
    BY <1>1, <1>2, <1>3, <2>1, <2>2 DEF ByRun
  <2>4. Working(r)'
    <3>1. KindOf[r] = "dry_run" => final' = Nothing
      BY <1>1, <2>2 DEF Sequential, Working, Busy
    <3>2. tmp' = tmp /\ tmp # Nothing /\ Renamed(r)
      BY <1>1, Limits
    <3>3. pc'[r] \in {"failed", "rename"}
      BY <2>1
    <3>4. QED
      BY <2>3, <3>1, <3>2, <3>3 DEF Working, Renamed, Busy
  <2>5. Unborn(r)'
    BY <2>1 DEF Unborn
  <2>6. QED
    BY <1>1, <1>4, <2>1, <2>4, <2>5, OthersRest DEF Sequential, Running, Over
<1>7. CASE Destroy(r)
  <2>1. \A s \in Runs : pc'[s] = IF s = r THEN "failed" ELSE pc[s]
    BY <1>1, <1>7 DEF Destroy, Goto, TypeOK
  <2>2. Working(r)' /\ Unborn(r)'
    BY <2>1 DEF Working, Unborn, Busy
  <2>3. QED
    BY <1>1, <1>4, <2>1, <2>2, OthersRest DEF Sequential, Running, Over
<1>8. QED
  BY <1>5, <1>6, <1>7

\* ... and one into the plan.
LEMMA FlushPlanSeq ==
  ASSUME TypeOK, Halfway, Sequential, NEW r \in Runs, Write(r) \/ Destroy(r), ~Renamed(r)
  PROVE  Sequential'
<1> DEFINE n == stream[r].flushed
<1>1. /\ pc[r] \in {"write", "destroy", "unwind"} /\ Flush(r) /\ n \in Nat /\ n + 1 <= Chunks
      /\ final = r /\ stream[r].inode = r /\ bytes[r][Chunks] = Nothing
      /\ UNCHANGED <<final, tmp>>
  BY Limits DEF Write, Destroy, Halfway, Sequential, Working, TypeOK
<1>2. /\ stream'[r].inode = r
      /\ \A k \in 1 .. Chunks : k # n + 1 => bytes'[r][k] = bytes[r][k]
  BY <1>1, FlushFacts, Limits
<1>3. Whole' /\ Apart'
  BY <1>1 DEF Sequential, Whole, Apart, Renamed
<1>4. CASE Write(r)
  <2>1. UNCHANGED pc /\ pc[r] = "write" /\ bytes'[r][Chunks] = Nothing
    BY <1>1, <1>2, <1>4, Limits DEF Write
  <2>2. Working(r)' /\ Unborn(r)'
    BY <1>1, <1>2, <2>1 DEF Working, Unborn, Renamed, Busy
  <2>3. QED
    BY <1>1, <1>3, <2>1, <2>2, OthersRest DEF Sequential, Running, Over
<1>5. CASE Destroy(r)
  <2>1. PICK l \in {"ok", "failed"} : \A s \in Runs : pc'[s] = IF s = r THEN l ELSE pc[s]
    BY <1>5 DEF Destroy, Goto, TypeOK
  <2>2. Working(r)' /\ Unborn(r)'
    BY <2>1 DEF Working, Unborn, Busy
  <2>3. QED
    BY <1>1, <1>3, <2>1, <2>2, OthersRest DEF Sequential, Running, Over
<1>6. QED
  BY <1>4, <1>5

LEMMA RenameSeq ==
  ASSUME TypeOK, Sequential, NEW r \in Runs, Rename(r) PROVE Sequential'
<1>1. pc[r] = "rename" /\ Renamed(r) /\ tmp \in Runs /\ tmp # Nothing /\ bytes[tmp] = ByRun(r)
  BY Limits DEF Rename, Sequential, Working, TypeOK
<1>2. final' = tmp /\ tmp' = Nothing /\ Goto(r, "ok") /\ UNCHANGED bytes
  BY <1>1 DEF Rename
<1>3. \A s \in Runs : pc'[s] = IF s = r THEN "ok" ELSE pc[s]
  BY <1>2 DEF Goto, TypeOK
<1>4. Working(r)' /\ Unborn(r)'
  BY <1>3 DEF Working, Unborn, Busy
<1>5. Whole' /\ Apart'
  BY <1>1, <1>2 DEF Whole, Apart
<1>6. QED
  BY <1>1, <1>2, <1>3, <1>4, <1>5, OthersRest DEF Sequential, Running, Over

LEMMA StepInv == IInv /\ [Next]_vars => IInv'
<1> SUFFICES ASSUME IInv, [Next]_vars PROVE IInv'
  OBVIOUS
<1>1. CASE UNCHANGED vars
  BY <1>1 DEF vars, IInv, TypeOK, Halfway, Sequential, Alone, Running, Unborn, Working, Whole,
              Apart, Renamed
<1>2. ASSUME NEW r \in Runs, Step(r) \/ Crash(r) PROVE IInv'
  <2>1. shared => shared'
    BY <1>2 DEF Step, Start, Check, UsePhone, Recheck, Open, OpenFails, Write, Raise, Close, Test,
                Destroy, Rename, Crash, Throw, Fault, Jump
  <2>2. ASSUME ~shared' PROVE Sequential'
    <3>1. Sequential
      BY <2>1, <2>2 DEF IInv
    <3>2. Close(r) => Renamed(r)
      BY DEF Close, Renamed
    <3>3. QED
      BY <1>2, <2>2, <3>1, <3>2, StartSeq, LookSeq, OpenSeq, FlushTmpSeq, FlushPlanSeq,
         RenameSeq DEF IInv, Step
  <2>3. QED
    BY <1>2, <2>2, StepType DEF IInv
<1>3. QED
  BY <1>1, <1>2 DEF Next, AllOver

LEMMA Invariance == Spec => []IInv
BY InitInv, StepInv, PTL DEF Spec

(***************************************************************************)
(* A file that was renamed into place is whole and the work of one run,    *)
(* also when it was written over what a crashed run had left.              *)
(***************************************************************************)
THEOREM RenamedWhole == Spec => []RenamedFileIsWhole
<1>1. IInv => RenamedFileIsWhole
  <2> SUFFICES ASSUME IInv, ~shared, final # Nothing, Renamed(final) PROVE Published # Nothing
    BY DEF RenamedFileIsWhole
  <2>1. \E r \in Runs : bytes[final] = ByRun(r)
    BY DEF IInv, Sequential, Whole
  <2>2. QED
    BY <2>1, Limits DEF Published
<1>2. QED
  BY <1>1, Invariance, PTL

\* A text tells who wrote it.
LEMMA TextsDiffer == \A r, s \in Runs : ByRun(r) = ByRun(s) => r = s
<1> SUFFICES ASSUME NEW r \in Runs, NEW s \in Runs, ByRun(r) = ByRun(s) PROVE r = s
  OBVIOUS
<1>1. Chunks \in 1 .. Chunks
  BY Limits
<1>2. ByRun(r)[Chunks] = r /\ ByRun(s)[Chunks] = s
  BY <1>1 DEF ByRun
<1>3. QED
  BY <1>2

(***************************************************************************)
(* A run that renames its file and reports success has published its own   *)
(* complete text.                                                          *)
(***************************************************************************)
THEOREM SuccessPublishes == Spec => SuccessIsPublished
<1> DEFINE Succeeds ==
      \A r \in Runs :
        ~shared /\ Renamed(r) /\ pc'[r] = "ok" /\ pc[r] # "ok" => Published' = r
<1>1. IInv /\ [Next]_vars => Succeeds
  <2> SUFFICES ASSUME IInv, [Next]_vars, NEW r \in Runs,
                      ~shared, Renamed(r), pc'[r] = "ok", pc[r] # "ok"
               PROVE  Published' = r
    OBVIOUS
  <2>1. PICK s \in Runs : Step(s) \/ Crash(s)
    BY DEF Next, AllOver, vars
  <2>2. \A q \in Runs : q # s => pc'[q] = pc[q]
    BY <2>1 DEF Step, Start, Check, UsePhone, Recheck, Open, OpenFails, Write, Raise, Close, Test,
                Destroy, Rename, Crash, Throw, Fault, Jump, Goto, IInv, TypeOK
  <2>3. Step(r) \/ Crash(r)
    BY <2>1, <2>2
  <2>4. Rename(r) \/ Destroy(r)
    BY <2>3 DEF Step, Start, Check, UsePhone, Recheck, Open, OpenFails, Write, Raise, Close, Test,
                Crash, Throw, Fault, Jump, Goto, IInv, TypeOK
  <2>5. Sequential
    BY DEF IInv
  <2>6. Rename(r)
    BY <2>4, <2>5 DEF Destroy, Goto, Sequential, Working, IInv, TypeOK
  <2>7. tmp \in Runs /\ bytes[tmp] = ByRun(r) /\ final' = tmp /\ UNCHANGED bytes
    BY <2>5, <2>6 DEF Rename, Throw, Jump, Goto, Sequential, Working, IInv, TypeOK
  <2>8. final' # Nothing /\ bytes'[final'] = ByRun(r)
    BY <2>7, Limits
  <2>9. \A q \in Runs : bytes'[final'] = ByRun(q) => q = r
    BY <2>8, TextsDiffer
  <2>10. QED
    BY <2>8, <2>9 DEF Published
<1>2. QED
  BY <1>1, Invariance, PTL DEF Spec, SuccessIsPublished

(***************************************************************************)
(* Run one at a time, a dry run or a plan never replaces or alters what    *)
(* another run has completed: only an export does.                         *)
(***************************************************************************)
THEOREM CompleteKept == Spec => CompleteFileIsKept
<1> DEFINE Kept ==
      ~shared' /\ Published # Nothing /\ Published' # Published =>
        \E r \in Runs : KindOf[r] = "export" /\ pc[r] # pc'[r]
<1>1. IInv /\ [Next]_vars => Kept
  <2> SUFFICES ASSUME IInv, [Next]_vars, ~shared', Published # Nothing,
                      \A r \in Runs : KindOf[r] = "export" => pc'[r] = pc[r]
               PROVE  Published' = Published
    OBVIOUS
  <2>1. final # Nothing /\ final \in Runs /\ \E w \in Runs : bytes[final] = ByRun(w)
    BY DEF Published, IInv, TypeOK
  <2>2. ASSUME NEW r \in Runs, Step(r) \/ Crash(r)
        PROVE  final' = final /\ bytes'[final] = bytes[final]
    <3>1. Sequential
      BY <2>2 DEF IInv, Step, Start, Check, UsePhone, Recheck, Open, OpenFails, Write, Raise,
                  Close, Test, Destroy, Rename, Crash, Throw, Fault, Jump
    <3>2. CASE \/ Start(r) \/ Check(r) \/ UsePhone(r) \/ Recheck(r) \/ OpenFails(r)
               \/ Raise(r) \/ Test(r) \/ Crash(r)
      BY <3>2 DEF Start, Check, UsePhone, Recheck, OpenFails, Raise, Test, Crash, Throw, Fault, Jump
    <3>3. KindOf[r] = "export" => pc'[r] = pc[r]
      OBVIOUS
    <3>4. ~Open(r)
      BY <2>1, <3>1, <3>3, ArtifactFileAssumption
      DEF Open, Goto, Sequential, Working, Busy, IInv, TypeOK
    <3>5. ~Rename(r) \/ UNCHANGED <<final, bytes>>
      BY <2>1, <3>1, <3>3, ArtifactFileAssumption
      DEF Rename, Throw, Jump, Goto, Sequential, Working, Renamed, Busy, IInv, TypeOK
    <3>6. CASE (Write(r) \/ Close(r) \/ Destroy(r)) /\ ~Renamed(r)
      <4>1. pc[r] \in {"write", "destroy", "unwind"} /\ final = r /\ bytes[r][Chunks] = Nothing
        BY <3>1, <3>6 DEF Write, Close, Destroy, Sequential, Working
      <4>2. \A w \in Runs : ByRun(w)[Chunks] = w
        BY Limits DEF ByRun
      <4>3. QED
        BY <2>1, <4>1, <4>2, Limits
    <3>7. CASE (Write(r) \/ Close(r) \/ Destroy(r)) /\ Renamed(r)
      <4>1. /\ stream[r].inode = tmp /\ tmp # final /\ Flush(r) /\ UNCHANGED final
            /\ stream[r].flushed < Chunks
        BY <3>1, <3>7, Limits
        DEF Write, Close, Destroy, Halfway, Sequential, Working, Apart, IInv, TypeOK
      <4>2. QED
        BY <2>1, <4>1, FlushFacts DEF IInv
    <3>8. QED
      BY <2>2, <3>2, <3>4, <3>5, <3>6, <3>7 DEF Step
  <2>3. final' = final /\ bytes'[final] = bytes[final]
    BY <2>2 DEF Next, AllOver, vars
  <2>4. QED
    BY <2>3 DEF Published
<1>2. QED
  BY <1>1, Invariance, PTL DEF Spec, CompleteFileIsKept
=============================================================================
