----------------------------- MODULE AdbProcess -----------------------------
(***************************************************************************)
(* run_process (adb_client.cpp; integration_experiment.cpp has the same    *)
(* for git): the program forks, the child's output and error output go     *)
(* through one pipe, the parent reads to end of file, waits for the child  *)
(* and accepts what it read only if the child exited with 0.  The caller   *)
(* is list_devices with the test of inspect_single_device.                 *)
(*                                                                         *)
(* The pipe holds whole lines, at most Capacity of them; a line is its     *)
(* kind.  adb may leave a daemon behind that keeps the pipe open for a     *)
(* while.  No signal handler is installed, so no call is interrupted.      *)
(***************************************************************************)
EXTENDS Integers, Sequences, FiniteSets

CONSTANTS
  Listings, \* what adb may have to say: sequences of LineKinds
  Capacity, \* bound: lines the pipe holds
  ReadSize, \* bound: lines one read returns
  MaxCalls  \* bound: calls of run_process

\* A device in state "device", one in another state, the heading, the daemon's messages.
LineKinds == {"authorized", "offline", "heading", "daemon"}

ASSUME ProcessAssumption ==
  /\ Listings \subseteq Seq(LineKinds)
  /\ Capacity \in Nat \ {0} /\ ReadSize \in Nat \ {0} /\ MaxCalls \in Nat

VARIABLES
  parent,   \* "ready", "fork", "close", "read", "wait" or "returned"
  child,    \* "none", "setup", "running", "exited" or "reaped"
  code,     \* how the child ended: "none", "zero", "other" or "signal"
  listing,  \* what the child means to write
  written,  \* how many lines it has written
  pipe,     \* the lines in the pipe
  reading, writing, \* who has a descriptor of either end open
  output,   \* what the parent has read
  result,   \* "none", "output" or "threw"
  calls,
  sigchld   \* what the program inherited for SIGCHLD: "default" or "ignored"

processVars == <<child, code, listing, written>>
pipeVars == <<pipe, reading, writing>>
callVars == <<parent, processVars, pipeVars, output, result, calls, sigchld>>

ProcessInit ==
  /\ parent = "ready" /\ child = "none" /\ code = "none"
  /\ listing = <<>> /\ written = 0
  /\ pipe = <<>> /\ reading = {} /\ writing = {}
  /\ output = <<>> /\ result = "none" /\ calls = 0
  /\ sigchld \in {"default", "ignored"}

EndCall(r) == parent' = "returned" /\ result' = r

\* pipe(), which may fail.
OpenPipe ==
  /\ parent \in {"ready", "returned"}
  /\ calls < MaxCalls
  /\ child \in {"none", "reaped"}
  /\ calls' = calls + 1
  /\ output' = <<>>
  /\ UNCHANGED sigchld
  /\ child' = "none" /\ code' = "none" /\ written' = 0
  /\ \E l \in Listings : listing' = l
  /\ \/ EndCall("threw") /\ UNCHANGED pipeVars
     \/ /\ parent' = "fork" /\ result' = "none" /\ pipe' = <<>>
        /\ reading' = reading \cup {"parent"} /\ writing' = writing \cup {"parent"}

\* fork(), which may fail: then both ends are closed.
Fork ==
  /\ parent = "fork"
  /\ \/ /\ EndCall("threw")
        /\ reading' = reading \ {"parent"} /\ writing' = writing \ {"parent"}
        /\ UNCHANGED child
     \/ /\ parent' = "close" /\ child' = "setup"
        /\ reading' = reading \cup {"child"} /\ writing' = writing \cup {"child"}
        /\ UNCHANGED result
  /\ UNCHANGED <<code, listing, written, pipe, output, calls, sigchld>>

\* Mutant: the parent keeps the end it does not write to.
KeepWriteEnd ==
  parent = "close" /\ parent' = "read" /\ UNCHANGED <<processVars, pipeVars, output, result, calls, sigchld>>

CloseWriteEnd ==
  /\ parent = "close"
  /\ parent' = "read" /\ writing' = writing \ {"parent"}
  /\ UNCHANGED <<processVars, pipe, reading, output, result, calls, sigchld>>

\* read() returns some of what is there and blocks while there is nothing.
ReadPipe ==
  /\ parent = "read"
  /\ pipe # <<>>
  /\ \E n \in 1 .. Len(pipe) :
       /\ n <= ReadSize
       /\ output' = output \o SubSeq(pipe, 1, n)
       /\ pipe' = SubSeq(pipe, n + 1, Len(pipe))
  /\ UNCHANGED <<parent, processVars, reading, writing, result, calls, sigchld>>

\* End of file: nothing left and nobody who could write.
EndOfFile ==
  /\ parent = "read"
  /\ pipe = <<>> /\ writing = {}
  /\ parent' = "wait" /\ reading' = reading \ {"parent"}
  /\ UNCHANGED <<processVars, pipe, writing, output, result, calls, sigchld>>

\* Mutant: how the child ended is not looked at.
WaitOnly ==
  /\ parent = "wait"
  /\ child = "exited"
  /\ child' = "reaped"
  /\ EndCall("output")
  /\ UNCHANGED <<code, listing, written, pipeVars, output, calls, sigchld>>

\* waitpid() returns once the child is dead.  Where SIGCHLD is ignored it fails then,
\* which is not looked at, and the status keeps its initial value, that of success.
Wait ==
  /\ parent = "wait"
  /\ child = "exited"
  /\ child' = "reaped"
  /\ EndCall(IF code = "zero" \/ sigchld = "ignored" THEN "output" ELSE "threw")
  /\ UNCHANGED <<code, listing, written, pipeVars, output, calls, sigchld>>
-----------------------------------------------------------------------------
\* Whatever ends the child closes what it has open; what it forked lives on.
Die(how) ==
  /\ child' = "exited" /\ code' = how
  /\ reading' = reading \ {"child"}
  /\ UNCHANGED <<parent, listing, written, pipe, output, result, calls, sigchld>>

\* dup2 and the closes, then execvp: the child runs adb or exits with 127.
Exec ==
  /\ child = "setup"
  /\ \/ Die("other") /\ writing' = writing \ {"child"}
     \/ /\ child' = "running" /\ reading' = reading \ {"child"}
        /\ UNCHANGED <<parent, code, listing, written, pipe, writing, output, result, calls, sigchld>>

\* adb writes a line, or blocks while the pipe is full.
Write ==
  /\ child = "running"
  /\ written < Len(listing) /\ Len(pipe) < Capacity
  /\ pipe' = Append(pipe, listing[written + 1]) /\ written' = written + 1
  /\ UNCHANGED <<parent, child, code, listing, reading, writing, output, result, calls, sigchld>>

\* adb ends when it has said everything, with or without an error, and may leave its
\* daemon behind with the pipe open.
Exit ==
  /\ child = "running"
  /\ written = Len(listing)
  /\ \E how \in {"zero", "other"} : Die(how)
  /\ \/ writing' = writing \ {"child"}
     \/ writing' = (writing \ {"child"}) \cup {"daemon"}

\* The child is killed, wherever it is.
Killed == child \in {"setup", "running"} /\ Die("signal") /\ writing' = writing \ {"child"}

\* The daemon redirects its output to its log.
DaemonDetaches ==
  /\ "daemon" \in writing
  /\ writing' = writing \ {"daemon"}
  /\ UNCHANGED <<parent, processVars, pipe, reading, output, result, calls, sigchld>>

NoMoreCalls == parent = "returned" /\ calls = MaxCalls /\ UNCHANGED callVars

ParentStep == OpenPipe \/ Fork \/ CloseWriteEnd \/ ReadPipe \/ EndOfFile \/ Wait
ChildStep == Exec \/ Write \/ Exit

ProcessNext == ParentStep \/ ChildStep \/ Killed \/ DaemonDetaches \/ NoMoreCalls

Fairness == WF_callVars(ParentStep) /\ WF_callVars(ChildStep) /\ WF_callVars(DaemonDetaches)

ProcessSpec == ProcessInit /\ [][ProcessNext]_callVars
FairProcessSpec == ProcessSpec /\ Fairness
-----------------------------------------------------------------------------
\* parse_devices: every line but the heading that has two words is a device, the
\* messages of the daemon among them, whose second word is no state adb reports.
\* A device is the position of its line.
parse_devices(lines) == {n \in DOMAIN lines : lines[n] # "heading"}

\* inspect_single_device goes on with exactly one device, in state "device".
SingleDevice(lines) ==
  \E n \in DOMAIN lines : parse_devices(lines) = {n} /\ lines[n] = "authorized"

Holders == {"parent", "child", "daemon"}

ProcessTypeOK ==
  /\ parent \in {"ready", "fork", "close", "read", "wait", "returned"}
  /\ child \in {"none", "setup", "running", "exited", "reaped"}
  /\ code \in {"none", "zero", "other", "signal"}
  /\ listing \in Seq(LineKinds) /\ written \in 0 .. Len(listing)
  /\ pipe \in Seq(LineKinds) /\ Len(pipe) <= Capacity
  /\ reading \subseteq Holders /\ writing \subseteq Holders
  /\ output \in Seq(LineKinds)
  /\ result \in {"none", "output", "threw"}
  /\ calls \in 0 .. MaxCalls /\ sigchld \in {"default", "ignored"}

\* The one device the program goes on with is the only one adb has listed: a list
\* cut short by a child that dies between two lines is never taken for a complete
\* one, provided that the exit status can be asked for (adb_client.cpp:52).
OnlyDeviceIsTheOnly ==
  sigchld = "default" /\ parent = "returned" /\ result = "output" /\ SingleDevice(output) =>
    Cardinality(parse_devices(listing)) = 1

\* A call leaves nothing behind, however it ends: no descriptor of the parent and no
\* child that nobody waits for (a dry run makes dozens of calls).
NothingLeftBehind ==
  parent = "returned" => /\ "parent" \notin reading \cup writing
                         /\ child \in {"none", "reaped"}

\* Every call returns, whatever is written and wherever the child dies: neither side
\* waits for the other for ever, provided that the daemon lets the pipe go.
CallsReturn == \A n \in 1 .. MaxCalls : calls = n ~> parent = "returned"
=============================================================================
