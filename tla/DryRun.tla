------------------------------- MODULE DryRun -------------------------------
(***************************************************************************)
(* `session dry-run' (src/src/app.cpp): verify that the target application *)
(* is in the foreground, send the phone home, poll it once a second under  *)
(* a BackgroundStabilizer, and publish the verdict as evidence.            *)
(*                                                                         *)
(* The phone is external: its foreground activity, lock, screen and shade  *)
(* change at any moment, also between the adb commands of one observation. *)
(* Any adb command may fail; each takes any amount of time.                *)
(***************************************************************************)
EXTENDS BackgroundStabilizer, FiniteSets

CONSTANTS
  GuardSeconds,      \* the loop polls at 0, 1, ..., GuardSeconds; 15 in the code
  TicksPerSecond,
  Activities,        \* activities the phone can resume
  TextOf,            \* the text dumpsys prints for each
  TargetActivities,  \* those of the application under study
  HomeActivities,    \* those the HOME intent can start
  MaxTime,           \* bound: ticks of the guard
  MaxChanges         \* bound: changes of the phone nobody asked for

ASSUME DryRunAssumption ==
  /\ Required = GuardSeconds * TicksPerSecond
  /\ TextOf \in [Activities -> Texts]
  /\ {{}, {Unusable}} \subseteq Texts
  /\ TargetActivities \cup HomeActivities \subseteq Activities
  /\ \A a \in TargetActivities : TargetPackage \in TextOf[a]
  /\ GuardSeconds \in Nat /\ TicksPerSecond \in Nat /\ MaxTime \in Nat /\ MaxChanges \in Nat
  /\ 0 .. MaxTime \subseteq Timestamps

VARIABLES
  pc,       \* the next step of the command
  now,      \* ticks since `origin'
  second,   \* the loop counter, -1 before the loop
  elapsed,  \* the timestamp taken for the current poll
  sample,   \* the observation being assembled
  result,   \* the result to publish
  path,     \* what the output path holds: "absent", "foreign" or "evidence"
  evidence, \* the published result, if any
  exit,     \* the exit status, -1 while running
  phone,    \* the phone's real state
  changes,  \* unasked changes left
  asked,    \* history: what the phone showed when its top activity was queried
  visits,   \* history: <<from, to>> of every finished visit of the target in the guard
  visitFrom \* history: since when the target is shown in the guard, -1 if it is not

localVars == <<second, elapsed, sample, result>>
fileVars  == <<path, evidence>>
worldVars == <<now, phone, changes, visits, visitFrom>>
vars == <<stabilizerVars, pc, localVars, fileVars, exit, worldVars, asked>>

NoSample == [ top_activity |-> {}, notification_shade_active |-> FALSE,
              screen_interactive |-> FALSE, device_locked |-> FALSE ]

\* The activity the verification and the latest query saw; whether a poll saw
\* the target; whether a query came more than MaxGap after its timestamp.
NeverAsked == [ verified |-> NoResult, polls |-> 0, target |-> FALSE,
                latest |-> NoResult, late |-> FALSE ]

OnTarget == phone.resumed \in TargetActivities

InGuard == second >= 0 /\ pc \in {"poll", "top", "windows", "power", "trust"}

Init ==
  /\ StabilizerInit
  /\ pc = "start" /\ second = -1 /\ elapsed = 0 /\ now = 0
  /\ sample = NoSample /\ result = NoResult
  /\ path \in {"absent", "foreign"} /\ evidence = NoResult /\ exit = -1
  /\ phone \in [resumed : Activities, interactive : {TRUE}, locked : BOOLEAN, shade : {FALSE}]
  /\ changes = MaxChanges
  /\ asked = NeverAsked /\ visits = {} /\ visitFrom = -1

-----------------------------------------------------------------------------
(* The phone and the clock.                                                *)

\* The phone resumes activity a; the history notes visits of the target.
Resume(a) ==
  /\ phone' = [phone EXCEPT !.resumed = a]
  /\ visitFrom' = IF InGuard /\ a \in TargetActivities
                    THEN (IF visitFrom < 0 THEN now ELSE visitFrom)
                    ELSE -1
  /\ visits' = IF visitFrom >= 0 /\ a \notin TargetActivities
                 THEN visits \cup {<<visitFrom, now>>} ELSE visits

\* The user, a notification or the system changes what the phone shows.
PhoneChanges ==
  /\ exit < 0
  /\ changes > 0
  /\ changes' = changes - 1
  /\ \/ \E a \in Activities \ {phone.resumed} : Resume(a)
     \/ /\ \E field \in {"interactive", "locked", "shade"} :
             phone' = [phone EXCEPT ![field] = ~@]
        /\ UNCHANGED <<visits, visitFrom>>
  /\ UNCHANGED <<stabilizerVars, pc, localVars, fileVars, exit, now, asked>>

\* Another command publishes a file under the same name.  Nothing reads the
\* path between its two tests, so it is enough that this happens next to one.
OtherWriter ==
  /\ pc \in {"inspect", "events", "write"}
  /\ path = "absent"
  /\ path' = "foreign"
  /\ UNCHANGED <<stabilizerVars, pc, localVars, evidence, exit, worldVars, asked>>

Tick ==
  /\ InGuard
  /\ now < MaxTime
  /\ now' = now + 1
  /\ UNCHANGED <<stabilizerVars, pc, localVars, fileVars, exit, phone, changes, visits, visitFrom, asked>>

-----------------------------------------------------------------------------
(* The command.  Every exception ends in the same handler.                 *)

Goto(label) == pc' = label

\* The step decides nothing but what comes next.
Jump(label) ==
  /\ Goto(label)
  /\ UNCHANGED <<stabilizerVars, localVars, fileVars, exit, worldVars, asked>>

Leave(status) == exit' = status /\ Goto("done")

\* catch (const std::exception&): the locals of the try block are gone; report
\* and return kCliError without evidence.
Throw ==
  /\ Leave(2)
  /\ observations' = <<>> /\ terminal' = NoResult /\ rejected' = NoResult
  /\ second' = -1 /\ elapsed' = 0 /\ sample' = NoSample /\ result' = NoResult
  /\ UNCHANGED <<fileVars, worldVars, asked>>

\* A step that issues an adb command or a system call that can fail.
CommandFails ==
  /\ pc \in {"inspect", "unlocked", "launch", "top", "windows", "power", "trust", "home", "events", "write"}
  /\ Throw

CheckOutput ==
  /\ pc = "start"
  /\ \/ path # "absent" /\ Throw
     \/ /\ path = "absent"
        /\ Jump("inspect")

\* inspect_single_device: one authorized device, package installed, VPN off, HOME
\* resolved (CommandFails otherwise), and the phone interactive and unlocked, by
\* the replies to two commands; a missing field reads as asleep, and as unlocked.
Inspect ==
  /\ pc = "inspect"
  /\ \E awake \in {phone.interactive, FALSE} :
       \/ ~awake /\ Throw
       \/ awake /\ Jump("unlocked")

InspectTrust ==
  /\ pc = "unlocked"
  /\ \E locked \in {phone.locked, FALSE} :
       \/ locked /\ Throw
       \/ ~locked /\ Jump("launch")

\* monkey reports success whether or not the activity got resumed.
Launch ==
  /\ pc = "launch"
  /\ \E a \in TargetActivities \cup {phone.resumed} : Resume(a)
  /\ Goto("top")
  /\ UNCHANGED <<stabilizerVars, localVars, fileVars, exit, now, changes, asked>>

\* observe_package_state: four commands, the resumed activity first.  A missing
\* field reads as an unusable activity, no shade, not interactive, not locked.
ReadTop ==
  /\ pc = "top"
  /\ \E text \in {TextOf[phone.resumed], {Unusable}} :
       sample' = [NoSample EXCEPT !.top_activity = text]
  /\ asked' = [ verified |-> IF second < 0 THEN phone.resumed ELSE asked.verified,
                 polls    |-> IF second < 0 THEN 0 ELSE asked.polls + 1,
                 target   |-> asked.target \/ (second >= 0 /\ OnTarget),
                 latest   |-> phone.resumed,
                 late     |-> asked.late \/ (second >= 0 /\ now - elapsed > MaxGap) ]
  /\ Goto("windows")
  /\ UNCHANGED <<stabilizerVars, second, elapsed, result, fileVars, exit, worldVars>>

ReadField(label, field, value, next) ==
  /\ pc = label
  /\ \E reply \in {value, FALSE} : sample' = [sample EXCEPT ![field] = reply]
  /\ Goto(next)
  /\ UNCHANGED <<stabilizerVars, second, elapsed, result, fileVars, exit, worldVars, asked>>

ReadWindows == ReadField("windows", "notification_shade_active", phone.shade, "power")
ReadPower   == ReadField("power", "screen_interactive", phone.interactive, "trust")

\* Mutant: the launch is verified again until the target is shown.
ReadTrustRetried ==
  /\ pc = "trust"
  /\ \E reply \in {phone.locked, FALSE} :
       LET observation == [sample EXCEPT !.device_locked = reply]
       IN  \/ /\ second < 0
              /\ Goto(IF ClassifyAndroidState(observation) = "target_app_resumed"
                        THEN "home" ELSE "top")
              /\ UNCHANGED <<stabilizerVars, second>>
           \/ /\ second >= 0
              /\ Observe(elapsed, observation)
              /\ second' = second + 1
              /\ Goto("poll")
  /\ sample' = NoSample
  /\ UNCHANGED <<elapsed, result, fileVars, exit, worldVars, asked>>

\* The last command completes the observation; the caller judges it at once.
ReadTrust ==
  /\ pc = "trust"
  /\ \E reply \in {phone.locked, FALSE} :
       LET observation == [sample EXCEPT !.device_locked = reply]
       IN  \/ /\ second < 0       \* verification of the launch
              /\ IF ClassifyAndroidState(observation) = "target_app_resumed"
                   THEN Goto("home") /\ UNCHANGED result
                   ELSE /\ Goto("events")
                        /\ result' = [ Result(<<>>, FALSE, "not resumed") EXCEPT
                                         !.final_state = ClassifyAndroidState(observation) ]
              /\ UNCHANGED <<stabilizerVars, second>>
           \/ /\ second >= 0      \* a poll of the guard
              /\ Observe(elapsed, observation)
              /\ second' = second + 1
              /\ Goto("poll")
              /\ UNCHANGED result
  /\ sample' = NoSample
  /\ UNCHANGED <<elapsed, fileVars, exit, worldVars, asked>>

\* `am start -W' on HOME; then origin = now and the loop starts.
SendHome ==
  /\ pc = "home"
  /\ \E a \in HomeActivities \cup {phone.resumed} :
       /\ phone' = [phone EXCEPT !.resumed = a]
       /\ visitFrom' = IF a \in TargetActivities THEN 0 ELSE -1
  /\ second' = 0
  /\ Goto("poll")
  /\ UNCHANGED <<stabilizerVars, elapsed, sample, result, fileVars, exit, now, changes, asked, visits>>

\* The timestamp is taken when sleep_until returns, before the observation.
Poll ==
  /\ pc = "poll"
  /\ second <= GuardSeconds /\ ~Decided
  /\ now >= second * TicksPerSecond
  /\ elapsed' = now
  /\ Goto("top")
  /\ UNCHANGED <<stabilizerVars, second, sample, result, fileVars, exit, worldVars, asked>>

\* Mutant: the loop stops one poll short.
LoopEndsEarly ==
  /\ pc = "poll"
  /\ second >= GuardSeconds \/ Decided
  /\ result' = Finish
  /\ Goto("events")
  /\ UNCHANGED <<stabilizerVars, second, elapsed, sample, fileVars, exit, worldVars, asked>>

LoopEnds ==
  /\ pc = "poll"
  /\ second > GuardSeconds \/ Decided
  /\ result' = Finish
  /\ Goto("events")
  /\ UNCHANGED <<stabilizerVars, second, elapsed, sample, fileVars, exit, worldVars, asked>>

\* recent_activity_events, then write_dry_run_result's own test of the path.
ReadEvents ==
  /\ pc = "events"
  /\ \/ path # "absent" /\ Throw
     \/ /\ path = "absent"
        /\ Jump("write")

\* Mutant: a published failure still reports success.
WriteResultSucceeds ==
  /\ pc = "write"
  /\ path' = "evidence"
  /\ evidence' = result
  /\ Leave(0)
  /\ UNCHANGED <<stabilizerVars, localVars, worldVars, asked>>

\* Write the temporary file and rename it; rename replaces what is there.
WriteResult ==
  /\ pc = "write"
  /\ path' = "evidence"
  /\ evidence' = result
  /\ Leave(IF result.passed THEN 0 ELSE 2)
  /\ UNCHANGED <<stabilizerVars, localVars, worldVars, asked>>

CommandStep ==
  \/ CheckOutput \/ Inspect \/ InspectTrust \/ Launch
  \/ ReadTop \/ ReadWindows \/ ReadPower \/ ReadTrust
  \/ SendHome \/ Poll \/ LoopEnds \/ ReadEvents \/ WriteResult

Done == exit >= 0 /\ UNCHANGED vars

Next == CommandStep \/ CommandFails \/ PhoneChanges \/ OtherWriter \/ Tick \/ Done

\* The command runs until it exits, every adb command eventually answers, and
\* time passes; the phone owes nothing.
Fairness == WF_vars(CommandStep) /\ WF_vars(Tick)

Spec == Init /\ [][Next]_vars
FairSpec == Spec /\ Fairness
-----------------------------------------------------------------------------
TypeOK ==
  /\ StabilizerTypeOK
  /\ pc \in {"start", "inspect", "unlocked", "launch", "top", "windows", "power", "trust",
             "home", "poll", "events", "write", "done"}
  /\ now \in 0 .. MaxTime /\ elapsed \in 0 .. MaxTime
  /\ second \in -1 .. GuardSeconds + 1
  /\ path \in {"absent", "foreign", "evidence"}
  /\ exit \in {-1, 0, 2}
  /\ phone \in [resumed : Activities, interactive : BOOLEAN, locked : BOOLEAN, shade : BOOLEAN]

\* A script that trusts the exit status is never misled: status 0 if and only
\* if passing evidence was published, and nothing is published on an exception.
ExitMatchesEvidence ==
  /\ exit = 0 <=> path = "evidence" /\ evidence.passed
  /\ path = "evidence" => exit >= 0 /\ evidence = result
  /\ path # "evidence" => evidence = NoResult

Passed == path = "evidence" /\ evidence.passed

\* Passing evidence agrees with the phone at every instant the tool asked:
\* the target was shown when the launch was verified, never when polled, and
\* the last poll found a normal launcher.
PassMatchesPhone ==
  Passed =>
    /\ asked.polls = Len(evidence.observations)
    /\ Contains(TextOf[asked.verified], TargetPackage)
    /\ ~asked.target
    /\ \E component \in NormalLauncherComponents :
         Contains(TextOf[asked.latest], component)

\* Polling may miss a short visit of the target, but no visit longer than two
\* maximum gaps lies between the first and the last timestamp of a guard that
\* passed: the gap is tested between timestamps, each taken before its query.
LongVisitIsCaught ==
  Passed =>
    \A visit \in visits :
      LET from == IF visit[1] < evidence.start_seconds THEN evidence.start_seconds ELSE visit[1]
          to   == IF visit[2] > evidence.end_seconds THEN evidence.end_seconds ELSE visit[2]
      IN  to - from <= 2 * MaxGap

\* A quiet guard can fail for being short, by jitter: the first poll came later
\* after its second than the last.  Only so: the loop then made every poll, all of
\* them quiet, the last no earlier than Required, and the span misses Required by
\* no more than the first poll was late (app.cpp:472-479, android_state.cpp:107).
ShortGuardBeganLate ==
  path = "evidence" /\ evidence.failure_reason = "too short" =>
    /\ Len(evidence.observations) = GuardSeconds + 1
    /\ QuietThroughout(evidence.observations)
    /\ evidence.start_seconds > 0
    /\ evidence.end_seconds >= Required

\* The command always exits.
Terminates == <>(exit >= 0)

\* docs/adb-control-plane.md: "an excessive polling gap fails immediately".  The
\* phone was asked within MaxGap of the instant its answer is filed under.
AnswersAreTimely == Passed => ~asked.late
=============================================================================
