--------------------------- MODULE PhoneCommands ---------------------------
(***************************************************************************)
(* `session transition', `session observe' and `session history' (app.cpp  *)
(* and adb_client.cpp): inspect the one device, then ask the phone what it *)
(* shows before and after moving it, or what it logged.                    *)
(*                                                                         *)
(* As in DryRun the phone is external and changes between any two adb      *)
(* commands, and any adb command may fail.                                 *)
(***************************************************************************)
EXTENDS AndroidState, Integers, Sequences

Seqs == INSTANCE SequencesExt

CONSTANTS
  Activities,        \* activities the phone can resume
  TextOf,            \* the text dumpsys prints for each
  TargetActivities,  \* those of the application under study
  HomeActivities,    \* those the HOME intent can start
  Limit,             \* how many events recent_activity_events keeps; 12 in the code
  MaxChanges         \* bound: changes of the phone nobody asked for

ASSUME PhoneCommandsAssumption ==
  /\ TextOf \in [Activities -> Texts]
  /\ TargetActivities \cup HomeActivities \subseteq Activities
  /\ \A a \in TargetActivities : TargetPackage \in TextOf[a]
  /\ \A a \in HomeActivities : TargetPackage \notin TextOf[a]
  /\ Limit \in Nat \ {0} /\ MaxChanges \in Nat

VARIABLES
  pc,       \* the next adb command
  request,  \* the command line
  ready,    \* what the inspection read
  sample,   \* the latest observation: does the top activity match, is there a shade
  moved,    \* the transition has been issued
  exit,     \* the exit status, -1 while running
  report,   \* what was printed: a verdict, a match or a list of events
  phone,    \* the phone's real state and its log of lifecycle events
  changes,  \* unasked changes left
  asked,    \* history: the phone when its top activity or its log was queried last,
            \* the log as far as it could be read
  quiet,    \* history: nothing but the command moved the phone, every reply was
            \* true and every intent took effect
  told,     \* history: what the trust service reported to the inspection, "nothing"
            \* if its text lacked the field, "unasked" before
  relocked, \* history: the phone locked after that report
  drove     \* history: the intents that reached a locked phone

commandVars == <<request, ready, sample, moved, exit, report>>
phoneVars   == <<phone, changes>>
lockVars    == <<told, relocked, drove>>
historyVars == <<asked, quiet, lockVars>>
sessionVars == <<pc, commandVars, phoneVars, historyVars>>

Requests == {"foreground", "background", "observe", "history"}
Transition == request \in {"foreground", "background"}

SessionInit ==
  /\ pc = "power"
  /\ request \in Requests
  /\ ready = [interactive |-> FALSE, locked |-> FALSE]
  /\ sample = [matches |-> FALSE, shade |-> FALSE]
  /\ moved = FALSE /\ exit = -1 /\ report = "none"
  /\ phone \in [resumed : Activities, interactive : BOOLEAN, locked : BOOLEAN,
                shade : BOOLEAN, log : {<<>>}]
  /\ changes = MaxChanges
  /\ asked = phone /\ quiet = TRUE
  /\ told = "unasked" /\ relocked = FALSE /\ drove = {}

-----------------------------------------------------------------------------
(* The phone.                                                              *)

Entry(a, kind) == [activity |-> a, type |-> kind]

\* What the phone becomes when it resumes activity a.
Showing(a) ==
  IF a = phone.resumed THEN phone
  ELSE [phone EXCEPT !.resumed = a,
                     !.log = @ \o << Entry(phone.resumed, "ACTIVITY_PAUSED"),
                                     Entry(phone.resumed, "OTHER"),
                                     Entry(a, "ACTIVITY_RESUMED") >>]

PhoneChanges ==
  /\ exit < 0
  /\ changes > 0
  /\ changes' = changes - 1
  /\ \/ \E a \in Activities : phone' = Showing(a)
     \/ \E field \in {"interactive", "locked", "shade"} :
          phone' = [phone EXCEPT ![field] = ~@]
  /\ quiet' = FALSE
  /\ relocked' = (relocked \/ (told # "unasked" /\ ~phone.locked /\ phone'.locked))
  /\ UNCHANGED <<pc, commandVars, asked, told, drove>>

-----------------------------------------------------------------------------
(* The commands.                                                           *)

Goto(label) == pc' = label

Leave(status, printed) ==
  /\ pc' = "done" /\ exit' = status /\ report' = printed
  /\ UNCHANGED <<request, ready, sample, moved>>

\* An exception, or a gate that is closed: status 2.
CommandFails ==
  /\ exit < 0
  /\ Leave(2, "error")
  /\ UNCHANGED <<phoneVars, historyVars>>

\* A query is answered; a field that is missing from the text reads as FALSE.
Answer(value, reply) ==
  /\ reply \in {value, FALSE}
  /\ quiet' = (quiet /\ reply = value)

\* inspect_single_device: power first, then trust; the other queries decide
\* nothing here, they can only fail.
ReadPower ==
  /\ pc = "power"
  /\ \E reply \in BOOLEAN :
       /\ Answer(phone.interactive, reply)
       /\ ready' = [ready EXCEPT !.interactive = reply]
  /\ Goto("trust")
  /\ UNCHANGED <<request, sample, moved, exit, report, phoneVars, asked, lockVars>>

ReadTrust ==
  /\ pc = "trust"
  /\ \E readable \in BOOLEAN :
       LET reply == readable /\ phone.locked
       IN  /\ Answer(phone.locked, reply)
           /\ ready' = [ready EXCEPT !.locked = reply]
           /\ told' = IF ~readable THEN "nothing"
                      ELSE IF phone.locked THEN "locked" ELSE "unlocked"
  /\ Goto("package")
  /\ UNCHANGED <<request, sample, moved, exit, report, phoneVars, asked, relocked, drove>>

\* Mutant: a phone that is awake counts as unlocked.
GateAwake == ready.interactive

\* A transition needs a phone that was awake and unlocked.
Gate == ready.interactive /\ ~ready.locked

\* inspect_package; then the commands part.
InspectPackage ==
  /\ pc = "package"
  /\ UNCHANGED <<phoneVars, historyVars>>
  /\ \/ Transition /\ ~Gate /\ Leave(2, "not ready")
     \/ /\ Transition => Gate
        /\ Goto(IF request = "history" THEN "log" ELSE "top")
        /\ UNCHANGED commandVars

\* observe_package_state: the resumed activity ...
ReadTop ==
  /\ pc = "top"
  /\ \E reply \in BOOLEAN :
       /\ Answer(Contains(TextOf[phone.resumed], TargetPackage), reply)
       /\ sample' = [sample EXCEPT !.matches = reply]
  /\ asked' = phone
  /\ Goto("windows")
  /\ UNCHANGED <<request, ready, moved, exit, report, phoneVars, lockVars>>

\* ... then the windows; the answers about power and trust are not used.
ReadWindows ==
  /\ pc = "windows"
  /\ \E reply \in BOOLEAN :
       /\ Answer(phone.shade, reply)
       /\ sample' = [sample EXCEPT !.shade = reply]
  /\ Goto("decide")
  /\ UNCHANGED <<request, ready, moved, exit, report, phoneVars, asked, lockVars>>

Match == IF sample.matches THEN "match" ELSE "no match"

Indication ==
  IF (request = "foreground") = sample.matches THEN "consistent" ELSE "not confirmed"

\* Mutant: the observation made before the intent is taken for the one after it.
DecideBefore ==
  /\ pc = "decide"
  /\ UNCHANGED <<phoneVars, historyVars>>
  /\ \/ request = "observe" /\ Leave(0, Match)
     \/ Transition /\ Leave(0, Indication)

\* What the command does with a complete observation.
Decide ==
  /\ pc = "decide"
  /\ UNCHANGED <<phoneVars, historyVars>>
  /\ \/ request = "observe" /\ Leave(0, Match)
     \/ Transition /\ moved /\ Leave(0, Indication)
     \/ Transition /\ ~moved /\ sample.shade /\ Leave(2, "shade")
     \/ Transition /\ ~moved /\ ~sample.shade /\ Goto("collapse") /\ UNCHANGED commandVars

\* An intent reaches the phone, whatever state that is in by now.
Drive == drove' = IF phone.locked THEN drove \cup {pc} ELSE drove

Collapse ==
  /\ pc = "collapse"
  /\ Drive
  /\ phone' = [phone EXCEPT !.shade = FALSE]
  /\ Goto("move")
  /\ UNCHANGED <<commandVars, changes, asked, quiet, told, relocked>>

\* launch_package or send_home; both report success also when nothing was resumed.
Move ==
  /\ pc = "move"
  /\ Drive
  /\ LET wanted == IF request = "foreground" THEN TargetActivities ELSE HomeActivities
     IN  \E a \in wanted \cup {phone.resumed} :
           /\ phone' = Showing(a)
           /\ quiet' = (quiet /\ a \in wanted)
  /\ moved' = TRUE
  /\ Goto("top")
  /\ UNCHANGED <<request, ready, sample, exit, report, changes, asked, told, relocked>>

\* parse_activity_events: three types, and the exact package.
Lifecycle == {"ACTIVITY_RESUMED", "ACTIVITY_PAUSED", "ACTIVITY_STOPPED"}
OfTarget(event) == event.activity \in TargetActivities /\ event.type \in Lifecycle

ActivityEvents(log) ==
  Seqs!FoldLeft(LAMBDA events, event : IF OfTarget(event) THEN Append(events, event) ELSE events,
                <<>>, log)

\* recent_activity_events erases from the front what exceeds the limit.
Recent(events) ==
  SubSeq(events, IF Len(events) > Limit THEN Len(events) - Limit + 1 ELSE 1, Len(events))

\* A line without a type the parser knows is dropped.
Garbled(log, lost) ==
  [n \in DOMAIN log |-> IF n \in lost THEN [log[n] EXCEPT !.type = "OTHER"] ELSE log[n]]

ReadLog ==
  /\ pc = "log"
  /\ \E lost \in SUBSET {n \in DOMAIN phone.log : OfTarget(phone.log[n])} :
       LET log == Garbled(phone.log, lost)
       IN  /\ Leave(0, Recent(ActivityEvents(log)))
           /\ asked' = [phone EXCEPT !.log = log]
           /\ quiet' = (quiet /\ lost = {})
  /\ UNCHANGED <<phoneVars, lockVars>>

CommandStep ==
  \/ ReadPower \/ ReadTrust \/ InspectPackage \/ ReadTop \/ ReadWindows
  \/ Decide \/ Collapse \/ Move \/ ReadLog

Done == exit >= 0 /\ UNCHANGED sessionVars

SessionNext == CommandStep \/ CommandFails \/ PhoneChanges \/ Done

SessionSpec == SessionInit /\ [][SessionNext]_sessionVars
-----------------------------------------------------------------------------
Phones == [resumed : Activities, interactive : BOOLEAN, locked : BOOLEAN, shade : BOOLEAN,
           log : Seq([activity : Activities, type : Lifecycle \cup {"OTHER"}])]

SessionTypeOK ==
  /\ pc \in {"power", "trust", "package", "log", "top", "windows", "decide",
             "collapse", "move", "done"}
  /\ request \in Requests
  /\ ready \in [interactive : BOOLEAN, locked : BOOLEAN]
  /\ sample \in [matches : BOOLEAN, shade : BOOLEAN]
  /\ moved \in BOOLEAN /\ exit \in {-1, 0, 2}
  /\ phone \in Phones /\ asked \in Phones
  /\ changes \in 0 .. MaxChanges
  /\ quiet \in BOOLEAN /\ relocked \in BOOLEAN
  /\ told \in {"unasked", "unlocked", "locked", "nothing"}
  /\ drove \subseteq {"collapse", "move"}

\* Where the log has the target's last event, 0 if it has none.
LastOfTarget(log) == Seqs!SelectLastInSeq(log, OfTarget)

\* What is printed is true of the phone at the instant it was asked.  "consistent"
\* for the foreground and a top match mean that the text on top named the target;
\* "not confirmed" means that somebody or something interfered; and a history
\* ends with the last thing the target did, of the lines that could be read.
\* ("consistent" for the background may also come of a reply that could not.)
ReportMatchesPhone ==
  LET named == Contains(TextOf[asked.resumed], TargetPackage)
      last == LastOfTarget(asked.log)
  IN  exit = 0 =>
        /\ request = "foreground" /\ report = "consistent" => named
        /\ request = "observe" /\ report = "match" => named
        /\ request = "background" /\ report = "consistent" /\ quiet => ~named
        /\ Transition /\ report = "not confirmed" => ~quiet
        /\ request = "history" /\ report # <<>> =>
             last > 0 /\ report[Len(report)] = asked.log[last]
        /\ request = "history" /\ report = <<>> => last = 0

\* The lock is tested once, many adb commands before the intent (app.cpp:504): an
\* intent reaches a locked phone only if the phone locked after the trust service
\* was asked, or if that service's report lacked the field, which reads as
\* unlocked (adb_client.cpp:162).  No other disturbance opens the gate, and
\* observe and history send no intent.
LockedPhoneIsNotDriven == drove # {} => Transition /\ (relocked \/ told = "nothing")
=============================================================================
