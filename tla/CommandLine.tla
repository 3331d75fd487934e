----------------------------- MODULE CommandLine -----------------------------
(***************************************************************************)
(* run and run_menu (app.cpp): the dispatch of a command line, the loops   *)
(* over its options, and the interactive menu, which reads lines, builds   *)
(* command lines of its own and hands them to run.                         *)
(*                                                                         *)
(* A word is a string.  args[n] is argv[n], so argc is Len(args) + 1.      *)
(* What a command does once its arguments are accepted is the subject of   *)
(* other modules: here it succeeds or fails.                               *)
(***************************************************************************)
EXTENDS Integers, Sequences, FiniteSetsExt

CONSTANTS
  CommandLines, \* argument lists the program may be started with
  Inputs,       \* what may be typed into the menu until end of file, line by line
  Numbers       \* the words std::stod accepts

ASSUME CommandLineAssumption ==
  /\ CommandLines \subseteq Seq(STRING)
  /\ Inputs \subseteq Seq(STRING)
  /\ Numbers \subseteq STRING

VARIABLES
  menu,    \* is the program in its menu?
  input,   \* the lines not yet read
  stage,   \* "menu", "pause", "dispatch", "options", "execute" or "exited"
  args,    \* the command line that is run
  at,      \* the loop over the options
  options, \* the values they have given
  outcome, \* of the command run last
  status   \* exit status of the program

vars == <<menu, input, stage, args, at, options, outcome, status>>

OptionNames == {"--format", "--device-ip", "--window-seconds"}
Defaults == [name \in OptionNames |->
               CASE name = "--format" -> "text" [] name = "--window-seconds" -> "5" [] OTHER -> ""]

\* Without arguments the menu needs a terminal on both sides.
Init ==
  /\ \/ menu = FALSE /\ stage = "dispatch" /\ args \in CommandLines /\ input = <<>>
     \/ menu = TRUE /\ stage = "menu" /\ args = <<>> /\ input \in Inputs
  /\ at = 0 /\ options = Defaults
  /\ outcome = "none" /\ status = 0

\* run has returned: to the menu, which ignores the status, or to main.
Return(result, code) ==
  /\ outcome' = result
  /\ IF menu THEN stage' = "pause" /\ UNCHANGED status
             ELSE stage' = "exited" /\ status' = code
-----------------------------------------------------------------------------
\* What run makes of the arguments of each command: it prints something, refuses
\* them, goes on to the options or executes the command.
HelpOnly == Len(args) = 2 /\ args[2] = "--help"

help == IF Len(args) <= 2 THEN "printed" ELSE "refused"

device ==
  CASE args = <<"device", "status">> -> "execute"
    [] HelpOnly -> "printed"
    [] OTHER    -> "refused"

\* A dry run without the acknowledgment is recognised and then refused.
session ==
  CASE HelpOnly -> "printed"
    [] Len(args) = 3 /\ args[2] = "transition" /\ args[3] = "--help" -> "printed"
    [] Len(args) = 3 /\ args[2] \in {"observe", "history"} ->
         IF args[3] = "--help" THEN "printed" ELSE "execute"
    [] Len(args) = 4 /\ args[2] = "plan" -> "execute"
    [] Len(args) = 5 /\ args[2] = "dry-run" /\ args[5] = "--hands-off-confirmed" -> "execute"
    [] Len(args) = 4 /\ args[2] = "transition" /\ args[4] \in {"foreground", "background"} -> "execute"
    [] OTHER -> "refused"

analysis == IF Len(args) >= 4 /\ args[2] = "conditions" THEN "options" ELSE "refused"

inspect == IF HelpOnly THEN "printed" ELSE IF Len(args) < 2 THEN "refused" ELSE "options"

features == IF HelpOnly THEN "printed" ELSE IF Len(args) < 3 THEN "refused" ELSE "options"

experiment ==
  IF HelpOnly THEN "printed"
  ELSE IF Len(args) = 4 /\ args[2] = "synthetic" THEN "execute" ELSE "refused"

validate_manifest ==
  IF HelpOnly THEN "printed" ELSE IF Len(args) = 2 THEN "execute" ELSE "refused"

Printing == {"-h", "--help", "-V", "--version", "info", "status", "quickstart"}

run ==
  IF args = <<>> THEN "printed"
  ELSE CASE args[1] = "help"       -> help
         [] args[1] \in Printing   -> "printed"
         [] args[1] = "device"     -> device
         [] args[1] = "session"    -> session
         [] args[1] = "analysis"   -> analysis
         [] args[1] = "inspect"    -> inspect
         [] args[1] = "features"   -> features
         [] args[1] = "experiment" -> experiment
         [] args[1] = "validate-manifest" -> validate_manifest
         [] OTHER -> "refused"

\* Where the options of a command begin and which it knows.
First == CASE args[1] = "inspect" -> 3 [] args[1] = "features" -> 4 [] OTHER -> 5
Known == CASE args[1] = "inspect"  -> {"--format", "--device-ip"}
           [] args[1] = "features" -> {"--device-ip", "--window-seconds"}
           [] OTHER -> {"--device-ip"}

Dispatch ==
  /\ stage = "dispatch"
  /\ CASE run = "printed" -> Return("printed", 0) /\ UNCHANGED at
       [] run = "refused" -> Return("refused", 2) /\ UNCHANGED at
       [] run = "options" -> stage' = "options" /\ at' = First /\ UNCHANGED <<outcome, status>>
       [] run = "execute" -> stage' = "execute" /\ UNCHANGED <<at, outcome, status>>
  /\ UNCHANGED <<menu, input, args, options>>

\* Mutant: a value is looked at again as an option.
TakeOptionSingly ==
  /\ stage = "options"
  /\ at < Len(args)
  /\ IF args[at] \in Known
       THEN /\ options' = [options EXCEPT ![args[at]] = args[at + 1]]
            /\ at' = at + (IF args[at + 1] \in Known THEN 1 ELSE 2)
            /\ UNCHANGED <<stage, outcome, status>>
       ELSE Return("refused", 2) /\ UNCHANGED <<at, options>>
  /\ UNCHANGED <<menu, input, args>>

Accepted(name, value) == name \in Known /\ (name = "--window-seconds" => value \in Numbers)

TakeOption ==
  /\ stage = "options"
  /\ at < Len(args)
  /\ IF Accepted(args[at], args[at + 1])
       THEN /\ options' = [options EXCEPT ![args[at]] = args[at + 1]]
            /\ at' = at + 2
            /\ UNCHANGED <<stage, outcome, status>>
       ELSE Return("refused", 2) /\ UNCHANGED <<at, options>>
  /\ UNCHANGED <<menu, input, args>>

\* An option without a value, or a format inspect does not write.
EndOfOptions ==
  /\ stage = "options"
  /\ at >= Len(args)
  /\ IF at > Len(args) /\ options["--format"] \in {"text", "json"}
       THEN stage' = "execute" /\ UNCHANGED <<outcome, status>>
       ELSE Return("refused", 2)
  /\ UNCHANGED <<menu, input, args, at, options>>

Execute ==
  /\ stage = "execute"
  /\ Return("succeeded", 0) \/ Return("failed", 2)
  /\ UNCHANGED <<menu, input, args, at, options>>
-----------------------------------------------------------------------------
\* read_line, the n-th time from here: at end of file it returns an empty line.
Line(n) == IF n <= Len(input) THEN input[n] ELSE ""

\* The prompts that follow a selection.
Prompts(selection) ==
  CASE selection = "5" -> 1
    [] selection \in {"3", "4"} -> 2
    [] selection = "6" -> 3
    [] OTHER -> 0

\* What is typed at those prompts.
Typed == [n \in 1 .. 3 |-> Line(n + 1)]

\* Mutant: the option's name is forgotten.
WithDeviceIpUnnamed(line, ip) == IF ip = "" THEN line ELSE Append(line, ip)

WithDeviceIp(line, ip) == IF ip = "" THEN line ELSE line \o <<"--device-ip", ip>>

\* The command line the menu builds from the lines it has read after the selection.
Built(selection, value) ==
  CASE selection = "1" -> <<"status">>
    [] selection = "2" -> <<"device", "status">>
    [] selection = "3" -> <<"session", "plan", value[1], value[2]>>
    [] selection = "4" -> WithDeviceIp(<<"inspect", value[1]>>, value[2])
    [] selection = "5" -> <<"validate-manifest", value[1]>>
    [] selection = "6" -> WithDeviceIp(<<"features", value[1], value[2]>>, value[3])
    [] selection = "7" -> <<"quickstart">>

\* A missing value sends the user back, an unknown selection too.
Complete(selection, value) ==
  CASE selection \in {"1", "2", "7"} -> TRUE
    [] selection \in {"4", "5"} -> value[1] # ""
    [] selection \in {"3", "6"} -> value[1] # "" /\ value[2] # ""
    [] OTHER -> FALSE

\* Read the first n lines that are left.
Read(n) == input' = SubSeq(input, n + 1, Len(input))

\* Mutant: the end of the input is not looked for.
SelectBlindly ==
  /\ stage = "menu"
  /\ IF Line(1) \in {"0", "q", "quit"}
       THEN stage' = "exited" /\ status' = 0 /\ Read(1) /\ UNCHANGED <<args, options>>
       ELSE /\ Read(1 + Prompts(Line(1)))
            /\ IF Complete(Line(1), Typed)
                 THEN /\ args' = Built(Line(1), Typed)
                      /\ options' = Defaults /\ stage' = "dispatch"
                 ELSE UNCHANGED <<args, options>> /\ stage' = "pause"
            /\ UNCHANGED status
  /\ UNCHANGED <<menu, at, outcome>>

Leaving == Len(input) = 0 \/ Line(1) \in {"0", "q", "quit"}

\* One selection of the menu, with its prompts.
Select ==
  /\ stage = "menu"
  /\ IF Leaving
       THEN stage' = "exited" /\ status' = 0 /\ Read(1) /\ UNCHANGED <<args, options>>
       ELSE /\ Read(1 + Prompts(Line(1)))
            /\ IF Complete(Line(1), Typed)
                 THEN /\ args' = Built(Line(1), Typed)
                      /\ options' = Defaults /\ stage' = "dispatch"
                 ELSE UNCHANGED <<args, options>> /\ stage' = "pause"
            /\ UNCHANGED status
  /\ UNCHANGED <<menu, at, outcome>>

\* Press Enter to return to the menu: whatever is on that line is dropped.
Pause ==
  /\ stage = "pause"
  /\ Read(1)
  /\ stage' = "menu"
  /\ UNCHANGED <<menu, args, at, options, outcome, status>>

Over == stage = "exited" /\ UNCHANGED vars

Next == Dispatch \/ TakeOption \/ EndOfOptions \/ Execute \/ Select \/ Pause \/ Over

Spec == Init /\ [][Next]_vars /\ WF_vars(Next)
-----------------------------------------------------------------------------
TypeOK ==
  /\ menu \in BOOLEAN
  /\ input \in Seq(STRING) /\ args \in Seq(STRING)
  /\ stage \in {"menu", "pause", "dispatch", "options", "execute", "exited"}
  /\ at \in Nat
  /\ options \in [OptionNames -> STRING]
  /\ outcome \in {"none", "printed", "refused", "succeeded", "failed"}
  /\ status \in {0, 2}

\* Whatever is typed, also at end of file and also a word that is an option, the menu
\* never builds a command line that run refuses (run_menu against run).
MenuIsUnderstood == menu => outcome # "refused"

\* The positions where options of the command line stand.
Places == {n \in First .. Len(args) : (n - First) % 2 = 0}

\* A command is executed only if its options are pairs of a known name and a value,
\* and each has the value given last; a value that looks like an option is a value.
OptionsAreThePairs ==
  stage = "execute" /\ run = "options" =>
    /\ (Len(args) - First) % 2 = 1
    /\ \A n \in Places : args[n] \in Known
    /\ \A name \in OptionNames :
         LET given == {n \in Places : args[n] = name}
         IN  options[name] = IF given = {} THEN Defaults[name] ELSE args[Max(given) + 1]

\* The program ends: the menu does too, at the latest when the input has ended.
ProgramEnds == <>(stage = "exited")
=============================================================================
