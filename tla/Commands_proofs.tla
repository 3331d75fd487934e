-------------------------- MODULE Commands_proofs --------------------------
(***************************************************************************)
(* Proofs about the program around its libraries: how it understands its   *)
(* arguments (CommandLine), how it runs adb (AdbProcess), and what the     *)
(* session commands say of the phone (PhoneCommands).                      *)
(***************************************************************************)
EXTENDS AdbProcess, CommandLine, PhoneCommands, DataInduction, SequenceTheorems

-----------------------------------------------------------------------------
(* The command line.  Of the words nothing is needed but which are equal,  *)
(* so the invariants say only that the command line has a length and the   *)
(* options their names.                                                    *)

\* The loop over the options is at the start of a pair or at the end.
AtPair ==
  /\ run = "options"
  /\ at \in Nat /\ First <= at /\ at <= Len(args) + 1
  /\ (at - First) % 2 = 0

\* The places of a name among the pairs that have been read.
Given(name) == {n \in Places : n < at /\ args[n] = name}

ReadSoFar ==
  /\ \A n \in Places : n < at => args[n] \in Known
  /\ \A name \in OptionNames :
       options[name] = IF Given(name) = {} THEN Defaults[name] ELSE args[Max(Given(name)) + 1]

\* All that the loop needs to know of its data.
LineTyped ==
  /\ Len(args) \in Nat
  /\ options = [name \in OptionNames |-> options[name]]

OptionsInv ==
  /\ LineTyped
  /\ stage = "dispatch" => options = Defaults
  /\ stage = "options" => AtPair /\ ReadSoFar
  /\ OptionsAreThePairs

LEMMA OptionsInit == Init => OptionsInv
<1> SUFFICES ASSUME Init PROVE OptionsInv
  OBVIOUS
<1>1. /\ stage \in {"dispatch", "menu"} /\ options = Defaults /\ at = 0 /\ outcome = "none" /\ status = 0
      /\ menu \in BOOLEAN
  BY DEF Init
<1>2. Len(args) \in Nat
  <2>1. Len(<<>>) \in Nat
    OBVIOUS
  <2>2. \A line \in CommandLines : Len(line) \in Nat
    <3>1. CommandLines \subseteq Seq(STRING)
      BY CommandLineAssumption
    <3>2. QED
      BY <3>1
  <2>3. QED
    BY <2>1, <2>2 DEF Init
<1>3. Defaults = [name \in OptionNames |-> Defaults[name]]
  BY DEF Defaults
<1>4. QED
  BY <1>1, <1>2, <1>3 DEF OptionsInv, LineTyped, OptionsAreThePairs

LEMMA RunType == run \in {"printed", "refused", "options", "execute"}
BY DEF run, help, device, session, analysis, inspect, features, experiment, validate_manifest

\* Where run goes on to the options, the first pair is in the list or just behind it.
LEMMA FirstPair ==
  ASSUME Len(args) \in Nat, run = "options"
  PROVE  First \in Nat /\ First > 0 /\ First <= Len(args) + 1 /\ Len(args) \in Nat
<1>1. Len(args) \in Nat
  OBVIOUS
<1>2. \/ args[1] = "inspect" /\ ~(Len(args) < 2)
      \/ args[1] = "features" /\ ~(Len(args) < 3)
      \/ args[1] = "analysis" /\ Len(args) >= 4
  BY DEF run, help, device, session, analysis, inspect, features, experiment, validate_manifest
<1>3. QED
  BY <1>1, <1>2 DEF First

\* The greatest element of a set.
LEMMA GreatestOf ==
  ASSUME NEW S, S \subseteq Int, NEW m \in S, \A n \in S : n <= m
  PROVE  Max(S) = m
<1>1. \A y \in S : m >= y
  OBVIOUS
<1>2. Max(S) \in S /\ \A y \in S : Max(S) >= y
  BY <1>1 DEF Max
<1>3. Max(S) >= m /\ Max(S) <= m /\ Max(S) \in Int /\ m \in Int
  BY <1>2
<1>4. QED
  BY <1>3

LEMMA DispatchKeeps == OptionsInv /\ Dispatch => OptionsInv'
<1> SUFFICES ASSUME OptionsInv, Dispatch PROVE OptionsInv'
  OBVIOUS
<1>1. /\ UNCHANGED <<menu, input, args, options>> /\ stage = "dispatch"
      /\ \/ /\ run \in {"printed", "refused"} /\ stage' \in {"pause", "exited"}
            /\ outcome' \in {"printed", "refused"} /\ at' = at /\ status' \in {status, 0, 2}
         \/ run = "options" /\ stage' = "options" /\ at' = First /\ UNCHANGED <<outcome, status>>
         \/ run = "execute" /\ stage' = "execute" /\ UNCHANGED <<at, outcome, status>>
  BY RunType DEF Dispatch, Return
<1>2. run' = run /\ First' = First /\ Known' = Known /\ Places' = Places
  BY <1>1 DEF run, help, device, session, analysis, inspect, features, experiment,
              validate_manifest, HelpOnly, First, Known, Places
<1>3. LineTyped /\ options = Defaults
  BY <1>1 DEF OptionsInv
<1>4. LineTyped'
  BY <1>1, <1>3 DEF LineTyped
<1>5. ASSUME stage' = "options" PROVE AtPair' /\ ReadSoFar'
  <2>1. run = "options" /\ at' = First
    BY <1>1, <1>5
  <2>2. First \in Nat /\ First <= Len(args) + 1
    BY <1>3, <2>1, FirstPair DEF LineTyped
  <2>3. AtPair'
    BY <1>1, <1>2, <2>1, <2>2 DEF AtPair
  <2>4. \A n \in Places : ~(n < First)
    BY <1>3, <2>2 DEF Places, LineTyped
  <2>5. \A name : Given(name)' = {}
    BY <1>1, <1>2, <2>1, <2>4 DEF Given
  <2>6. QED
    BY <1>1, <1>2, <1>3, <2>1, <2>3, <2>4, <2>5 DEF ReadSoFar
<1>6. OptionsAreThePairs'
  BY <1>1, <1>2 DEF OptionsAreThePairs
<1>7. QED
  BY <1>1, <1>4, <1>5, <1>6 DEF OptionsInv

\* A pair is read: its name has been given last here.
LEMMA TakeOptionKeeps == OptionsInv /\ TakeOption => OptionsInv'
<1> SUFFICES ASSUME OptionsInv, TakeOption PROVE OptionsInv'
  OBVIOUS
<1>1. /\ UNCHANGED <<menu, input, args>> /\ stage = "options" /\ at < Len(args)
      /\ \/ /\ args[at] \in Known /\ options' = [options EXCEPT ![args[at]] = args[at + 1]]
            /\ at' = at + 2 /\ UNCHANGED <<stage, outcome, status>>
         \/ /\ stage' \in {"pause", "exited"} /\ outcome' = "refused" /\ status' \in {status, 2}
            /\ UNCHANGED <<at, options>>
  BY DEF TakeOption, Accepted, Return
<1>2. run' = run /\ First' = First /\ Known' = Known /\ Places' = Places
  BY <1>1 DEF run, help, device, session, analysis, inspect, features, experiment,
              validate_manifest, HelpOnly, First, Known, Places
<1>3. LineTyped /\ AtPair /\ ReadSoFar
  BY <1>1 DEF OptionsInv
<1>4. /\ Len(args) \in Nat /\ at \in Nat /\ options = [name \in OptionNames |-> options[name]]
      /\ First \in Nat /\ First > 0 /\ First <= at /\ (at - First) % 2 = 0
  BY <1>3, FirstPair DEF LineTyped, AtPair
<1>5. CASE stage' \in {"pause", "exited"}
  BY <1>1, <1>3, <1>5 DEF OptionsInv, LineTyped, OptionsAreThePairs
<1>6. CASE /\ args[at] \in Known /\ options' = [options EXCEPT ![args[at]] = args[at + 1]]
           /\ at' = at + 2 /\ UNCHANGED <<stage, outcome, status>>
  <2>1. args[at] \in OptionNames
    <3>1. Known \subseteq OptionNames
      BY DEF Known, OptionNames
    <3>2. QED
      BY <1>6, <3>1
  <2>2. at \in Places /\ \A n \in Places : n < at + 2 <=> n < at \/ n = at
    <3>1. at \in Places
      BY <1>1, <1>4 DEF Places
    <3>2. (at + 1 - First) % 2 # 0
      BY <1>4
    <3>3. ASSUME NEW n \in Places PROVE n < at + 2 <=> n < at \/ n = at
      <4>1. n \in Int /\ (n - First) % 2 = 0
        BY <1>4 DEF Places
      <4>2. n # at + 1
        <5> SUFFICES ASSUME n = at + 1 PROVE FALSE
          OBVIOUS
        <5>1. n - First = (at + 1) - First
          OBVIOUS
        <5>2. (n - First) % 2 # 0
          BY <1>4, <3>2, <4>1, <5>1
        <5>3. QED
          BY <4>1, <5>2
      <4>3. QED
        BY <1>4, <4>1, <4>2
    <3>4. QED
      BY <3>1, <3>3
  <2>3. ASSUME NEW name PROVE Given(name)' = IF name = args[at] THEN Given(name) \cup {at} ELSE Given(name)
    BY <1>1, <1>2, <1>6, <2>2 DEF Given
  <2>4. ASSUME NEW name, name = args[at] PROVE Max(Given(name)') = at /\ Given(name)' # {}
    <3>1. Given(name) \subseteq Int /\ \A n \in Given(name) : n < at
      BY <1>4 DEF Given, Places
    <3>2. /\ Given(name) \cup {at} \subseteq Int /\ at \in Given(name) \cup {at}
          /\ \A n \in Given(name) \cup {at} : n <= at
      BY <1>4, <3>1
    <3>3. Max(Given(name) \cup {at}) = at
      BY <3>2, GreatestOf
    <3>4. QED
      BY <2>3, <2>4, <3>3
  <2>5. \A n \in Places' : n < at' => args'[n] \in Known'
    BY <1>1, <1>2, <1>3, <1>6, <2>2 DEF ReadSoFar
  <2>6. ASSUME NEW name \in OptionNames
        PROVE  options'[name] = IF Given(name)' = {} THEN Defaults[name] ELSE args[Max(Given(name)') + 1]
    <3>1. CASE name = args[at]
      BY <1>4, <1>6, <2>1, <2>4, <3>1
    <3>2. CASE name # args[at]
      <4>1. options'[name] = options[name] /\ Given(name)' = Given(name)
        BY <1>4, <1>6, <2>1, <2>3, <3>2
      <4>2. QED
        BY <1>3, <4>1 DEF ReadSoFar
    <3>3. QED
      BY <3>1, <3>2
  <2>7. ReadSoFar'
    <3>1. \A name : Max(Given(name))' = Max(Given(name)')
      OBVIOUS
    <3>2. QED
      BY <1>1, <2>5, <2>6 DEF ReadSoFar, Defaults
  <2>8. AtPair'
    <3>1. (at + 2 - First) % 2 = 0 /\ First <= at + 2 /\ at + 2 <= Len(args) + 1 /\ at + 2 \in Nat
      BY <1>1, <1>4
    <3>2. /\ run' = "options" /\ at' = at + 2 /\ First' = First /\ Len(args') = Len(args)
      BY <1>1, <1>2, <1>3, <1>6 DEF AtPair
    <3>3. (at' - First') % 2 = 0
      <4>1. at' - First' = (at + 2) - First
        BY <3>2
      <4>2. QED
        BY <1>4, <3>1, <4>1
    <3>4. QED
      BY <3>1, <3>2, <3>3 DEF AtPair
  <2>9. LineTyped'
    BY <1>1, <1>3, <1>4, <1>6, <2>1 DEF LineTyped
  <2>10. QED
    BY <1>1, <1>6, <2>7, <2>8, <2>9 DEF OptionsInv, OptionsAreThePairs
<1>7. QED
  BY <1>1, <1>5, <1>6

\* Behind the last pair every option has been read.
LEMMA EndOfOptionsKeeps == OptionsInv /\ EndOfOptions => OptionsInv'
<1> SUFFICES ASSUME OptionsInv, EndOfOptions PROVE OptionsInv'
  OBVIOUS
<1>1. /\ UNCHANGED <<menu, input, args, at, options>> /\ stage = "options" /\ at >= Len(args)
      /\ \/ stage' = "execute" /\ at > Len(args) /\ UNCHANGED <<outcome, status>>
         \/ stage' \in {"pause", "exited"} /\ outcome' = "refused" /\ status' \in {status, 2}
  BY DEF EndOfOptions, Return
<1>2. run' = run /\ First' = First /\ Known' = Known /\ Places' = Places
  BY <1>1 DEF run, help, device, session, analysis, inspect, features, experiment,
              validate_manifest, HelpOnly, First, Known, Places
<1>3. LineTyped /\ AtPair /\ ReadSoFar
  BY <1>1 DEF OptionsInv
<1>4. LineTyped'
  BY <1>1, <1>3 DEF LineTyped
<1>5. ASSUME stage' = "execute" PROVE OptionsAreThePairs'
  <2>1. at = Len(args) + 1 /\ Len(args) \in Nat /\ First \in Nat /\ (at - First) % 2 = 0
    BY <1>1, <1>3, <1>5, FirstPair DEF AtPair, LineTyped
  <2>2. (Len(args) - First) % 2 = 1
    BY <2>1
  <2>3. \A n \in Places : n < at
    BY <2>1 DEF Places
  <2>4. \A name : Given(name) = {n \in Places : args[n] = name}
    BY <2>3 DEF Given
  <2>5. /\ \A n \in Places : args[n] \in Known
        /\ \A name \in OptionNames :
             options[name] = IF {n \in Places : args[n] = name} = {} THEN Defaults[name]
                             ELSE args[Max({n \in Places : args[n] = name}) + 1]
    BY <1>3, <2>3, <2>4 DEF ReadSoFar
  <2>6. QED
    BY <1>1, <1>2, <2>2, <2>5 DEF OptionsAreThePairs, Defaults
<1>6. QED
  BY <1>1, <1>4, <1>5 DEF OptionsInv, OptionsAreThePairs

LEMMA ExecuteKeeps == OptionsInv /\ (Execute \/ Pause \/ Over) => OptionsInv'
<1> SUFFICES ASSUME OptionsInv, Execute \/ Pause \/ Over PROVE OptionsInv'
  OBVIOUS
<1>1. UNCHANGED <<args, options, at>> /\ stage' \in {"pause", "exited", "menu"}
  BY DEF Execute, Pause, Over, Return, vars
<1>2. LineTyped'
  BY <1>1 DEF OptionsInv, LineTyped
<1>3. QED
  BY <1>1, <1>2 DEF OptionsInv, OptionsAreThePairs

-----------------------------------------------------------------------------
(* The menu.  Its invariant does not need the one above: a command line    *)
(* the menu builds has one option at most.                                 *)

\* The command lines the menu builds.
MenuLine ==
  \/ Len(args) = 1 /\ args[1] \in {"status", "quickstart"}
  \/ args = <<"device", "status">>
  \/ Len(args) = 4 /\ args[1] = "session" /\ args[2] = "plan"
  \/ Len(args) = 2 /\ args[1] = "validate-manifest"
  \/ Len(args) = 2 /\ args[1] = "inspect"
  \/ Len(args) = 4 /\ args[1] = "inspect" /\ args[3] = "--device-ip"
  \/ Len(args) = 3 /\ args[1] = "features"
  \/ Len(args) = 5 /\ args[1] = "features" /\ args[4] = "--device-ip"

\* The menu's options are at most one, the address of the device.
MenuPair ==
  /\ run = "options"
  /\ Len(args) \in Nat /\ at \in Nat
  /\ options = [name \in OptionNames |-> options[name]] /\ options["--format"] = "text"
  /\ \/ at = Len(args) + 1
     \/ at + 1 = Len(args) /\ args[at] = "--device-ip"

MenuInv ==
  menu =>
    /\ outcome # "refused"
    /\ stage = "dispatch" => MenuLine /\ options = Defaults
    /\ stage = "options" => MenuPair

LEMMA CompleteSelection ==
  ASSUME NEW selection, NEW value, Complete(selection, value)
  PROVE  selection \in {"1", "2", "3", "4", "5", "6", "7"}
BY DEF Complete

LEMMA DeviceIpAdded ==
  ASSUME NEW line, NEW ip
  PROVE  WithDeviceIp(line, ip) \in {line, line \o <<"--device-ip", ip>>}
BY DEF WithDeviceIp

\* Two words behind a line.
LEMMA TwoMore ==
  ASSUME NEW S, NEW line \in Seq(S), NEW a \in S, NEW b \in S
  PROVE  /\ Len(line \o <<a, b>>) = Len(line) + 2
         /\ \A n \in 1 .. Len(line) : (line \o <<a, b>>)[n] = line[n]
         /\ (line \o <<a, b>>)[Len(line) + 1] = a
<1>1. <<a, b>> \in Seq(S) /\ Len(<<a, b>>) = 2 /\ <<a, b>>[1] = a
  OBVIOUS
<1>2. QED
  BY <1>1

LEMMA BuiltLine ==
  ASSUME NEW selection \in {"1", "2", "3", "4", "5", "6", "7"}, NEW value,
         args' = Built(selection, value)
  PROVE  MenuLine' /\ Len(args') \in Nat
<1>1. CASE selection \in {"1", "2", "3", "5", "7"}
  <2>1. \/ args' = <<"status">> \/ args' = <<"quickstart">>
        \/ args' = <<"device", "status">>
        \/ args' = <<"session", "plan", value[1], value[2]>>
        \/ args' = <<"validate-manifest", value[1]>>
    BY <1>1 DEF Built
  <2>2. QED
    BY <2>1 DEF MenuLine
<1>2. CASE selection = "4"
  <2> DEFINE line == <<"inspect", value[1]>>
             S == {"inspect", value[1], "--device-ip", value[2]}
  <2>1. args' \in {line, line \o <<"--device-ip", value[2]>>}
    BY <1>2, DeviceIpAdded DEF Built
  <2>2. line \in Seq(S) /\ Len(line) = 2 /\ line[1] = "inspect"
    OBVIOUS
  <2>3. "--device-ip" \in S /\ value[2] \in S
    OBVIOUS
  <2> HIDE DEF line, S
  <2> DEFINE more == line \o <<"--device-ip", value[2]>>
  <2>6. /\ Len(more) = Len(line) + 2
        /\ \A n \in 1 .. Len(line) : more[n] = line[n]
        /\ more[Len(line) + 1] = "--device-ip"
    <3>1. ASSUME NEW a \in S, NEW w \in S
          PROVE  /\ Len(line \o <<a, w>>) = Len(line) + 2
                 /\ \A n \in 1 .. Len(line) : (line \o <<a, w>>)[n] = line[n]
                 /\ (line \o <<a, w>>)[Len(line) + 1] = a
      <4>1. line \in Seq(S)
        BY <2>2
      <4>2. QED
        BY <4>1, TwoMore
    <3>2. QED
      BY <2>3, <3>1
  <2>4. CASE args' = line
    BY <2>2, <2>4 DEF MenuLine
  <2>5. CASE args' = more
    <3>1. /\ Len(args') = Len(line) + 2
          /\ \A n \in 1 .. Len(line) : args'[n] = line[n]
          /\ args'[Len(line) + 1] = "--device-ip"
      BY <2>5, <2>6
    <3>2. Len(args') = 4 /\ args'[1] = "inspect" /\ args'[3] = "--device-ip"
      BY <2>2, <3>1
    <3>3. QED
      BY <3>2 DEF MenuLine
  <2>7. QED
    BY <2>1, <2>4, <2>5
<1>3. CASE selection = "6"
  <2> DEFINE line == <<"features", value[1], value[2]>>
             S == {"features", value[1], value[2], "--device-ip", value[3]}
  <2>1. args' \in {line, line \o <<"--device-ip", value[3]>>}
    BY <1>3, DeviceIpAdded DEF Built
  <2>2. line \in Seq(S) /\ Len(line) = 3 /\ line[1] = "features"
    OBVIOUS
  <2>3. "--device-ip" \in S /\ value[3] \in S
    OBVIOUS
  <2> HIDE DEF line, S
  <2> DEFINE more == line \o <<"--device-ip", value[3]>>
  <2>6. /\ Len(more) = Len(line) + 2
        /\ \A n \in 1 .. Len(line) : more[n] = line[n]
        /\ more[Len(line) + 1] = "--device-ip"
    <3>1. ASSUME NEW a \in S, NEW w \in S
          PROVE  /\ Len(line \o <<a, w>>) = Len(line) + 2
                 /\ \A n \in 1 .. Len(line) : (line \o <<a, w>>)[n] = line[n]
                 /\ (line \o <<a, w>>)[Len(line) + 1] = a
      <4>1. line \in Seq(S)
        BY <2>2
      <4>2. QED
        BY <4>1, TwoMore
    <3>2. QED
      BY <2>3, <3>1
  <2>4. CASE args' = line
    BY <2>2, <2>4 DEF MenuLine
  <2>5. CASE args' = more
    <3>1. /\ Len(args') = Len(line) + 2
          /\ \A n \in 1 .. Len(line) : args'[n] = line[n]
          /\ args'[Len(line) + 1] = "--device-ip"
      BY <2>5, <2>6
    <3>2. Len(args') = 5 /\ args'[1] = "features" /\ args'[4] = "--device-ip"
      BY <2>2, <3>1
    <3>3. QED
      BY <3>2 DEF MenuLine
  <2>7. QED
    BY <2>1, <2>4, <2>5
<1>4. QED
  BY <1>1, <1>2, <1>3

\* What run makes of a command line of the menu.
LEMMA MenuLineRuns ==
  ASSUME MenuLine
  PROVE  /\ run # "refused"
         /\ run = "options" =>
              \/ Len(args) \in Nat /\ First = Len(args) + 1
              \/ Len(args) \in Nat /\ First + 1 = Len(args) /\ args[First] = "--device-ip"
<1>1. CASE Len(args) = 1 /\ args[1] \in {"status", "quickstart"}
  <2>1. args # <<>>
    BY <1>1
  <2>2. QED
    BY <1>1, <2>1 DEF run, Printing
<1>2. CASE args = <<"device", "status">>
  <2>1. args # <<>> /\ args[1] = "device"
    BY <1>2
  <2>2. QED
    BY <1>2, <2>1 DEF run, device, Printing
<1>3. CASE Len(args) = 4 /\ args[1] = "session" /\ args[2] = "plan"
  <2>1. args # <<>>
    BY <1>3
  <2>2. session = "execute"
    BY <1>3 DEF session, HelpOnly
  <2>3. QED
    BY <1>3, <2>1, <2>2 DEF run, Printing
<1>4. CASE Len(args) = 2 /\ args[1] = "validate-manifest"
  <2>1. args # <<>>
    BY <1>4
  <2>2. QED
    BY <1>4, <2>1 DEF run, validate_manifest, Printing
<1>5. CASE \/ Len(args) = 2 /\ args[1] = "inspect"
           \/ Len(args) = 4 /\ args[1] = "inspect" /\ args[3] = "--device-ip"
  <2>1. args # <<>>
    BY <1>5
  <2>2. First = 3 /\ inspect # "refused"
    BY <1>5 DEF First, inspect
  <2>3. run = inspect
    BY <1>5, <2>1 DEF run, Printing
  <2>4. \/ Len(args) \in Nat /\ First = Len(args) + 1
        \/ Len(args) \in Nat /\ First + 1 = Len(args) /\ args[First] = "--device-ip"
    <3>1. CASE Len(args) = 2
      BY <2>2, <3>1
    <3>2. CASE Len(args) = 4 /\ args[3] = "--device-ip"
      BY <2>2, <3>2
    <3>3. QED
      BY <1>5, <3>1, <3>2
  <2>5. QED
    BY <2>2, <2>3, <2>4
<1>6. CASE \/ Len(args) = 3 /\ args[1] = "features"
           \/ Len(args) = 5 /\ args[1] = "features" /\ args[4] = "--device-ip"
  <2>1. args # <<>>
    BY <1>6
  <2>2. First = 4 /\ features # "refused"
    BY <1>6 DEF First, features
  <2>3. run = features
    BY <1>6, <2>1 DEF run, Printing
  <2>4. \/ Len(args) \in Nat /\ First = Len(args) + 1
        \/ Len(args) \in Nat /\ First + 1 = Len(args) /\ args[First] = "--device-ip"
    BY <1>6, <2>2
  <2>5. QED
    BY <2>2, <2>3, <2>4
<1>7. QED
  BY <1>1, <1>2, <1>3, <1>4, <1>5, <1>6 DEF MenuLine

LEMMA SelectStep ==
  ASSUME Select
  PROVE  /\ UNCHANGED <<menu, outcome, at>>
         /\ \/ stage' \in {"pause", "exited"} /\ UNCHANGED <<args, options>>
            \/ stage' = "dispatch" /\ options' = Defaults /\ MenuLine' /\ Len(args') \in Nat
<1>1. \/ stage' \in {"pause", "exited"} /\ UNCHANGED <<args, options>>
      \/ /\ stage' = "dispatch" /\ options' = Defaults
         /\ Complete(Line(1), Typed) /\ args' = Built(Line(1), Typed)
  BY DEF Select
<1>2. CASE Complete(Line(1), Typed) /\ args' = Built(Line(1), Typed)
  <2>1. Line(1) \in {"1", "2", "3", "4", "5", "6", "7"}
    BY <1>2, CompleteSelection
  <2>2. MenuLine' /\ Len(args') \in Nat
    BY <1>2, <2>1, BuiltLine
  <2>3. QED
    BY <1>1, <2>2 DEF Select
<1>3. QED
  BY <1>1, <1>2 DEF Select

LEMMA SelectKeeps == OptionsInv /\ Select => OptionsInv'
<1> SUFFICES ASSUME OptionsInv, Select PROVE OptionsInv'
  OBVIOUS
<1>1. \/ stage' \in {"pause", "exited"} /\ UNCHANGED <<args, options>>
      \/ stage' = "dispatch" /\ options' = Defaults /\ Len(args') \in Nat
  BY SelectStep
<1>2. Defaults = [name \in OptionNames |-> Defaults[name]]
  BY DEF Defaults
<1>3. LineTyped'
  BY <1>1, <1>2 DEF OptionsInv, LineTyped
<1>4. QED
  BY <1>1, <1>3 DEF OptionsInv, OptionsAreThePairs, Defaults

\* A command that is executed has read its options as the pairs that are there, each
\* the value given last (the loops of app.cpp), whatever the command line.
THEOREM OptionsPairs == Spec => []OptionsAreThePairs
<1>1. OptionsInv /\ [Next]_vars => OptionsInv'
  <2>1. OptionsInv /\ UNCHANGED vars => OptionsInv'
    <3> SUFFICES ASSUME OptionsInv, UNCHANGED vars PROVE OptionsInv'
      OBVIOUS
    <3>1. UNCHANGED <<menu, args, options, at, stage>>
      BY DEF vars
    <3>2. run' = run /\ First' = First /\ Known' = Known /\ Places' = Places
      BY <3>1 DEF run, help, device, session, analysis, inspect, features, experiment,
                  validate_manifest, HelpOnly, First, Known, Places
    <3>3. \A name : Given(name)' = Given(name)
      BY <3>1, <3>2 DEF Given
    <3>4. LineTyped'
      BY <3>1 DEF OptionsInv, LineTyped
    <3>5. stage = "options" => AtPair' /\ ReadSoFar'
      BY <3>1, <3>2, <3>3 DEF OptionsInv, AtPair, ReadSoFar, Defaults
    <3>6. OptionsAreThePairs'
      BY <3>1, <3>2 DEF OptionsInv, OptionsAreThePairs, Defaults
    <3>7. QED
      BY <3>1, <3>4, <3>5, <3>6 DEF OptionsInv
  <2>2. QED
    BY <2>1, DispatchKeeps, TakeOptionKeeps, EndOfOptionsKeeps, ExecuteKeeps, SelectKeeps DEF Next
<1>2. OptionsInv => OptionsAreThePairs
  BY DEF OptionsInv
<1>3. QED
  BY <1>1, <1>2, OptionsInit, PTL DEF Spec

LEMMA MenuStep == MenuInv /\ [Next]_vars => MenuInv'
<1> SUFFICES ASSUME MenuInv, [Next]_vars, menu' PROVE MenuInv'
  BY DEF MenuInv
<1>1. menu
  BY DEF Next, Dispatch, TakeOption, EndOfOptions, Execute, Select, Pause, Over, vars
<1>2. /\ outcome # "refused"
      /\ stage = "dispatch" => MenuLine /\ options = Defaults
      /\ stage = "options" => MenuPair
  BY <1>1 DEF MenuInv
<1>3. CASE Dispatch
  <2>1. UNCHANGED <<args, options>> /\ stage = "dispatch" /\ run # "refused"
    BY <1>2, <1>3, MenuLineRuns DEF Dispatch
  <2>2. \/ outcome' = "printed" /\ stage' = "pause"
        \/ run = "options" /\ stage' = "options" /\ at' = First /\ outcome' = outcome
        \/ stage' = "execute" /\ outcome' = outcome
    BY <1>1, <1>3, <2>1, RunType DEF Dispatch, Return
  <2>3. ASSUME run = "options", at' = First PROVE MenuPair'
    <3>1. run' = run
      BY <2>1 DEF run, help, device, session, analysis, inspect, features, experiment,
                  validate_manifest, HelpOnly
    <3>2. \/ Len(args) \in Nat /\ First = Len(args) + 1
          \/ Len(args) \in Nat /\ First + 1 = Len(args) /\ args[First] = "--device-ip"
      BY <1>2, <2>1, <2>3, MenuLineRuns
    <3>3. First \in Nat
      BY <2>3, <3>2, FirstPair
    <3>4. Defaults = [name \in OptionNames |-> Defaults[name]] /\ Defaults["--format"] = "text"
      BY DEF Defaults, OptionNames
    <3>5. options' = [name \in OptionNames |-> options'[name]] /\ options'["--format"] = "text"
      BY <1>2, <2>1, <3>4
    <3>6. \/ at' = Len(args') + 1
          \/ at' + 1 = Len(args') /\ args'[at'] = "--device-ip"
      BY <2>1, <2>3, <3>2
    <3>7. run' = "options" /\ Len(args') \in Nat /\ at' \in Nat
      BY <2>1, <2>3, <3>1, <3>2, <3>3
    <3>8. QED
      BY <3>5, <3>6, <3>7 DEF MenuPair
  <2>4. QED
    BY <1>2, <2>2, <2>3 DEF MenuInv
<1>4. CASE TakeOption
  <2>1. /\ UNCHANGED args /\ stage = "options" /\ at < Len(args)
    BY <1>4 DEF TakeOption
  <2>2. MenuPair /\ at + 1 = Len(args) /\ args[at] = "--device-ip"
    BY <1>2, <2>1 DEF MenuPair
  <2>3. Accepted(args[at], args[at + 1])
    BY <2>2 DEF Accepted, Known
  <2>4. /\ options' = [options EXCEPT ![args[at]] = args[at + 1]]
        /\ at' = at + 2 /\ UNCHANGED <<stage, outcome>>
    BY <1>4, <2>3 DEF TakeOption
  <2>5. MenuPair'
    <3>1. run' = run
      BY <2>1 DEF run, help, device, session, analysis, inspect, features, experiment,
                  validate_manifest, HelpOnly
    <3>2. options' = [name \in OptionNames |-> options'[name]] /\ options'["--format"] = "text"
      BY <2>2, <2>4 DEF MenuPair, OptionNames
    <3>3. at' = Len(args) + 1 /\ at' \in Nat /\ Len(args) \in Nat
      BY <2>2, <2>4 DEF MenuPair
    <3>4. run' = "options" /\ Len(args') = Len(args)
      BY <2>1, <2>2, <3>1 DEF MenuPair
    <3>5. QED
      BY <3>2, <3>3, <3>4 DEF MenuPair
  <2>6. QED
    BY <1>2, <2>1, <2>4, <2>5 DEF MenuInv
<1>5. CASE EndOfOptions
  <2>1. stage = "options" /\ at >= Len(args)
    BY <1>5 DEF EndOfOptions
  <2>2. at > Len(args) /\ options["--format"] = "text"
    BY <1>2, <2>1 DEF MenuPair
  <2>3. stage' = "execute" /\ outcome' = outcome
    BY <1>5, <2>2 DEF EndOfOptions
  <2>4. QED
    BY <1>2, <2>3 DEF MenuInv
<1>6. CASE Execute
  BY <1>1, <1>6 DEF Execute, Return, MenuInv
<1>7. CASE Select
  BY <1>2, <1>7, SelectStep DEF MenuInv
<1>8. CASE Pause
  BY <1>2, <1>8 DEF Pause, MenuInv
<1>9. CASE UNCHANGED vars
  <2>1. UNCHANGED <<menu, args, at, options, outcome, stage>>
    BY <1>9 DEF vars
  <2>2. run' = run
    BY <2>1 DEF run, help, device, session, analysis, inspect, features, experiment,
                validate_manifest, HelpOnly
  <2>3. QED
    BY <1>2, <2>1, <2>2 DEF MenuInv, MenuLine, MenuPair, Defaults
<1>10. QED
  BY <1>3, <1>4, <1>5, <1>6, <1>7, <1>8, <1>9 DEF Next, Over

\* Whatever is typed, the menu builds no command line that run refuses (run_menu
\* against run), neither when it is dispatched nor in its options.
THEOREM MenuUnderstood == Spec => []MenuIsUnderstood
<1>1. Init => MenuInv
  BY DEF Init, MenuInv
<1>2. MenuInv => MenuIsUnderstood
  BY DEF MenuInv, MenuIsUnderstood
<1>3. QED
  BY <1>1, <1>2, MenuStep, PTL DEF Spec

-----------------------------------------------------------------------------
(* run_process, for every listing, capacity of the pipe and size of a read, *)
(* wherever the child dies and whatever daemon it leaves behind.           *)

\* What has been read and what is in the pipe are, in order, what has been written.
Stream ==
  /\ Len(output) + Len(pipe) = written
  /\ \A i \in 1 .. Len(output) : output[i] = listing[i]
  /\ \A i \in 1 .. Len(pipe) : pipe[i] = listing[Len(output) + i]

\* Who holds the ends of the pipe and how far the child is, at each step of the parent.
Stages ==
  /\ parent \in {"ready", "returned"} =>
       /\ child \in {"none", "reaped"}
       /\ writing = {} /\ "parent" \notin reading /\ pipe = <<>>
  /\ parent = "fork" => child = "none" /\ writing = {"parent"} /\ pipe = <<>>
  /\ parent \in {"close", "read", "wait"} => child \in {"setup", "running", "exited"}
  /\ parent = "read" => "parent" \notin writing
  /\ parent = "wait" => writing = {} /\ "parent" \notin reading /\ pipe = <<>>

\* A living child holds the write end; one that ended well has written everything; and
\* where its status can be asked for, no other's output is accepted.
Living ==
  /\ child \in {"setup", "running"} => "child" \in writing
  /\ code = "zero" => child \in {"exited", "reaped"} /\ written = Len(listing)
  /\ parent = "returned" /\ result = "output" => code = "zero" \/ sigchld = "ignored"

ProcessInv == ProcessTypeOK /\ Stream /\ Stages /\ Living

LEMMA ProcessInitInv == ProcessInit => ProcessInv
BY ProcessAssumption DEF ProcessInit, ProcessInv, ProcessTypeOK, Stream, Stages, Living, LineKinds, Holders

\* A step that moves no line keeps the stream.
LEMMA StreamStays ==
  ASSUME Stream, UNCHANGED <<listing, written, pipe, output>>
  PROVE  Stream'
BY DEF Stream

LEMMA OpenPipeInv == ProcessInv /\ OpenPipe => ProcessInv'
<1> SUFFICES ASSUME ProcessInv, OpenPipe PROVE ProcessInv'
  OBVIOUS
<1>1. /\ listing' \in Seq(LineKinds) /\ written' = 0 /\ output' = <<>> /\ pipe' = <<>>
      /\ child' = "none" /\ code' = "none" /\ calls' \in 0 .. MaxCalls
      /\ sigchld' \in {"default", "ignored"}
  BY ProcessAssumption DEF ProcessInv, ProcessTypeOK, Stages, OpenPipe, pipeVars
<1>2. Stream'
  BY <1>1 DEF Stream
<1>3. \/ parent' = "returned" /\ result' = "threw" /\ reading' = reading /\ writing' = writing
      \/ /\ parent' = "fork" /\ result' = "none"
         /\ reading' = reading \cup {"parent"} /\ writing' = writing \cup {"parent"}
  BY DEF OpenPipe, EndCall, pipeVars
<1>4. reading \subseteq Holders /\ writing = {} /\ "parent" \notin reading
  BY DEF ProcessInv, ProcessTypeOK, Stages, OpenPipe
<1>5. /\ reading' \subseteq Holders /\ writing' \subseteq Holders
      /\ parent' \in {"returned", "fork"} /\ result' \in {"none", "threw"}
  BY <1>3, <1>4 DEF Holders
<1>6. ProcessTypeOK'
  <2>1. listing' \in Seq(LineKinds) /\ written' \in 0 .. Len(listing')
    BY <1>1
  <2>2. pipe' \in Seq(LineKinds) /\ Len(pipe') <= Capacity /\ output' \in Seq(LineKinds)
    BY <1>1, ProcessAssumption
  <2>3. QED
    BY <1>1, <1>5, <2>1, <2>2 DEF ProcessTypeOK
<1>7. Stages' /\ Living'
  BY <1>1, <1>3, <1>4 DEF Stages, Living
<1>8. QED
  BY <1>2, <1>6, <1>7 DEF ProcessInv

LEMMA ForkInv == ProcessInv /\ Fork => ProcessInv'
<1> SUFFICES ASSUME ProcessInv, Fork PROVE ProcessInv'
  OBVIOUS
<1>1. Stream'
  BY StreamStays DEF ProcessInv, Fork
<1>2. ProcessTypeOK'
  BY DEF ProcessInv, Fork, EndCall, ProcessTypeOK, Holders
<1>3. Stages' /\ Living'
  BY DEF ProcessInv, Fork, EndCall, Stages, Living
<1>4. QED
  BY <1>1, <1>2, <1>3 DEF ProcessInv

LEMMA CloseInv == ProcessInv /\ CloseWriteEnd => ProcessInv'
<1> SUFFICES ASSUME ProcessInv, CloseWriteEnd PROVE ProcessInv'
  OBVIOUS
<1>1. Stream'
  BY StreamStays DEF ProcessInv, CloseWriteEnd, processVars
<1>2. ProcessTypeOK' /\ Stages' /\ Living'
  BY DEF ProcessInv, CloseWriteEnd, processVars, ProcessTypeOK, Holders, Stages, Living
<1>3. QED
  BY <1>1, <1>2 DEF ProcessInv

\* A read moves lines from the front of the pipe to the end of the output.
LEMMA ReadInv == ProcessInv /\ ReadPipe => ProcessInv'
<1> SUFFICES ASSUME ProcessInv, ReadPipe PROVE ProcessInv'
  OBVIOUS
<1>1. PICK n \in 1 .. Len(pipe) :
        /\ output' = output \o SubSeq(pipe, 1, n)
        /\ pipe' = SubSeq(pipe, n + 1, Len(pipe))
  BY DEF ReadPipe
<1>2. output \in Seq(LineKinds) /\ pipe \in Seq(LineKinds) /\ Len(pipe) <= Capacity
  BY DEF ProcessInv, ProcessTypeOK
<1>3. /\ output' \in Seq(LineKinds) /\ Len(output') = Len(output) + n
      /\ \A i \in 1 .. Len(output) : output'[i] = output[i]
      /\ \A i \in Len(output) + 1 .. Len(output) + n : output'[i] = pipe[i - Len(output)]
  BY <1>1, <1>2
<1>4. /\ pipe' \in Seq(LineKinds) /\ Len(pipe') = Len(pipe) - n
      /\ \A i \in 1 .. Len(pipe') : pipe'[i] = pipe[n + i]
  <2>1. n + 1 \in Int /\ Len(pipe) \in Int /\ \A i \in n + 1 .. Len(pipe) : pipe[i] \in LineKinds
    BY <1>2
  <2>2. /\ pipe' \in Seq(LineKinds)
        /\ Len(pipe') = IF n + 1 <= Len(pipe) THEN Len(pipe) - (n + 1) + 1 ELSE 0
        /\ \A i \in 1 .. Len(pipe) - (n + 1) + 1 : pipe'[i] = pipe[n + 1 + i - 1]
    BY <1>1, <2>1, SubSeqProperties
  <2>3. QED
    BY <1>2, <2>2
<1>5. UNCHANGED <<parent, child, code, listing, written, reading, writing, result, calls, sigchld>>
  BY DEF ReadPipe, processVars
<1>6. Stream'
  <2>1. Len(output') + Len(pipe') = written'
    BY <1>2, <1>3, <1>4, <1>5 DEF ProcessInv, Stream
  <2>2. ASSUME NEW i \in 1 .. Len(output') PROVE output'[i] = listing[i]
    <3>1. CASE i <= Len(output)
      BY <1>2, <1>3, <3>1 DEF ProcessInv, Stream
    <3>2. CASE i > Len(output)
      <4>1. i - Len(output) \in 1 .. Len(pipe) /\ output'[i] = pipe[i - Len(output)]
        BY <1>2, <1>3, <3>2
      <4>2. QED
        BY <1>2, <4>1 DEF ProcessInv, Stream
    <3>3. QED
      BY <1>2, <3>1, <3>2
  <2>3. ASSUME NEW i \in 1 .. Len(pipe') PROVE pipe'[i] = listing[Len(output') + i]
    <3>1. n + i \in 1 .. Len(pipe) /\ pipe'[i] = pipe[n + i]
      <4>1. Len(pipe) \in Nat /\ Len(pipe') = Len(pipe) - n
        BY <1>2, <1>4
      <4>2. n + i \in 1 .. Len(pipe)
        BY <4>1
      <4>3. QED
        BY <1>4, <4>2
    <3>2. Len(output) + (n + i) = Len(output') + i
      BY <1>2, <1>3
    <3>3. QED
      BY <3>1, <3>2 DEF ProcessInv, Stream
  <2>4. QED
    BY <1>5, <2>1, <2>2, <2>3 DEF Stream
<1>7. ProcessTypeOK'
  BY <1>2, <1>3, <1>4, <1>5, ProcessAssumption DEF ProcessInv, ProcessTypeOK
<1>8. Stages' /\ Living'
  BY <1>5 DEF ProcessInv, ReadPipe, Stages, Living
<1>9. QED
  BY <1>6, <1>7, <1>8 DEF ProcessInv

LEMMA EndOfFileInv == ProcessInv /\ EndOfFile => ProcessInv'
<1> SUFFICES ASSUME ProcessInv, EndOfFile PROVE ProcessInv'
  OBVIOUS
<1>1. Stream'
  BY StreamStays DEF ProcessInv, EndOfFile, processVars
<1>2. ProcessTypeOK' /\ Stages' /\ Living'
  BY DEF ProcessInv, EndOfFile, processVars, ProcessTypeOK, Holders, Stages, Living
<1>3. QED
  BY <1>1, <1>2 DEF ProcessInv

LEMMA WaitInv == ProcessInv /\ Wait => ProcessInv'
<1> SUFFICES ASSUME ProcessInv, Wait PROVE ProcessInv'
  OBVIOUS
<1>1. Stream'
  BY StreamStays DEF ProcessInv, Wait, pipeVars
<1>2. ProcessTypeOK' /\ Stages' /\ Living'
  BY DEF ProcessInv, Wait, EndCall, pipeVars, ProcessTypeOK, Stages, Living
<1>3. QED
  BY <1>1, <1>2 DEF ProcessInv

\* However the child dies, an end that it alone held is closed.
LEMMA DieInv ==
  ASSUME ProcessInv, NEW how \in {"zero", "other", "signal"}, Die(how),
         child \in {"setup", "running"},
         how = "zero" => written = Len(listing),
         writing' \in {writing \ {"child"}, (writing \ {"child"}) \cup {"daemon"}}
  PROVE  ProcessInv'
<1>1. Stream'
  BY StreamStays DEF ProcessInv, Die
<1>2. ProcessTypeOK'
  BY DEF ProcessInv, Die, ProcessTypeOK, Holders
<1>3. Stages' /\ Living'
  BY DEF ProcessInv, Die, Stages, Living
<1>4. QED
  BY <1>1, <1>2, <1>3 DEF ProcessInv

LEMMA ExecInv == ProcessInv /\ Exec => ProcessInv'
<1> SUFFICES ASSUME ProcessInv, Exec PROVE ProcessInv'
  OBVIOUS
<1>1. CASE Die("other") /\ writing' = writing \ {"child"}
  BY <1>1, DieInv DEF Exec
<1>2. CASE child' = "running"
  <2>1. /\ child = "setup" /\ reading' = reading \ {"child"}
        /\ UNCHANGED <<parent, code, listing, written, pipe, writing, output, result, calls, sigchld>>
    BY <1>2 DEF Exec, Die
  <2>2. Stream'
    BY <2>1, StreamStays DEF ProcessInv
  <2>3. ProcessTypeOK' /\ Stages' /\ Living'
    BY <1>2, <2>1 DEF ProcessInv, ProcessTypeOK, Holders, Stages, Living
  <2>4. QED
    BY <2>2, <2>3 DEF ProcessInv
<1>3. QED
  BY <1>1, <1>2 DEF Exec

\* A write moves the next line of the listing to the end of the pipe.
LEMMA WriteInv == ProcessInv /\ Write => ProcessInv'
<1> SUFFICES ASSUME ProcessInv, Write PROVE ProcessInv'
  OBVIOUS
<1>1. /\ output \in Seq(LineKinds) /\ pipe \in Seq(LineKinds) /\ listing \in Seq(LineKinds)
      /\ written \in Nat /\ written < Len(listing) /\ Len(pipe) < Capacity
  BY DEF ProcessInv, ProcessTypeOK, Write
<1>2. listing[written + 1] \in LineKinds
  BY <1>1
<1>3. /\ pipe' \in Seq(LineKinds) /\ Len(pipe') = Len(pipe) + 1
      /\ \A i \in 1 .. Len(pipe) : pipe'[i] = pipe[i]
      /\ pipe'[Len(pipe) + 1] = listing[written + 1]
  BY <1>1, <1>2 DEF Write
<1>4. /\ written' = written + 1
      /\ UNCHANGED <<parent, child, code, listing, reading, writing, output, result, calls, sigchld>>
  BY DEF Write
<1>5. Stream'
  <2>1. Len(output') + Len(pipe') = written' /\ Len(output) + Len(pipe) = written
    <3>1. Len(output) + Len(pipe) = written
      BY DEF ProcessInv, Stream
    <3>2. Len(output) \in Nat /\ Len(pipe) \in Nat /\ Len(output') = Len(output)
      BY <1>1, <1>4
    <3>3. QED
      BY <1>3, <1>4, <3>1, <3>2
  <2>2. ASSUME NEW i \in 1 .. Len(pipe') PROVE pipe'[i] = listing[Len(output) + i]
    <3>1. CASE i <= Len(pipe)
      <4>1. i \in 1 .. Len(pipe)
        BY <1>1, <3>1
      <4>2. pipe'[i] = pipe[i]
        BY <1>1, <1>3, <4>1
      <4>3. pipe[i] = listing[Len(output) + i]
        BY <4>1 DEF ProcessInv, Stream
      <4>4. QED
        BY <4>2, <4>3
    <3>2. CASE i = Len(pipe) + 1
      <4>1. Len(output) + i = written + 1
        <5>1. Len(output) \in Nat /\ Len(pipe) \in Nat /\ written \in Nat
          BY <1>1
        <5>2. QED
          BY <2>1, <3>2, <5>1
      <4>2. QED
        BY <1>3, <3>2, <4>1
    <3>3. QED
      BY <1>1, <1>3, <3>1, <3>2
  <2>3. \A i \in 1 .. Len(output) : output[i] = listing[i]
    BY DEF ProcessInv, Stream
  <2>4. QED
    BY <1>4, <2>1, <2>2, <2>3 DEF Stream
<1>6. ProcessTypeOK'
  BY <1>1, <1>3, <1>4, ProcessAssumption DEF ProcessInv, ProcessTypeOK
<1>7. Stages' /\ Living'
  BY <1>4 DEF ProcessInv, Write, Stages, Living
<1>8. QED
  BY <1>5, <1>6, <1>7 DEF ProcessInv

LEMMA DaemonInv == ProcessInv /\ DaemonDetaches => ProcessInv'
<1> SUFFICES ASSUME ProcessInv, DaemonDetaches PROVE ProcessInv'
  OBVIOUS
<1>1. Stream'
  BY StreamStays DEF ProcessInv, DaemonDetaches, processVars
<1>2. ProcessTypeOK' /\ Stages' /\ Living'
  BY DEF ProcessInv, DaemonDetaches, processVars, ProcessTypeOK, Holders, Stages, Living
<1>3. QED
  BY <1>1, <1>2 DEF ProcessInv

LEMMA ProcessStepInv == ProcessInv /\ [ProcessNext]_callVars => ProcessInv'
<1> SUFFICES ASSUME ProcessInv, [ProcessNext]_callVars PROVE ProcessInv'
  OBVIOUS
<1>1. CASE ParentStep
  BY <1>1, OpenPipeInv, ForkInv, CloseInv, ReadInv, EndOfFileInv, WaitInv DEF ParentStep
<1>2. CASE Exit
  BY <1>2, DieInv DEF Exit
<1>3. CASE Exec \/ Write
  BY <1>3, ExecInv, WriteInv
<1>4. CASE Killed
  BY <1>4, DieInv DEF Killed
<1>5. CASE DaemonDetaches
  BY <1>5, DaemonInv
<1>6. CASE NoMoreCalls \/ UNCHANGED callVars
  BY <1>6 DEF NoMoreCalls, callVars, processVars, pipeVars, ProcessInv, ProcessTypeOK, Stream, Stages, Living
<1>7. QED
  BY <1>1, <1>2, <1>3, <1>4, <1>5, <1>6 DEF ProcessNext, ChildStep

LEMMA ProcessInvariance == ProcessSpec => []ProcessInv
BY ProcessInitInv, ProcessStepInv, PTL DEF ProcessSpec

(***************************************************************************)
(* The values keep their types, and the pipe never holds more than it can. *)
(***************************************************************************)
THEOREM ProcessTypeCorrect == ProcessSpec => []ProcessTypeOK
<1>1. ProcessInv => ProcessTypeOK
  BY DEF ProcessInv
<1>2. QED
  BY <1>1, ProcessInvariance, PTL

(***************************************************************************)
(* Whichever of its system calls fails and however the child ends, a call  *)
(* that returns leaves neither a descriptor nor an unreaped child.         *)
(***************************************************************************)
THEOREM NothingLeft == ProcessSpec => []NothingLeftBehind
<1>1. ProcessInv => NothingLeftBehind
  BY DEF ProcessInv, Stages, NothingLeftBehind
<1>2. QED
  BY <1>1, ProcessInvariance, PTL

(***************************************************************************)
(* Where SIGCHLD has its default disposition, output that the parent       *)
(* returns is the whole listing: end of file comes only after the child's  *)
(* last line, and an exit status of zero only after the child has written  *)
(* it.                                                                     *)
(***************************************************************************)
OutputIsWhole ==
  sigchld = "default" /\ parent = "returned" /\ result = "output" => output = listing

THEOREM WholeOutput == ProcessSpec => []OutputIsWhole
<1>1. ProcessInv => OutputIsWhole
  <2> SUFFICES ASSUME ProcessInv, sigchld = "default", parent = "returned", result = "output"
               PROVE  output = listing
    BY DEF OutputIsWhole
  <2>1. output \in Seq(LineKinds) /\ listing \in Seq(LineKinds)
    BY DEF ProcessInv, ProcessTypeOK
  <2>2. written = Len(listing) /\ pipe = <<>>
    BY DEF ProcessInv, Stages, Living
  <2>3. Len(output) = Len(listing) /\ \A i \in 1 .. Len(output) : output[i] = listing[i]
    BY <2>1, <2>2 DEF ProcessInv, Stream
  <2>4. QED
    BY <2>1, <2>3
<1>2. QED
  BY <1>1, ProcessInvariance, PTL

(***************************************************************************)
(* So the one device the program goes on with is the only one adb has to   *)
(* report, unless the program inherited a SIGCHLD that is ignored.         *)
(***************************************************************************)
THEOREM OnlyDevice == ProcessSpec => []OnlyDeviceIsTheOnly
<1>1. OutputIsWhole => OnlyDeviceIsTheOnly
  BY FS_Singleton DEF OutputIsWhole, OnlyDeviceIsTheOnly, SingleDevice
<1>2. QED
  BY <1>1, WholeOutput, PTL

-----------------------------------------------------------------------------
(* What history prints.                                                    *)

Entries == [activity : Activities, type : Lifecycle \cup {"OTHER"}]

\* The loop of parse_activity_events: the events kept after each entry of the log.
LEMMA EventsLoop ==
  ASSUME NEW log \in Seq(Entries)
  PROVE  \E kept \in [0 .. Len(log) -> Seq(Entries)] :
           /\ kept[0] = <<>>
           /\ \A n \in 1 .. Len(log) :
                kept[n] = IF OfTarget(log[n]) THEN Append(kept[n - 1], log[n]) ELSE kept[n - 1]
           /\ ActivityEvents(log) = kept[Len(log)]
<1> DEFINE Positions == 1 .. Len(log)
           Body(g, u) == IF u = {} THEN <<>>
                         ELSE LET n == Seqs!Max(u)
                              IN  IF OfTarget(log[n]) THEN Append(g[u \ {n}], log[n])
                                                      ELSE g[u \ {n}]
           iter == CHOOSE g : g = [u \in SUBSET Positions |-> Body(g, u)]
           pick == [u \in SUBSET Positions |-> Seqs!Max(u)]
           op == [n \in Positions |-> [v \in Seq(Entries) |->
                    IF OfTarget(log[n]) THEN Append(v, log[n]) ELSE v]]
           kept == [n \in 0 .. Len(log) |-> iter[1 .. n]]
<1>1. IsFiniteSet(Positions) /\ Len(log) \in Nat /\ DOMAIN log = Positions
  BY FS_Interval
<1>2. \A n \in Positions : log[n] \in Entries
  OBVIOUS
<1>3. ASSUME NEW u \in SUBSET Positions, u # {} PROVE pick[u] \in u
  <2>1. IsFiniteSet(u) /\ u \subseteq Int
    <3>1. Positions \subseteq Int
      BY <1>1
    <3> HIDE DEF Positions
    <3>2. QED
      BY <1>1, <3>1, FS_Subset
  <2>2. \E m \in u : \A n \in u : m >= n
    BY <2>1, <1>3, GreatestElement
  <2>3. Seqs!Max(u) \in u
    BY <2>2 DEF Seqs!Max
  <2>4. QED
    BY <2>3
<1>4. \A n \in Positions : \A v \in Seq(Entries) : op[n][v] \in Seq(Entries)
  BY <1>2
<1>5. PICK g : IsFold(g, Positions, Seq(Entries), <<>>, pick, op)
  <2>1. <<>> \in Seq(Entries)
    OBVIOUS
  <2> HIDE DEF Positions, pick, op
  <2>2. QED
    BY <1>1, <1>3, <1>4, <2>1, FoldExists
<1>6. \A u \in SUBSET Positions : g[u] = Body(g, u)
  <2>1. TAKE u \in SUBSET Positions
  <2>2. CASE u = {}
    BY <1>5, <2>2 DEF IsFold
  <2>3. CASE u # {}
    <3>1. pick[u] \in Positions /\ g[u \ {pick[u]}] \in Seq(Entries) /\ pick[u] = Seqs!Max(u)
      BY <1>3, <1>5, <2>3 DEF IsFold
    <3>2. g[u] = op[pick[u]][g[u \ {pick[u]}]]
      BY <1>5, <2>3 DEF IsFold
    <3>3. QED
      BY <2>3, <3>1, <3>2
  <2>4. QED
    BY <2>2, <2>3
<1>7. g = [u \in SUBSET Positions |-> Body(g, u)]
  BY <1>5, <1>6 DEF IsFold
<1>8. iter = [u \in SUBSET Positions |-> Body(iter, u)]
  <2> HIDE DEF Body, Positions
  <2>1. QED
    BY <1>7
<1>9. ActivityEvents(log) = iter[Positions]
  BY <1>1 DEF ActivityEvents, Seqs!FoldLeft, Seqs!MapThenFoldSet, OfTarget
<1>10. ASSUME NEW n \in Positions
       PROVE  iter[1 .. n] = IF OfTarget(log[n]) THEN Append(iter[1 .. (n - 1)], log[n])
                             ELSE iter[1 .. (n - 1)]
  <2>1. /\ 1 .. n \in SUBSET Positions /\ 1 .. n # {}
        /\ n \in 1 .. n /\ (1 .. n) \ {n} = 1 .. (n - 1)
    <3>1. n \in Nat /\ n >= 1 /\ n <= Len(log) /\ Len(log) \in Nat
      BY <1>1
    <3>2. 1 .. n \subseteq 1 .. Len(log) /\ n \in 1 .. n
      BY <3>1
    <3>3. \A m : m \in (1 .. n) \ {n} <=> m \in 1 .. (n - 1)
      BY <3>1
    <3>4. QED
      BY <3>2, <3>3
  <2>2. Seqs!Max(1 .. n) \in 1 .. n /\ \A m \in 1 .. n : Seqs!Max(1 .. n) >= m
    <3>1. \A m \in 1 .. n : n >= m
      BY <1>1
    <3>2. QED
      BY <2>1, <3>1 DEF Seqs!Max
  <2>3. Seqs!Max(1 .. n) = n
    BY <1>1, <2>1, <2>2
  <2>4. iter[1 .. n] = Body(iter, 1 .. n)
    <3> HIDE DEF iter, Body
    <3>1. QED
      BY <1>8, <2>1
  <2>5. QED
    <3> HIDE DEF iter
    <3>1. QED
      BY <2>1, <2>3, <2>4
<1>11. kept[0] = <<>>
  <2>1. 1 .. 0 = {} /\ {} \in SUBSET Positions
    OBVIOUS
  <2>2. iter[{}] = Body(iter, {})
    <3> HIDE DEF iter, Body
    <3>1. QED
      BY <1>8, <2>1
  <2>3. iter[{}] = <<>>
    <3> HIDE DEF iter
    <3>1. QED
      BY <2>2
  <2> HIDE DEF iter
  <2>4. QED
    BY <1>1, <2>1, <2>3
<1>12. \A n \in 1 .. Len(log) :
         kept[n] = IF OfTarget(log[n]) THEN Append(kept[n - 1], log[n]) ELSE kept[n - 1]
  <2> HIDE DEF iter
  <2>1. TAKE n \in 1 .. Len(log)
  <2>2. n - 1 \in 0 .. Len(log) /\ n \in 0 .. Len(log)
    BY <1>1
  <2>3. QED
    BY <1>10, <2>2
<1>13. ActivityEvents(log) = kept[Len(log)]
  <2> HIDE DEF iter
  <2>1. QED
    BY <1>1, <1>9
<1>14. kept \in [0 .. Len(log) -> Seq(Entries)]
  <2> DEFINE T == {n \in Nat : n <= Len(log) => kept[n] \in Seq(Entries)}
  <2> HIDE DEF kept
  <2>1. 0 \in T
    <3>1. <<>> \in Seq(Entries)
      OBVIOUS
    <3>2. QED
      BY <1>11, <3>1
  <2>2. ASSUME NEW n \in Nat, n \in T PROVE n + 1 \in T
    <3>1. SUFFICES ASSUME n + 1 <= Len(log) PROVE kept[n + 1] \in Seq(Entries)
      OBVIOUS
    <3>2. n + 1 \in 1 .. Len(log) /\ (n + 1) - 1 = n /\ n <= Len(log)
      BY <1>1, <3>1
    <3>3. kept[n] \in Seq(Entries) /\ log[n + 1] \in Entries
      BY <1>2, <2>2, <3>2
    <3>4. kept[n + 1] = IF OfTarget(log[n + 1]) THEN Append(kept[n], log[n + 1]) ELSE kept[n]
      BY <1>12, <3>2
    <3>5. QED
      BY <3>3, <3>4
  <2>3. \A n \in Nat : n \in T
    <3> HIDE DEF T
    <3>1. QED
      BY <2>1, <2>2, InductionOnNat
  <2>4. \A n \in 0 .. Len(log) : kept[n] \in Seq(Entries)
    BY <1>1, <2>3
  <2>5. kept = [n \in 0 .. Len(log) |-> kept[n]]
    BY DEF kept
  <2>6. QED
    BY <2>4, <2>5
<1>15. QED
  <2> HIDE DEF kept
  <2>1. QED
    BY <1>11, <1>12, <1>13, <1>14

\* The events kept end with the last entry of the log that is the target's.
LEMMA LastEvent ==
  ASSUME NEW log \in Seq(Entries)
  PROVE  LET events == ActivityEvents(log)
             last == LastOfTarget(log)
         IN  /\ events \in Seq(Entries)
             /\ events = <<>> => last = 0
             /\ events # <<>> => last > 0 /\ events[Len(events)] = log[last]
<1>1. PICK kept \in [0 .. Len(log) -> Seq(Entries)] :
        /\ kept[0] = <<>>
        /\ \A n \in 1 .. Len(log) :
             kept[n] = IF OfTarget(log[n]) THEN Append(kept[n - 1], log[n]) ELSE kept[n - 1]
        /\ ActivityEvents(log) = kept[Len(log)]
  BY EventsLoop
<1>2. Len(log) \in Nat /\ \A n \in 1 .. Len(log) : log[n] \in Entries
  OBVIOUS
<1> DEFINE None(n) == \A i \in 1 .. n : ~OfTarget(log[i])
           Ends(n) == \E i \in 1 .. n :
                        /\ OfTarget(log[i]) /\ kept[n][Len(kept[n])] = log[i]
                        /\ \A j \in 1 .. n : OfTarget(log[j]) => j <= i
           T == {n \in Nat : n <= Len(log) =>
                   IF kept[n] = <<>> THEN None(n) ELSE Ends(n)}
<1>3. 0 \in T
  BY <1>1
<1>4. ASSUME NEW n \in Nat, n \in T PROVE n + 1 \in T
  <2>1. SUFFICES ASSUME n + 1 <= Len(log)
                 PROVE  IF kept[n + 1] = <<>> THEN None(n + 1) ELSE Ends(n + 1)
    OBVIOUS
  <2>2. n + 1 \in 1 .. Len(log) /\ (n + 1) - 1 = n /\ n <= Len(log) /\ n \in 0 .. Len(log)
    BY <1>2, <2>1
  <2>3. IF kept[n] = <<>> THEN None(n) ELSE Ends(n)
    BY <1>4, <2>2
  <2>4. kept[n] \in Seq(Entries) /\ log[n + 1] \in Entries
    BY <1>1, <1>2, <2>2
  <2>5. kept[n + 1] = IF OfTarget(log[n + 1]) THEN Append(kept[n], log[n + 1]) ELSE kept[n]
    BY <1>1, <2>2
  <2>6. \A i \in 1 .. n + 1 : i \in 1 .. n \/ i = n + 1
    OBVIOUS
  <2>7. CASE OfTarget(log[n + 1])
    <3>1. /\ kept[n + 1] = Append(kept[n], log[n + 1])
          /\ kept[n + 1] # <<>>
          /\ kept[n + 1][Len(kept[n + 1])] = log[n + 1]
      BY <2>4, <2>5, <2>7
    <3>2. \A j \in 1 .. n + 1 : j <= n + 1
      OBVIOUS
    <3>3. Ends(n + 1)
      BY <2>7, <3>1, <3>2
    <3>4. QED
      BY <3>1, <3>3
  <2>8. CASE ~OfTarget(log[n + 1])
    <3>1. kept[n + 1] = kept[n]
      BY <2>5, <2>8
    <3>2. CASE kept[n] = <<>>
      BY <2>3, <2>6, <2>8, <3>1, <3>2
    <3>3. CASE kept[n] # <<>>
      <4>1. PICK i \in 1 .. n : /\ OfTarget(log[i]) /\ kept[n][Len(kept[n])] = log[i]
                               /\ \A j \in 1 .. n : OfTarget(log[j]) => j <= i
        BY <2>3, <3>3
      <4>2. ASSUME NEW j \in 1 .. n + 1, OfTarget(log[j]) PROVE j <= i
        <5>1. j \in 1 .. n
          BY <2>6, <2>8, <4>2
        <5>2. QED
          BY <4>1, <4>2, <5>1
      <4>3. Ends(n + 1)
        <5>1. i \in 1 .. n + 1
          OBVIOUS
        <5>2. QED
          BY <3>1, <4>1, <4>2, <5>1
      <4>4. QED
        BY <3>1, <3>3, <4>3
    <3>4. QED
      BY <3>2, <3>3
  <2>9. QED
    BY <2>7, <2>8
<1>5. Len(log) \in T
  <2>1. \A n \in Nat : n \in T
    <3> HIDE DEF T
    <3>1. QED
      BY <1>3, <1>4, InductionOnNat
  <2>2. QED
    BY <1>2, <2>1
<1> DEFINE positions == {i \in 1 .. Len(log) : OfTarget(log[i])}
<1>6. LastOfTarget(log) = IF positions # {} THEN Seqs!Max(positions) ELSE 0
  BY DEF LastOfTarget, Seqs!SelectLastInSeq
<1>7. kept[Len(log)] \in Seq(Entries)
  BY <1>1, <1>2
<1>8. CASE kept[Len(log)] = <<>>
  <2>1. positions = {}
    BY <1>2, <1>5, <1>8
  <2>2. QED
    BY <1>1, <1>6, <1>7, <1>8, <2>1
<1>9. CASE kept[Len(log)] # <<>>
  <2>1. PICK i \in 1 .. Len(log) :
          /\ OfTarget(log[i]) /\ kept[Len(log)][Len(kept[Len(log)])] = log[i]
          /\ \A j \in 1 .. Len(log) : OfTarget(log[j]) => j <= i
    BY <1>2, <1>5, <1>9
  <2>2. i \in positions /\ \A j \in positions : i >= j
    BY <1>2, <2>1
  <2>3. Seqs!Max(positions) \in positions /\ \A j \in positions : Seqs!Max(positions) >= j
    BY <2>2 DEF Seqs!Max
  <2>4. Seqs!Max(positions) = i /\ i > 0
    BY <1>2, <2>2, <2>3
  <2>5. QED
    BY <1>1, <1>6, <1>7, <1>9, <2>1, <2>2, <2>4
<1>10. QED
  BY <1>8, <1>9

-----------------------------------------------------------------------------
(* The session commands.                                                   *)

Wanted == IF request = "foreground" THEN TargetActivities ELSE HomeActivities
Named == Contains(TextOf[asked.resumed], TargetPackage)

\* The lock since it was read: what was said to be unlocked stays so until the phone
\* locks, and the gate lets through only what was said to be unlocked or not said at all.
GateInv ==
  /\ told = "unlocked" /\ ~relocked => ~phone.locked
  /\ pc = "package" /\ ~ready.locked => told \in {"unlocked", "nothing"}
  /\ pc \in {"top", "windows", "decide", "collapse", "move"} /\ Transition =>
       told \in {"unlocked", "nothing"}
  /\ pc \in {"power", "trust", "package"} => ~moved /\ drove = {}
  /\ pc = "log" => request = "history"
  /\ pc \in {"collapse", "move"} \/ moved => Transition
  /\ LockedPhoneIsNotDriven

\* What the sample says of the phone it was taken of, and where an undisturbed intent led.
SampleInv ==
  /\ pc = "top" /\ moved /\ quiet => phone.resumed \in Wanted
  /\ pc \in {"windows", "decide"} =>
       /\ sample.matches => Named
       /\ quiet => sample.matches = Named
       /\ moved /\ quiet => asked.resumed \in Wanted

SessionInv ==
  /\ SessionTypeOK
  /\ exit < 0 <=> pc # "done"
  /\ GateInv /\ SampleInv /\ ReportMatchesPhone

LEMMA SessionInitInv == SessionInit => SessionInv
<1> SUFFICES ASSUME SessionInit PROVE SessionInv
  OBVIOUS
<1>1. phone \in Phones
  <2>1. <<>> \in Seq([activity : Activities, type : Lifecycle \cup {"OTHER"}])
    OBVIOUS
  <2>2. QED
    BY <2>1 DEF SessionInit, Phones
<1>2. SessionTypeOK
  <2>1. changes \in 0 .. MaxChanges /\ drove \subseteq {"collapse", "move"} /\ exit = -1
    BY PhoneCommandsAssumption DEF SessionInit
  <2>2. QED
    BY <1>1, <2>1 DEF SessionInit, SessionTypeOK
<1>3. GateInv /\ SampleInv /\ ReportMatchesPhone /\ (exit < 0 <=> pc # "done")
  BY DEF SessionInit, GateInv, SampleInv, ReportMatchesPhone, LockedPhoneIsNotDriven
<1>4. QED
  BY <1>2, <1>3 DEF SessionInv

\* While the command runs, nothing is claimed of what it has printed.
LEMMA NothingPrinted == ASSUME exit' < 0, exit' \in Int PROVE ReportMatchesPhone'
<1>1. exit' # 0
  OBVIOUS
<1>2. QED
  BY <1>1, Zenon DEF ReportMatchesPhone

\* Resuming an activity changes the activity and the log, and keeps the lock.
LEMMA ShowingIsPhone ==
  ASSUME phone \in Phones, NEW a \in Activities
  PROVE  Showing(a) \in Phones /\ Showing(a).resumed = a /\ Showing(a).locked = phone.locked
<1> DEFINE entries == << Entry(phone.resumed, "ACTIVITY_PAUSED"), Entry(phone.resumed, "OTHER"),
                         Entry(a, "ACTIVITY_RESUMED") >>
           Record == [activity : Activities, type : Lifecycle \cup {"OTHER"}]
<1>1. CASE a = phone.resumed
  BY <1>1 DEF Showing
<1>2. CASE a # phone.resumed
  <2>1. entries \in Seq(Record)
    BY DEF Entry, Lifecycle, Phones
  <2>2. phone.log \o entries \in Seq(Record)
    <3> HIDE DEF entries
    <3>1. QED
      BY <2>1 DEF Phones
  <2>3. Showing(a) = [phone EXCEPT !.resumed = a, !.log = phone.log \o entries]
    BY <1>2 DEF Showing
  <2> HIDE DEF entries
  <2>4. QED
    BY <2>2, <2>3 DEF Phones
<1>3. QED
  BY <1>1, <1>2

\* Whatever happens to the phone, it is undisturbed no longer.
LEMMA PhoneChangesInv == SessionInv /\ PhoneChanges => SessionInv'
<1> SUFFICES ASSUME SessionInv, PhoneChanges PROVE SessionInv'
  OBVIOUS
<1>1. /\ changes > 0 /\ changes' = changes - 1 /\ exit < 0 /\ quiet' = FALSE
      /\ UNCHANGED <<pc, request, ready, sample, moved, exit, report, asked, told, drove>>
      /\ relocked' = (relocked \/ (told # "unasked" /\ ~phone.locked /\ phone'.locked))
  BY DEF PhoneChanges, commandVars
<1>2. phone' \in Phones
  <2>1. CASE \E a \in Activities : phone' = Showing(a)
    BY <2>1, ShowingIsPhone DEF SessionInv, SessionTypeOK
  <2>2. CASE \E field \in {"interactive", "locked", "shade"} : phone' = [phone EXCEPT ![field] = ~@]
    BY <2>2 DEF SessionInv, SessionTypeOK, Phones
  <2>3. QED
    BY <2>1, <2>2 DEF PhoneChanges
<1>3. SessionTypeOK'
  <2>1. changes' \in 0 .. MaxChanges
    BY <1>1, PhoneCommandsAssumption DEF SessionInv, SessionTypeOK
  <2>2. QED
    BY <1>1, <1>2, <2>1 DEF SessionInv, SessionTypeOK
<1>4. GateInv' /\ SampleInv' /\ (exit < 0 <=> pc # "done")'
  BY <1>1 DEF SessionInv, GateInv, SampleInv, LockedPhoneIsNotDriven, Transition, Wanted, Named
<1>5. ReportMatchesPhone'
  BY <1>1, NothingPrinted DEF SessionInv, SessionTypeOK
<1>6. QED
  BY <1>3, <1>4, <1>5 DEF SessionInv

\* Commands that fail print no verdict.
LEMMA FailureInv ==
  ASSUME SessionInv, NEW printed, Leave(2, printed), UNCHANGED <<phoneVars, historyVars>>
  PROVE  SessionInv'
<1>1. /\ pc' = "done" /\ exit' = 2
      /\ UNCHANGED <<request, ready, sample, moved, phone, changes, asked, quiet, told, relocked, drove>>
  BY DEF Leave, phoneVars, historyVars, lockVars
<1>2. SessionTypeOK'
  BY <1>1 DEF SessionInv, SessionTypeOK
<1>3. GateInv' /\ SampleInv' /\ (exit < 0 <=> pc # "done")'
  BY <1>1 DEF SessionInv, GateInv, SampleInv, LockedPhoneIsNotDriven, Transition
<1>4. ReportMatchesPhone'
  <2>1. exit' # 0
    BY <1>1
  <2>2. QED
    BY <2>1, Zenon DEF ReportMatchesPhone
<1>5. QED
  BY <1>2, <1>3, <1>4 DEF SessionInv

\* A reply that was read is what was asked; the other reply disturbs.
LEMMA AnswerIsTrue ==
  ASSUME NEW reply \in BOOLEAN, quiet \in BOOLEAN
  PROVE  \A value \in BOOLEAN : Answer(value, reply) =>
           quiet' \in BOOLEAN /\ (quiet' => quiet /\ reply = value) /\ (reply => value)
<1>1. SUFFICES ASSUME NEW value \in BOOLEAN, Answer(value, reply)
               PROVE  quiet' \in BOOLEAN /\ (quiet' => quiet /\ reply = value) /\ (reply => value)
  OBVIOUS
<1>2. QED
  BY <1>1 DEF Answer

LEMMA ReadPowerInv == SessionInv /\ ReadPower => SessionInv'
<1> SUFFICES ASSUME SessionInv, ReadPower PROVE SessionInv'
  OBVIOUS
<1>1. PICK reply \in BOOLEAN : /\ Answer(phone.interactive, reply)
                               /\ ready' = [ready EXCEPT !.interactive = reply]
  BY DEF ReadPower
<1>2. /\ pc = "power" /\ pc' = "trust"
      /\ UNCHANGED <<request, sample, moved, exit, report, phone, changes, asked,
                     told, relocked, drove>>
  BY DEF ReadPower, Goto, phoneVars, lockVars
<1>3. quiet' \in BOOLEAN /\ (quiet' => quiet)
  BY <1>1 DEF Answer, SessionInv, SessionTypeOK
<1>4. SessionTypeOK'
  BY <1>1, <1>2, <1>3 DEF SessionInv, SessionTypeOK
<1>5. GateInv' /\ SampleInv' /\ (exit < 0 <=> pc # "done")'
  BY <1>2, <1>3 DEF SessionInv, GateInv, SampleInv, LockedPhoneIsNotDriven, Transition
<1>6. ReportMatchesPhone'
  BY <1>2, NothingPrinted DEF SessionInv, SessionTypeOK
<1>7. QED
  BY <1>4, <1>5, <1>6 DEF SessionInv

LEMMA ReadTrustInv == SessionInv /\ ReadTrust => SessionInv'
<1> SUFFICES ASSUME SessionInv, ReadTrust PROVE SessionInv'
  OBVIOUS
<1>1. PICK readable \in BOOLEAN :
        /\ Answer(phone.locked, readable /\ phone.locked)
        /\ ready' = [ready EXCEPT !.locked = readable /\ phone.locked]
        /\ told' = IF ~readable THEN "nothing" ELSE IF phone.locked THEN "locked" ELSE "unlocked"
  BY DEF ReadTrust
<1>2. /\ pc = "trust" /\ pc' = "package"
      /\ UNCHANGED <<request, sample, moved, exit, report, phone, changes, asked,
                     relocked, drove>>
  BY DEF ReadTrust, Goto, phoneVars
<1>3. quiet' \in BOOLEAN /\ phone.locked \in BOOLEAN
  BY <1>1 DEF Answer, SessionInv, SessionTypeOK, Phones
<1>4. SessionTypeOK' /\ ready'.locked = (readable /\ phone.locked)
  BY <1>1, <1>2, <1>3 DEF SessionInv, SessionTypeOK
<1>5. GateInv' /\ SampleInv' /\ (exit < 0 <=> pc # "done")'
  BY <1>1, <1>2, <1>3, <1>4 DEF SessionInv, GateInv, SampleInv, LockedPhoneIsNotDriven, Transition
<1>6. ReportMatchesPhone'
  BY <1>2, NothingPrinted DEF SessionInv, SessionTypeOK
<1>7. QED
  BY <1>4, <1>5, <1>6 DEF SessionInv

\* The gate: no phone that was said to be locked gets through.
LEMMA InspectPackageInv == SessionInv /\ InspectPackage => SessionInv'
<1> SUFFICES ASSUME SessionInv, InspectPackage PROVE SessionInv'
  OBVIOUS
<1>1. CASE Leave(2, "not ready")
  BY <1>1, FailureInv DEF InspectPackage
<1>2. CASE /\ Transition => Gate
           /\ Goto(IF request = "history" THEN "log" ELSE "top")
           /\ UNCHANGED commandVars
  <2>1. /\ pc = "package" /\ pc' \in {"log", "top"} /\ (Transition => ~ready.locked)
        /\ pc' = "log" => request = "history"
        /\ UNCHANGED <<request, ready, sample, moved, exit, report, phone, changes,
                       asked, quiet, told, relocked, drove>>
    BY <1>2 DEF InspectPackage, Goto, Gate, commandVars, phoneVars, historyVars, lockVars
  <2>2. SessionTypeOK'
    BY <2>1 DEF SessionInv, SessionTypeOK
  <2>3. moved = FALSE
    BY <2>1 DEF SessionInv, GateInv, SessionTypeOK
  <2>4. GateInv' /\ SampleInv' /\ (exit < 0 <=> pc # "done")'
    BY <2>1, <2>3 DEF SessionInv, GateInv, SampleInv, LockedPhoneIsNotDriven, Transition, Wanted
  <2>5. ReportMatchesPhone'
    BY <2>1, NothingPrinted DEF SessionInv, SessionTypeOK
  <2>6. QED
    BY <2>2, <2>4, <2>5 DEF SessionInv
<1>3. QED
  BY <1>1, <1>2 DEF InspectPackage

LEMMA ReadTopInv == SessionInv /\ ReadTop => SessionInv'
<1> SUFFICES ASSUME SessionInv, ReadTop PROVE SessionInv'
  OBVIOUS
<1>1. PICK reply \in BOOLEAN :
        /\ Answer(Contains(TextOf[phone.resumed], TargetPackage), reply)
        /\ sample' = [sample EXCEPT !.matches = reply]
  BY DEF ReadTop
<1>2. /\ pc = "top" /\ pc' = "windows" /\ asked' = phone
      /\ UNCHANGED <<request, ready, moved, exit, report, phone, changes,
                     told, relocked, drove>>
  BY DEF ReadTop, Goto, phoneVars, lockVars
<1>3. /\ quiet' \in BOOLEAN /\ (quiet' => quiet /\ reply = Named') /\ (reply => Named')
  <2>1. Named' = Contains(TextOf[phone.resumed], TargetPackage)
    BY <1>2 DEF Named
  <2>2. quiet \in BOOLEAN /\ Contains(TextOf[phone.resumed], TargetPackage) \in BOOLEAN
    BY DEF SessionInv, SessionTypeOK, Contains
  <2>3. QED
    BY <1>1, <2>1, <2>2, AnswerIsTrue
<1>4. SessionTypeOK' /\ sample'.matches = reply
  BY <1>1, <1>2, <1>3 DEF SessionInv, SessionTypeOK
<1>5. GateInv' /\ (exit < 0 <=> pc # "done")'
  BY <1>2, <1>3 DEF SessionInv, GateInv, LockedPhoneIsNotDriven, Transition
<1>6. SampleInv'
  BY <1>2, <1>3, <1>4 DEF SessionInv, SampleInv, Wanted
<1>7. ReportMatchesPhone'
  BY <1>2, NothingPrinted DEF SessionInv, SessionTypeOK
<1>8. QED
  BY <1>4, <1>5, <1>6, <1>7 DEF SessionInv

LEMMA ReadWindowsInv == SessionInv /\ ReadWindows => SessionInv'
<1> SUFFICES ASSUME SessionInv, ReadWindows PROVE SessionInv'
  OBVIOUS
<1>1. PICK reply \in BOOLEAN : /\ Answer(phone.shade, reply)
                               /\ sample' = [sample EXCEPT !.shade = reply]
  BY DEF ReadWindows
<1>2. /\ pc = "windows" /\ pc' = "decide"
      /\ UNCHANGED <<request, ready, moved, exit, report, phone, changes, asked,
                     told, relocked, drove>>
  BY DEF ReadWindows, Goto, phoneVars, lockVars
<1>3. quiet' \in BOOLEAN /\ (quiet' => quiet)
  BY <1>1 DEF Answer, SessionInv, SessionTypeOK
<1>4. SessionTypeOK' /\ sample'.matches = sample.matches
  BY <1>1, <1>2, <1>3 DEF SessionInv, SessionTypeOK
<1>5. GateInv' /\ SampleInv' /\ (exit < 0 <=> pc # "done")'
  BY <1>2, <1>3, <1>4 DEF SessionInv, GateInv, SampleInv, LockedPhoneIsNotDriven, Transition,
                          Wanted, Named
<1>6. ReportMatchesPhone'
  BY <1>2, NothingPrinted DEF SessionInv, SessionTypeOK
<1>7. QED
  BY <1>4, <1>5, <1>6 DEF SessionInv

\* An activity of the target has its name on top, one the HOME intent starts has not.
LEMMA WantedIsNamed ==
  ASSUME asked.resumed \in Wanted, Transition
  PROVE  Named <=> request = "foreground"
BY PhoneCommandsAssumption DEF Wanted, Named, Transition, Contains

\* A verdict is printed: the sample is of the phone after an intent, if there was one.
LEMMA VerdictInv ==
  ASSUME SessionInv, pc = "decide", UNCHANGED <<phoneVars, historyVars>>,
         \/ request = "observe" /\ Leave(0, Match)
         \/ Transition /\ moved /\ Leave(0, Indication)
  PROVE  SessionInv'
<1>1. /\ pc' = "done" /\ exit' = 0
      /\ UNCHANGED <<request, ready, sample, moved, phone, changes, asked, quiet, told, relocked, drove>>
  BY DEF Leave, phoneVars, historyVars, lockVars
<1>2. SessionTypeOK'
  BY <1>1 DEF SessionInv, SessionTypeOK
<1>3. GateInv' /\ SampleInv' /\ (exit < 0 <=> pc # "done")'
  BY <1>1 DEF SessionInv, GateInv, SampleInv, LockedPhoneIsNotDriven, Transition
<1>4. /\ sample.matches => Named
      /\ quiet => sample.matches = Named
      /\ moved /\ quiet => asked.resumed \in Wanted
      /\ sample.matches \in BOOLEAN
  BY DEF SessionInv, SampleInv, SessionTypeOK
<1>5. Named' = Named /\ (LastOfTarget(asked.log))' = LastOfTarget(asked.log)
  BY <1>1 DEF Named, LastOfTarget
<1>6. CASE request = "observe" /\ report' = Match
  <2>1. report' = "match" => Named'
    BY <1>4, <1>5, <1>6 DEF Match
  <2>2. request' = "observe" /\ ~Transition'
    BY <1>1, <1>6 DEF Transition
  <2>3. QED
    BY <1>1, <1>2, <1>3, <2>1, <2>2 DEF SessionInv, ReportMatchesPhone, Named
<1>7. CASE Transition /\ moved /\ report' = Indication
  <2>1. request \in {"foreground", "background"} /\ request' = request
    BY <1>1, <1>7 DEF Transition
  <2>2. request = "foreground" /\ report' = "consistent" => Named'
    BY <1>4, <1>5, <1>7 DEF Indication
  <2>3. request = "background" /\ report' = "consistent" /\ quiet => ~Named'
    BY <1>4, <1>5, <1>7 DEF Indication
  <2>4. report' = "not confirmed" => ~quiet
    BY <1>4, <1>7, <2>1, WantedIsNamed DEF Indication
  <2>5. ReportMatchesPhone'
    BY <1>1, <2>1, <2>2, <2>3, <2>4 DEF ReportMatchesPhone, Named
  <2>6. QED
    BY <1>1, <1>2, <1>3, <2>5 DEF SessionInv
<1>8. QED
  BY <1>6, <1>7 DEF Leave

LEMMA DecideInv == SessionInv /\ Decide => SessionInv'
<1> SUFFICES ASSUME SessionInv, Decide PROVE SessionInv'
  OBVIOUS
<1>1. pc = "decide" /\ UNCHANGED <<phoneVars, historyVars>>
  BY DEF Decide
<1>2. CASE \/ request = "observe" /\ Leave(0, Match)
           \/ Transition /\ moved /\ Leave(0, Indication)
  BY <1>1, <1>2, VerdictInv
<1>3. CASE Leave(2, "shade")
  BY <1>1, <1>3, FailureInv
<1>4. CASE Transition /\ Goto("collapse") /\ UNCHANGED commandVars
  <2>1. /\ pc' = "collapse"
        /\ UNCHANGED <<request, ready, sample, moved, exit, report, phone, changes,
                       asked, quiet, told, relocked, drove>>
    BY <1>1, <1>4 DEF Goto, commandVars, phoneVars, historyVars, lockVars
  <2>2. SessionTypeOK' /\ GateInv' /\ SampleInv' /\ (exit < 0 <=> pc # "done")'
    BY <1>1, <1>4, <2>1 DEF SessionInv, SessionTypeOK, GateInv, SampleInv,
                            LockedPhoneIsNotDriven, Transition
  <2>3. ReportMatchesPhone'
    BY <1>1, <2>1, NothingPrinted DEF SessionInv, SessionTypeOK
  <2>4. QED
    BY <2>2, <2>3 DEF SessionInv
<1>5. QED
  BY <1>2, <1>3, <1>4 DEF Decide

\* An intent meets a locked phone only if that was not said, or has changed since.
LEMMA DriveIsGuarded ==
  ASSUME SessionInv, pc \in {"collapse", "move"}, Drive, UNCHANGED request
  PROVE  /\ drove' \subseteq {"collapse", "move"}
         /\ drove' # {} => Transition' /\ (relocked \/ told = "nothing")
         /\ Transition /\ told \in {"unlocked", "nothing"}
BY DEF SessionInv, SessionTypeOK, GateInv, Drive, LockedPhoneIsNotDriven, Transition

LEMMA CollapseInv == SessionInv /\ Collapse => SessionInv'
<1> SUFFICES ASSUME SessionInv, Collapse PROVE SessionInv'
  OBVIOUS
<1>1. /\ pc = "collapse" /\ pc' = "move" /\ phone' = [phone EXCEPT !.shade = FALSE]
      /\ UNCHANGED <<request, ready, sample, moved, exit, report, changes, asked, quiet, told, relocked>>
  BY DEF Collapse, Goto, commandVars
<1>2. /\ drove' \subseteq {"collapse", "move"}
      /\ drove' # {} => Transition' /\ (relocked \/ told = "nothing")
      /\ Transition /\ told \in {"unlocked", "nothing"}
  BY <1>1, DriveIsGuarded DEF Collapse
<1>3. phone' \in Phones /\ phone'.locked = phone.locked
  BY <1>1 DEF SessionInv, SessionTypeOK, Phones
<1>4. SessionTypeOK'
  BY <1>1, <1>2, <1>3 DEF SessionInv, SessionTypeOK
<1>5. GateInv' /\ SampleInv' /\ (exit < 0 <=> pc # "done")'
  BY <1>1, <1>2, <1>3 DEF SessionInv, GateInv, SampleInv, LockedPhoneIsNotDriven, Transition
<1>6. ReportMatchesPhone'
  BY <1>1, NothingPrinted DEF SessionInv, SessionTypeOK
<1>7. QED
  BY <1>4, <1>5, <1>6 DEF SessionInv

LEMMA MoveInv == SessionInv /\ Move => SessionInv'
<1> SUFFICES ASSUME SessionInv, Move PROVE SessionInv'
  OBVIOUS
<1>1. PICK a \in Wanted \cup {phone.resumed} :
        phone' = Showing(a) /\ quiet' = (quiet /\ a \in Wanted)
  BY DEF Move, Wanted
<1>2. /\ pc = "move" /\ pc' = "top" /\ moved' = TRUE
      /\ UNCHANGED <<request, ready, sample, exit, report, changes, asked, told, relocked>>
  BY DEF Move, Goto
<1>3. /\ drove' \subseteq {"collapse", "move"}
      /\ drove' # {} => Transition' /\ (relocked \/ told = "nothing")
      /\ Transition /\ told \in {"unlocked", "nothing"}
  BY <1>2, DriveIsGuarded DEF Move
<1>4. a \in Activities /\ phone \in Phones /\ quiet \in BOOLEAN
  BY PhoneCommandsAssumption DEF SessionInv, SessionTypeOK, Phones, Wanted
<1>5. phone' \in Phones /\ phone'.resumed = a /\ phone'.locked = phone.locked
  BY <1>1, <1>4, ShowingIsPhone
<1>6. quiet' \in BOOLEAN /\ (quiet' => quiet /\ a \in Wanted)
  BY <1>1, <1>4
<1>7. SessionTypeOK'
  BY <1>2, <1>3, <1>5, <1>6 DEF SessionInv, SessionTypeOK
<1>8. GateInv' /\ (exit < 0 <=> pc # "done")'
  BY <1>2, <1>3, <1>5, <1>6 DEF SessionInv, GateInv, LockedPhoneIsNotDriven, Transition
<1>9. SampleInv'
  BY <1>2, <1>5, <1>6 DEF SampleInv, Wanted
<1>10. ReportMatchesPhone'
  BY <1>2, NothingPrinted DEF SessionInv, SessionTypeOK
<1>11. QED
  BY <1>7, <1>8, <1>9, <1>10 DEF SessionInv

\* The last events of a list end with the same event and are none only if it has none.
LEMMA RecentEnds ==
  ASSUME NEW events \in Seq(Entries)
  PROVE  /\ Recent(events) = <<>> => events = <<>>
         /\ Recent(events) # <<>> =>
              events # <<>> /\ Recent(events)[Len(Recent(events))] = events[Len(events)]
<1> DEFINE first == IF Len(events) > Limit THEN Len(events) - Limit + 1 ELSE 1
<1>1. Len(events) \in Nat /\ Limit \in Nat /\ Limit > 0
  BY PhoneCommandsAssumption
<1>2. first \in Nat /\ first >= 1 /\ (events # <<>> => first <= Len(events))
  <2>1. events # <<>> => Len(events) > 0
    OBVIOUS
  <2>2. QED
    BY <1>1, <2>1
<1>3. Recent(events) = SubSeq(events, first, Len(events))
  BY DEF Recent
<1> HIDE DEF first
<1>4. CASE events = <<>>
  <2>1. SubSeq(events, first, Len(events)) = <<>>
    BY <1>2, <1>4
  <2>2. QED
    BY <1>3, <1>4, <2>1
<1>5. CASE events # <<>>
  <2>1. first \in 1 .. Len(events) /\ Len(events) > 0
    BY <1>1, <1>2, <1>5
  <2>2. /\ SubSeq(events, first, Len(events)) \in Seq(Entries)
        /\ Len(SubSeq(events, first, Len(events))) = Len(events) - first + 1
        /\ SubSeq(events, first, Len(events))[Len(events) - first + 1] = events[Len(events)]
    BY <1>1, <2>1
  <2>3. SubSeq(events, first, Len(events)) # <<>>
    <3>1. Len(SubSeq(events, first, Len(events))) > 0
      BY <1>1, <2>1, <2>2
    <3>2. Len(<<>>) = 0
      OBVIOUS
    <3>3. ASSUME NEW recent, Len(recent) > 0 PROVE recent # <<>>
      BY <3>2, <3>3
    <3>4. QED
      BY <3>1, <3>3
  <2>4. QED
    BY <1>3, <1>5, <2>2, <2>3
<1>6. QED
  BY <1>4, <1>5

\* A line that loses its type is still a line.
LEMMA GarbledIsLog ==
  ASSUME NEW log \in Seq(Entries), NEW lost \in SUBSET DOMAIN log
  PROVE  Garbled(log, lost) \in Seq(Entries)
<1>1. Len(log) \in Nat /\ DOMAIN log = 1 .. Len(log) /\ \A n \in 1 .. Len(log) : log[n] \in Entries
  OBVIOUS
<1>2. \A n \in 1 .. Len(log) : [log[n] EXCEPT !.type = "OTHER"] \in Entries
  BY <1>1 DEF Entries
<1>3. Garbled(log, lost) \in [1 .. Len(log) -> Entries]
  BY <1>1, <1>2 DEF Garbled
<1>4. QED
  BY <1>1, <1>3

\* The list ends with the target's last event among the lines that could be read.
LEMMA ReadLogInv == SessionInv /\ ReadLog => SessionInv'
<1> SUFFICES ASSUME SessionInv, ReadLog PROVE SessionInv'
  OBVIOUS
<1>1. PICK lost \in SUBSET {n \in DOMAIN phone.log : OfTarget(phone.log[n])} :
        /\ Leave(0, Recent(ActivityEvents(Garbled(phone.log, lost))))
        /\ asked' = [phone EXCEPT !.log = Garbled(phone.log, lost)]
        /\ quiet' = (quiet /\ lost = {})
  BY DEF ReadLog
<1> DEFINE log == Garbled(phone.log, lost)
<1>2. phone.log \in Seq(Entries) /\ phone \in Phones /\ lost \in SUBSET DOMAIN phone.log
  BY DEF SessionInv, SessionTypeOK, Phones, Entries
<1>3. log \in Seq(Entries)
  BY <1>2, GarbledIsLog
<1> HIDE DEF log
<1>4. /\ pc = "log" /\ pc' = "done" /\ exit' = 0 /\ report' = Recent(ActivityEvents(log))
      /\ UNCHANGED <<request, ready, sample, moved, phone, changes, told, relocked, drove>>
  BY <1>1 DEF log, ReadLog, Leave, phoneVars, lockVars
<1>5. asked' \in Phones /\ asked'.log = log
  BY <1>1, <1>2, <1>3 DEF log, Phones, Entries
<1>6. quiet' \in BOOLEAN
  BY <1>1
<1>7. SessionTypeOK'
  BY <1>4, <1>5, <1>6 DEF SessionInv, SessionTypeOK
<1>8. GateInv' /\ SampleInv' /\ (exit < 0 <=> pc # "done")'
  BY <1>4 DEF SessionInv, GateInv, SampleInv, LockedPhoneIsNotDriven, Transition
<1>9. request = "history"
  BY <1>4 DEF SessionInv, GateInv
<1>10. /\ report' # <<>> => LastOfTarget(log) > 0
                            /\ report'[Len(report')] = log[LastOfTarget(log)]
       /\ report' = <<>> => LastOfTarget(log) = 0
  <2>1. ActivityEvents(log) \in Seq(Entries)
    BY <1>3, LastEvent
  <2>2. /\ Recent(ActivityEvents(log)) = <<>> => ActivityEvents(log) = <<>>
        /\ Recent(ActivityEvents(log)) # <<>> =>
             /\ ActivityEvents(log) # <<>>
             /\ Recent(ActivityEvents(log))[Len(Recent(ActivityEvents(log)))] =
                ActivityEvents(log)[Len(ActivityEvents(log))]
    BY <2>1, RecentEnds
  <2>3. /\ ActivityEvents(log) = <<>> => LastOfTarget(log) = 0
        /\ ActivityEvents(log) # <<>> =>
             /\ LastOfTarget(log) > 0
             /\ ActivityEvents(log)[Len(ActivityEvents(log))] = log[LastOfTarget(log)]
    BY <1>3, LastEvent
  <2>4. QED
    BY <1>4, <2>2, <2>3
<1>11. (LastOfTarget(asked.log))' = LastOfTarget(log)
  BY <1>5 DEF LastOfTarget
<1>12. ReportMatchesPhone'
  BY <1>4, <1>5, <1>9, <1>10, <1>11 DEF ReportMatchesPhone, Transition
<1>13. QED
  BY <1>7, <1>8, <1>12 DEF SessionInv

LEMMA SessionStepInv == SessionInv /\ [SessionNext]_sessionVars => SessionInv'
<1> SUFFICES ASSUME SessionInv, [SessionNext]_sessionVars PROVE SessionInv'
  OBVIOUS
<1>1. CASE CommandStep
  BY <1>1, ReadPowerInv, ReadTrustInv, InspectPackageInv, ReadTopInv, ReadWindowsInv,
     DecideInv, CollapseInv, MoveInv, ReadLogInv DEF CommandStep
<1>2. CASE CommandFails
  BY <1>2, FailureInv DEF CommandFails
<1>3. CASE PhoneChanges
  BY <1>3, PhoneChangesInv
<1>4. CASE Done \/ UNCHANGED sessionVars
  <2>1. UNCHANGED <<pc, request, ready, sample, moved, exit, report, phone, changes,
                    asked, quiet, told, relocked, drove>>
    BY <1>4 DEF Done, sessionVars, commandVars, phoneVars, historyVars, lockVars
  <2>2. SessionTypeOK' /\ GateInv' /\ SampleInv' /\ (exit < 0 <=> pc # "done")'
    BY <2>1 DEF SessionInv, SessionTypeOK, GateInv, SampleInv, LockedPhoneIsNotDriven,
                Transition, Wanted, Named
  <2>3. (LastOfTarget(asked.log))' = LastOfTarget(asked.log)
    BY <2>1 DEF LastOfTarget
  <2>4. ReportMatchesPhone'
    BY <2>1, <2>3 DEF SessionInv, ReportMatchesPhone, Transition
  <2>5. QED
    BY <2>2, <2>4 DEF SessionInv
<1>5. QED
  BY <1>1, <1>2, <1>3, <1>4 DEF SessionNext

LEMMA SessionInvariance == SessionSpec => []SessionInv
BY SessionInitInv, SessionStepInv, PTL DEF SessionSpec

\* The commands' locals, the phone and the history variables keep their types.
THEOREM SessionTypeCorrect == SessionSpec => []SessionTypeOK
<1>1. SessionInv => SessionTypeOK
  BY DEF SessionInv
<1>2. QED
  BY <1>1, SessionInvariance, PTL

\* An intent reaches a locked phone only if the phone locked after the trust service was
\* asked, or if that service's report lacked the field; whatever else is disturbed, the
\* gate holds; and no command but a transition sends an intent.
THEOREM LockedNotDriven == SessionSpec => []LockedPhoneIsNotDriven
<1>1. SessionInv => LockedPhoneIsNotDriven
  BY DEF SessionInv, GateInv
<1>2. QED
  BY <1>1, SessionInvariance, PTL

\* The verdict, the match or the history that is printed was true of the phone at the
\* instant it was asked, and a transition that is not confirmed was interfered with.
THEOREM ReportTrue == SessionSpec => []ReportMatchesPhone
<1>1. SessionInv => ReportMatchesPhone
  BY DEF SessionInv
<1>2. QED
  BY <1>1, SessionInvariance, PTL
=============================================================================
