---------------------------- MODULE MCCommandLine ----------------------------
(* Every command with every list of up to four words that matter to it (up   *)
(* to five or six where options need them), and up to four lines typed into  *)
(* the menu, six after selection 2.                                          *)
EXTENDS CommandLine, SequencesExt

Lines == {"0", "1", "3", "4", "6", "", "file", "--help", "--device-ip"}

MCInputs == BoundedSeq(Lines, 4) \cup {<<"5">> \o s : s \in BoundedSeq(Lines, 3)}
            \cup {<<"2", "", "6">> \o s : s \in BoundedSeq(Lines, 3)} \cup {<<"7">>, <<"q">>}

With(command, words, n) == {<<command>> \o s : s \in BoundedSeq(words, n)}

MCCommandLines ==
  {<<>>} \cup With("inspect", {"file", "--help", "--format", "json", "--device-ip"}, 5)
  \cup With("features", {"file", "--help", "--window-seconds", "5", "--device-ip"}, 4)
  \cup {<<"features", "file", "file", "--window-seconds", "5", "--device-ip", "--window-seconds">>}
  \cup With("analysis", {"conditions", "file", "--device-ip"}, 6)
  \cup With("session", {"--help", "plan", "dry-run", "transition", "observe", "history",
                        "foreground", "--hands-off-confirmed"}, 4)
  \cup UNION {With(c, {"--help", "status", "synthetic", "file"}, 4) :
                c \in {"device", "experiment", "validate-manifest", "help", "info", "mistyped"}}
=============================================================================
