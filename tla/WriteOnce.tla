------------------------------ MODULE WriteOnce ------------------------------
(***************************************************************************)
(* What "commands that write an artifact refuse an existing file" promises *)
(* to whoever reads the artifact: it appears at most once, whole, and then *)
(* never changes.                                                          *)
(***************************************************************************)
CONSTANTS Writers, Nothing

VARIABLE artifact  \* the writer whose complete artifact is published, or Nothing

Init == artifact = Nothing

Publish(w) ==
  /\ artifact = Nothing
  /\ artifact' = w

Next == \E w \in Writers : Publish(w)

Spec == Init /\ [][Next]_artifact
=============================================================================
