--------------------------- MODULE MCArtifactFile ---------------------------
EXTENDS ArtifactFile

CONSTANTS r1, r2, r3

Kinds(a, b, c) == [r \in {r1, r2, r3} |-> CASE r = r1 -> a [] r = r2 -> b [] r = r3 -> c]

DryRuns  == Kinds("dry_run", "dry_run", "dry_run")
AllKinds == Kinds("dry_run", "export", "plan")
=============================================================================
