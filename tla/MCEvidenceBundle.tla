-------------------------- MODULE MCEvidenceBundle --------------------------
EXTENDS EvidenceBundle

CONSTANTS r1, r2, r3, dataset, metrics

TwoFiles == <<dataset, metrics>>

BothKinds == [r \in {r1, r2, r3} |-> IF r = r2 THEN "in_place" ELSE "staged"]

\* Two staged runs may overlap; an analysis has the directory for itself.
StagedTogether == {{r1}, {r2}, {r3}, {r1, r3}}
=============================================================================
