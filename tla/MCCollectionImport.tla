------------------------- MODULE MCCollectionImport -------------------------
EXTENDS CollectionImport
CONSTANTS a, b, c

\* Two convergent processes with different revisions share root 1; the third
\* preallocates root 2 and carries the first one's revision.
ThreeImporters == {a, b, c}
TwoConvergent == {a, b}
Roots == 1..2
Preallocation == [r \in ThreeImporters |-> IF r = c THEN 2 ELSE 1]
Payloads == [r \in ThreeImporters |-> IF r = b THEN "Later" ELSE "Newer"]
=============================================================================
