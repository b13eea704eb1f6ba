------------------------- MODULE MCExperimentStore -------------------------
EXTENDS ExperimentStore, TLC

CONSTANTS p1, p2, p3, r1, r2

\* two runs under one --name, and a third under another
MCNameOf == (p1 :> "queues") @@ (p2 :> "queues") @@ (p3 :> "bfs")
=============================================================================
