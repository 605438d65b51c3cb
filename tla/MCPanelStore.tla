---------------------------- MODULE MCPanelStore ----------------------------
(* Constants of PanelStore for TLC.                                        *)
EXTENDS PanelStore, TLC

\* Two numbers of each kind, and enough system snapshots for two prunings,
\* one of which falls out.
MCLimit == [k \in Kinds |-> IF k = "system" THEN 5 ELSE IF k = "audit" THEN 1 ELSE 2]

\* Goroutines, contents and services are interchangeable; no run of this
\* module checks liveness.
Symmetry == Permutations(Workers) \cup Permutations(Items) \cup Permutations(Services)
=============================================================================
