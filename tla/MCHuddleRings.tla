---------------------------- MODULE MCHuddleRings ----------------------------
(* Small instances of HuddleRings for TLC. *)
EXTENDS HuddleRings, TLC

CONSTANTS s1, s2, s3

\* Every server weighs 1.0: the top level is at or above heat_threshold.
MCHeatLimit == [s \in Server |-> MaxTemp]

Symmetry == Permutations(Server)
=============================================================================
