-------------------------- MODULE MCWindowsUpdate --------------------------
(* Symmetry for the run of WindowsUpdate.                                    *)
EXTENDS WindowsUpdate, TLC

\* Configurations and servers are model values, and Init treats them alike.
Symmetry == Permutations(Configs) \cup Permutations(Processes)
=============================================================================
