--------------------------- MODULE MCLinuxInstall ---------------------------
(* Reductions for the runs of LinuxInstall.                                  *)
EXTENDS LinuxInstall, TLC

\* Releases and configurations are model values, and Init treats them alike.
Symmetry == Permutations(Versions) \cup Permutations(Configs)
=============================================================================
