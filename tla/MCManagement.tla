----------------------------- MODULE MCManagement -----------------------------
(***************************************************************************)
(* Constants of the model-checked instances of ManagementGate.             *)
(***************************************************************************)
EXTENDS ManagementGate, TLC

CONSTANTS f1, f2, d1, a1, a2

\* The requests are interchangeable.
MCSymmetry == Permutations(Admins)

\* Both paths are in one directory: a journal file is then shared by them.
MCDir == [f \in Files |-> d1]
=============================================================================
