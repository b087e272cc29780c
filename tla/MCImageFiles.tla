----------------------------- MODULE MCImageFiles -----------------------------
(* Image files for TLC: neither a path nor a process is special. *)
EXTENDS ImageFilesProps

Symmetry == Permutations(Paths) \cup Permutations(Handles)
=============================================================================
