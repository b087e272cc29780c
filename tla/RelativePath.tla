----------------------------- MODULE RelativePath -----------------------------
(***************************************************************************)
(* relative_path_to: how a differencing disk refers to its parent.  A path *)
(* is the sequence of what its separators separate; the path / a / b has   *)
(* three nodes, the first of which is empty, or a drive.                   *)
(***************************************************************************)
EXTENDS VhdMath, Sequences, FiniteSets

CONSTANT Roots      \* the first nodes of absolute paths

IsAbsolute(path) == Len(path) > 1 /\ path[1] \in Roots

\* The nodes that are equal, at the same place, in both paths.  They are counted
\* wherever they are, also behind a place where the paths have parted.
Matches(file, parent) ==
    {i \in 1 .. MinOf(Len(file), Len(parent)) : file[i] = parent[i]}
CommonNodes(file, parent) == Cardinality(Matches(file, parent))

\* How often the path goes up.  A difference below zero panics in a debug build; in a
\* release build it wraps, and the loop that makes the path never ends.  Mutant:
\* the name of the file is taken for a directory.
UpFromFile(file, parent) == Len(file) - CommonNodes(file, parent)
UpNodes(file, parent)    == Len(file) - CommonNodes(file, parent) - 1

Refused(why)    == [error |-> why, up |-> 0, rest |-> << >>]
Path(up, rest)  == [error |-> "none", up |-> up, rest |-> rest]

RelativePathTo(file, parent) ==
    IF ~IsAbsolute(file) \/ ~IsAbsolute(parent) THEN Refused("FilePathNeedAbsolute")
    ELSE IF CommonNodes(file, parent) = 0 THEN Refused("CannotGetRelativePath")
    ELSE IF UpNodes(file, parent) < 0 THEN Refused("overflow")
    ELSE Path(UpNodes(file, parent),
              SubSeq(parent, CommonNodes(file, parent) + 1, Len(parent)))

-----------------------------------------------------------------------------
(* What a relative path means *)

\* From the directory of the file, so many nodes up, and down the rest.
Resolve(file, path) == SubSeq(file, 1, Len(file) - 1 - path.up) \o path.rest

\* The paths have the same first nodes, and no other.
PartForGood(file, parent) == Matches(file, parent) = 1 .. CommonNodes(file, parent)
=============================================================================
