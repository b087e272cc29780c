----------------------------- MODULE MCAlgorithms -----------------------------
(* The inputs of Algorithms for TLC. *)
EXTENDS Algorithms

\* Relative paths of two nodes, and absolute ones of two to four.
MCPaths == {<< x, "a" >> : x \in {"a", "b"}}
           \cup {<< root >> \o rest : root \in Roots,
                    rest \in UNION {[1 .. n -> {"a", "b"}] : n \in 1 .. 3}}

\* On either side of every bound of with_vhd_capacity.
MCDiskSizes ==
    { sectors \in
        { bound + d : d \in -2 .. 2,
            bound \in {0, 68, 17 * 1024, 4 * 17 * 1024, 5 * 17 * 1024, 16 * 17 * 1024,
                       31 * 16 * 1024, 63 * 16 * 1024, 63 * 16 * 65535, 8388608, 16777216,
                       255 * 16 * 65535, 1000000000} }
        : sectors >= 0 }

\* All bytes zero, all the greatest, and three of bytes that differ from field to field and
\* in the order of a field's two.
MCFillings == {[i \in 1 .. MostFields |-> << byte, byte >>] : byte \in {0, Radix - 1}}
              \cup {[i \in 1 .. MostFields |-> << (p * i) % Radix, (p + i) % Radix >>] :
                        p \in {1, 3, 5}}
=============================================================================
