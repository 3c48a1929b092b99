----------------------------- MODULE MCDirectory -----------------------------
(* Instances of the directory for TLC. *)
EXTENDS DirectoryProperties

CONSTANTS c1, c2, c3, r1, r2, r3

\* Ids are drawn at random ...
IdSymmetry == Permutations({r1, r2, r3})

\* ... and in the runs that use this every connection is opened by peer.elf.
PeerSymmetry == IdSymmetry \cup Permutations({c1, c2, c3})
=============================================================================
