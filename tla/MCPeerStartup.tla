---------------------------- MODULE MCPeerStartup ----------------------------
(* Instances of the start of peer.elf for TLC. *)
EXTENDS PeerStartup

\* Every way to close some of stdin, stdout and stderr, and to inherit a
\* descriptor more.
AllInherited == SUBSET (0 .. 3)

\* The usual start, from a terminal.
Terminal == {0 .. 2}
=============================================================================
