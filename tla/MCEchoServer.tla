---------------------------- MODULE MCEchoServer ----------------------------
(* An instance of the echo server's start for TLC. *)
EXTENDS EchoServer

\* ip:port
Address == {2}
=============================================================================
