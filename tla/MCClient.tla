------------------------------ MODULE MCClient ------------------------------
(* Instances of the client for TLC. *)
EXTENDS Client

\* Rows with a key of its proper length, with a short one and with none.
AllLengths == {8, 12, 18, 460}
=============================================================================
