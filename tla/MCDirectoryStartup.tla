-------------------------- MODULE MCDirectoryStartup --------------------------
(* Instances of the start of dbinterface.elf for TLC. *)
EXTENDS DirectoryStartup

\* None, a usual one, and those around the size of the buffer.
AllLengths == {0, 8, Size - 2, Size - 1, Size}
===============================================================================
