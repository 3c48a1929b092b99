----------------------------- MODULE EchoServer -----------------------------
(***************************************************************************)
(* How server.elf starts (src/generic-server.d): main() opens the          *)
(* listening socket and calls server_workings(), which accepts, and each   *)
(* of the two splits the same argument with strtok().  A string is counted *)
(* in the fields a colon separates; strtok() ends the string it is given   *)
(* behind its first field.                                                 *)
(***************************************************************************)
EXTENDS Integers

CONSTANTS
  Arguments,    \* the numbers of fields the argument may have
  Faults        \* TRUE if a call to the system may fail

VARIABLES
  pc,           \* what the program does next
  argument      \* fields up to the end of the string argv[1]

vars == <<pc, argument>>

Init == pc = "server_init" /\ argument \in Arguments

Exits == pc' = "exited" /\ UNCHANGED argument

\* ip=strtok(argument, ":"), port=strtol(strtok(NULL, ":")): with fewer than
\* two fields strtol() or inet_addr() reads through a NULL.
Parse(next) ==
  IF argument < 2
    THEN Exits
    ELSE argument' = 1 /\ pc' = next

\* socket(), bind() and listen() come after the parsing.
ServerInit ==
  /\ pc = "server_init"
  /\ Parse("server_workings") \/ (Faults /\ Exits)

ServerWorkings == pc = "server_workings" /\ Parse("accept")

Next == ServerInit \/ ServerWorkings

Spec == Init /\ [][Next]_vars
FairSpec == Spec /\ WF_vars(Next)

-----------------------------------------------------------------------------
\* The program never accepts a connection: the first parsing leaves a string
\* of one field to the second (server_init.c:13, server_workings.c:22-23).
NeverAccepts == pc # "accept"

\* Said by the usage text (main.c:11): given an address, the server serves at
\* it.
Accepts == pc = "server_init" ~> pc = "accept"
=============================================================================
