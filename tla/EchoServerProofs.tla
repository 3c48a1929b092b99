-------------------------- MODULE EchoServerProofs --------------------------
(* That server.elf ends before its first accept(). *)
EXTENDS EchoServer, TLAPS

\* What the first parsing leaves for the second.
OneField ==
  /\ NeverAccepts
  /\ pc = "server_workings" => argument = 1

\* Whatever its argument, the program never gets to accept().
THEOREM EchoNeverAccepts == Spec => []NeverAccepts
<1>1. Init => OneField
  BY DEF Init, OneField, NeverAccepts
<1>2. OneField /\ [Next]_vars => OneField'
  <2> SUFFICES ASSUME OneField, [Next]_vars PROVE OneField'
    OBVIOUS
  <2>1. CASE ServerInit
    BY <2>1 DEF ServerInit, Parse, Exits, OneField, NeverAccepts
  <2>2. CASE ServerWorkings
    <3>1. Exits
      BY <2>2 DEF ServerWorkings, Parse, OneField
    <3> QED BY <3>1 DEF Exits, OneField, NeverAccepts
  <2>3. CASE UNCHANGED vars
    BY <2>3 DEF vars, OneField, NeverAccepts
  <2> QED BY <2>1, <2>2, <2>3 DEF Next
<1>3. OneField => NeverAccepts
  BY DEF OneField
<1> QED BY <1>1, <1>2, <1>3, PTL DEF Spec
=============================================================================
