-------------------------- MODULE PeerStartupProofs --------------------------
(* That peer.elf never gets as far as serving anybody. *)
EXTENDS PeerStartup, TLAPS

\* Where main() goes on after dbconnect(), descriptor 0 is the directory's;
\* before that there is no socket.
KeepsZero ==
  /\ pc = "server_psock" => 0 \in open
  /\ pc \in {"gen_keys", "dbconnect", "exited"} => sockets = {}

IInv == TypeOK /\ NeverServes /\ KeepsZero

LEMMA StartupInit == Init => IInv
  BY StartupAssumption DEF Init, IInv, TypeOK, NeverServes, KeepsZero

LEMMA ExitsKeeps == IInv /\ Exits => IInv'
  BY DEF Exits, IInv, TypeOK, NeverServes, KeepsZero

LEMMA StartupNext == IInv /\ [Next]_vars => IInv'
<1> SUFFICES ASSUME IInv, [Next]_vars PROVE IInv'
  OBVIOUS
<1>1. CASE GenKeys
  BY <1>1, ExitsKeeps DEF GenKeys, IInv, TypeOK, NeverServes, KeepsZero
<1>2. CASE Dbconnect
  <2>1. CASE Exits
    BY <2>1, ExitsKeeps
  <2>2. CASE ~Exits
    <3>1. PICK s \in 0 .. MaxFd :
            s = 0 /\ Opens(s, "directory", "server_psock")
      BY <1>2, <2>2 DEF Dbconnect, Passes
    <3> QED BY <3>1 DEF Opens, IInv, TypeOK, NeverServes, KeepsZero, Uses
  <2> QED BY <2>1, <2>2
<1>3. CASE ServerInit("server_psock", "server_csock")
  \* A new descriptor is not 0, which is in use: the value is an error.
  <2>1. \A s \in 0 .. MaxFd : IsNext(s) => s # 0
    BY <1>3 DEF ServerInit, IsNext, IInv, KeepsZero
  <2>2. Exits
    BY <1>3, <2>1 DEF ServerInit, Passes
  <2> QED BY <2>2, ExitsKeeps
<1>4. CASE Again
  BY <1>4, StartupAssumption DEF Again, IInv, TypeOK, NeverServes, KeepsZero
<1>5. CASE UNCHANGED vars
  BY <1>5 DEF vars, IInv, TypeOK, NeverServes, KeepsZero
<1> QED BY <1>1, <1>2, <1>3, <1>4, <1>5 DEF Next

\* Every variable keeps its type, and no socket outlives its descriptor.
THEOREM StartupTypes == Spec => []TypeOK
<1>1. IInv => TypeOK
  BY DEF IInv
<1> QED BY <1>1, StartupInit, StartupNext, PTL DEF Spec

\* Whatever descriptors a process inherits and whatever fails, the program
\* never starts its servers: the socket of its connection to the directory,
\* which main() lets pass as descriptor 0 only, takes the one descriptor that
\* server_workings() would let pass.
THEOREM PeerNeverServes == Spec => []NeverServes
<1>1. IInv => NeverServes
  BY DEF IInv
<1> QED BY <1>1, StartupInit, StartupNext, PTL DEF Spec
=============================================================================
