----------------------------- MODULE PeerStartup -----------------------------
(***************************************************************************)
(* How peer.elf starts (src/peer.d/main.c and what it calls, up to the     *)
(* threads that serve): it reads its keys, connects to the directory and   *)
(* opens its two listening sockets.  The results of these steps are file   *)
(* descriptors, so the descriptor table is modelled: a new descriptor is   *)
(* the lowest number that is free, and 0, 1, 2 are open or not as the      *)
(* process inherits them.  Each run of the program is one process.         *)
(***************************************************************************)
EXTENDS Integers, FiniteSets

CONSTANTS
  Inherited,    \* the sets of descriptors a process may start with
  MaxFd,        \* descriptors are 0 .. MaxFd
  Runs,         \* how often the program may be started
  Faults        \* TRUE if keys, network, ports or descriptors may fail

Uses == {"directory", "server_psock", "server_csock"}

ASSUME StartupAssumption ==
  /\ MaxFd \in Nat
  /\ Inherited \subseteq SUBSET (0 .. MaxFd)
  /\ Runs \in Nat \ {0}
  /\ Faults \in BOOLEAN

VARIABLES
  pc,         \* what main() does next
  run,        \* how often the program was started
  open,       \* the descriptors in use
  sockets     \* what the descriptors opened so far are: [use, fd] records

vars == <<pc, run, open, sockets>>

Init ==
  /\ pc = "gen_keys" /\ run = 1
  /\ open \in Inherited
  /\ sockets = {}

\* What socket() returns: the lowest descriptor that is not in use.
IsNext(f) == f \in (0 .. MaxFd) \ open /\ 0 .. f - 1 \subseteq open

\* _exit() or a crash: the kernel closes what was open.
Exits ==
  /\ pc' = "exited"
  /\ open' = {} /\ sockets' = {}
  /\ UNCHANGED run

Again ==
  /\ pc = "exited" /\ run < Runs
  /\ pc' = "gen_keys" /\ run' = run + 1
  /\ open' \in Inherited
  /\ UNCHANGED sockets

\* A test for the results of dbconnect() and server_init().
PassesUnlessError(s) == s # -1

\* if(f(...)): main() and server_workings() take any value but 0 for an error,
\* where dbconnect() and server_init() return a descriptor or -1.
Passes(s) == s = 0

Opens(s, use, next) ==
  /\ open' = open \cup {s}
  /\ sockets' = sockets \cup {[use |-> use, fd |-> s]}
  /\ pc' = next
  /\ UNCHANGED run

\* gen_keys() twice; the files are closed again.
GenKeys ==
  /\ pc = "gen_keys"
  /\ \/ pc' = "dbconnect" /\ UNCHANGED <<run, open, sockets>>
     \/ Faults /\ Exits

\* A dbconnect() that closes the descriptor it returns.
DbconnectCloses ==
  /\ pc = "dbconnect"
  /\ \E s \in 0 .. MaxFd :
       /\ IsNext(s)
       /\ sockets' = {[use |-> "directory", fd |-> s]}
       /\ pc' = "server_psock"
       /\ UNCHANGED <<run, open>>

\* dbconnect() starts with strtok() on a pointer it never set: that is a
\* crash, an address that cannot be reached (-1), or by luck the right one.
\* Its result is only tested, and db_sock stays 0 as it was.
Dbconnect ==
  /\ pc = "dbconnect"
  /\ \/ Faults /\ Exits
     \/ \E s \in 0 .. MaxFd :
          /\ IsNext(s)
          /\ IF Passes(s) THEN Opens(s, "directory", "server_psock") ELSE Exits

\* server_init() and the test of what it returned; socket(), bind() and
\* listen() fail with -1.
ServerInit(name, next) ==
  /\ pc = name
  /\ \/ Faults /\ Exits
     \/ \E s \in 0 .. MaxFd :
          /\ IsNext(s)
          /\ IF Passes(s) THEN Opens(s, name, next) ELSE Exits

\* server_workings() goes on to server_csock and the two threads only with
\* pc = "server_csock", which NeverServes shows no run to reach.
Next == GenKeys \/ Dbconnect \/ ServerInit("server_psock", "server_csock") \/ Again

Spec == Init /\ [][Next]_vars

FairSpec == Spec /\ WF_vars(Next)

-----------------------------------------------------------------------------
\* Every variable has its type, and a socket's descriptor is in use.
TypeOK ==
  /\ pc \in {"gen_keys", "dbconnect", "server_psock", "server_csock", "exited"}
  /\ run \in 1 .. Runs
  /\ open \subseteq 0 .. MaxFd
  /\ sockets \subseteq [use : Uses, fd : open]

\* However it is started, the program ends before it serves anyone: main()
\* goes on only if its connection to the directory is descriptor 0, and then
\* its first listening socket is another one, which server_workings() takes
\* for an error (main.c:39, server_workings.c:22).
NeverServes ==
  /\ pc # "server_csock"
  /\ \A x \in sockets : x.use = "directory"

\* Said by the usage text (main.c:17): the program binds an address for peers
\* and one for clients.  A start in which nothing fails gets there.
BindsBoth ==
  pc = "gen_keys" ~> {"server_psock", "server_csock"} \subseteq {x.use : x \in sockets}
=============================================================================
