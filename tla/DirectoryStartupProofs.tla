------------------------ MODULE DirectoryStartupProofs ------------------------
(* Proofs about the start of the directory server, for any passwords typed,  *)
(* any size of the buffer and any number of starts.                          *)
EXTENDS DirectoryStartup, TLAPS

USE StartupAssumption DEF terminal, server

Early == {"init", "tcgetattr", "fgets", "mysql_init", "exited"}
Threaded == {"psock_thr", "csock_thr", "serving"}

\* What main() has achieved when it gets to a place.
Reached ==
  /\ pc \in Early => ~conn
  /\ pc \notin Early => conn
  /\ pc \notin Early \cup {"allocate"} => allocator
  /\ pc = "server_csock" => "peers" \in listening
  /\ pc \in Threaded => listening = Ports
  /\ pc \notin Threaded => acceptors = {}

\* The mode kept during the prompt is one to give back, as is the present one.
ModeKept ==
  /\ EchoComesBack
  /\ pc = "fgets" /\ ~saved => left

IInv == TypeOK /\ Reached /\ ModeKept /\ EnterNeverLogsIn

LEMMA StartInit == Init => IInv
<1> SUFFICES ASSUME Init PROVE IInv
  OBVIOUS
<1>1. TypeOK
  <2>1. start \in 1 .. Starts
    BY DEF Init
  <2> QED BY <2>1 DEF Init, TypeOK, Places
<1>2. Reached
  BY DEF Init, Reached, Early, Threaded
<1>3. ModeKept
  BY DEF Init, ModeKept, EchoComesBack
<1>4. EnterNeverLogsIn
  BY DEF Init, EnterNeverLogsIn
<1> QED BY <1>1, <1>2, <1>3, <1>4 DEF IInv

\* A process that is gone, with a terminal that is as it was.
LEMMA ExitsKeeps ==
  ASSUME IInv, Exits, left' \in BOOLEAN, left => left', saved' = saved, echo' = echo,
         pc = "fgets" => left'
  PROVE  IInv'
<1>1. TypeOK'
  BY DEF IInv, TypeOK, Exits, Goto, Places
<1>2. Reached'
  BY DEF Exits, Goto, Reached, Early, Threaded
<1>3. ModeKept'
  BY DEF IInv, ModeKept, EchoComesBack, Exits, Goto
<1>4. EnterNeverLogsIn'
  BY DEF Exits, EnterNeverLogsIn
<1> QED BY <1>1, <1>2, <1>3, <1>4 DEF IInv

LEMMA FailsKeeps == IInv /\ pc # "fgets" /\ Exits /\ UNCHANGED terminal => IInv'
  BY ExitsKeeps DEF IInv, TypeOK

LEMMA PromptKeeps == IInv /\ (Libraries \/ Quiet \/ Fgets) => IInv'
<1>1. CASE IInv /\ Libraries
  <2>1. CASE Fails
    BY <1>1, <2>1, FailsKeeps DEF Libraries, Fails
  <2>2. CASE Goto("tcgetattr") /\ UNCHANGED <<terminal, line, server, timewait>>
    <3>1. TypeOK'
      BY <1>1, <2>2 DEF IInv, TypeOK, Libraries, Goto, Places
    <3>2. Reached'
      BY <1>1, <2>2 DEF IInv, Reached, Libraries, Goto, Early, Threaded
    <3>3. ModeKept' /\ EnterNeverLogsIn'
      BY <1>1, <2>2 DEF IInv, ModeKept, EchoComesBack, EnterNeverLogsIn, Libraries, Goto
    <3> QED BY <3>1, <3>2, <3>3 DEF IInv
  <2> QED BY <1>1, <2>1, <2>2 DEF Libraries
<1>2. CASE IInv /\ (Quiet \/ Fgets)
  <2>1. TypeOK'
    <3>1. /\ pc' \in {"fgets", "mysql_init"} /\ UNCHANGED <<start, faulty, account, server, timewait>>
      BY <1>2 DEF Quiet, Fgets, Goto
    <3>2. echo' \in BOOLEAN /\ saved' \in BOOLEAN /\ left' \in BOOLEAN /\ line' \in Lines \cup {None}
      BY <1>2 DEF IInv, TypeOK, Quiet, Fgets
    <3>3. pc' = "fgets" => ~echo'
      BY <1>2 DEF Quiet, Fgets, Goto
    <3> QED BY <1>2, <3>1, <3>2, <3>3 DEF IInv, TypeOK, Places
  <2>2. Reached'
    BY <1>2 DEF IInv, Reached, Quiet, Fgets, Goto, Early, Threaded
  <2>3. ModeKept'
    BY <1>2 DEF IInv, TypeOK, ModeKept, EchoComesBack, Quiet, Fgets, Goto
  <2>4. ~conn'
    BY <1>2 DEF IInv, Reached, Quiet, Fgets, Goto, Early
  <2> QED BY <2>1, <2>2, <2>3, <2>4 DEF IInv, EnterNeverLogsIn
<1> QED BY <1>1, <1>2

\* Without a newline in the buffer the line was as long as the buffer.
LEMMA EnterFills ==
  ASSUME NEW l \in Lines, LogsIn(l), l.enter, account \in Nat
  PROVE  account = Size - 1
<1>1. l # None /\ l.length \in Nat
  BY DEF Lines
<1>2. ~(l.length < Size - 1) /\ account = IF l.length < Size THEN l.length ELSE Size - 1
  BY <1>1 DEF LogsIn, Buffer
<1> QED BY <1>1, <1>2

LEMMA DbconnectKeeps == IInv /\ Dbconnect => IInv'
<1> SUFFICES ASSUME IInv, Dbconnect, ~(Exits /\ UNCHANGED terminal) PROVE IInv'
  BY FailsKeeps DEF Dbconnect
<1>0. /\ LogsIn(line) /\ conn' = TRUE /\ pc' = "allocate"
      /\ UNCHANGED <<start, faulty, account, terminal, line, allocator, listening, acceptors, served, timewait>>
      /\ pc = "mysql_init"
  BY DEF Dbconnect, Fails, Goto
<1>1. TypeOK'
  BY <1>0 DEF IInv, TypeOK, Places
<1>2. Reached'
  BY <1>0 DEF IInv, Reached, Early, Threaded
<1>3. ModeKept'
  BY <1>0 DEF IInv, ModeKept, EchoComesBack
<1>4. EnterNeverLogsIn'
  <2>1. line \in Lines \cup {None} /\ account \in Nat
    BY DEF IInv, TypeOK
  <2> QED BY <1>0, <2>1, EnterFills DEF EnterNeverLogsIn
<1> QED BY <1>1, <1>2, <1>3, <1>4 DEF IInv

LEMMA ServerKeeps ==
  ASSUME IInv,
         \/ Allocate
         \/ ServerInit("server_psock", "peers", "server_csock")
         \/ ServerInit("server_csock", "clients", "psock_thr")
         \/ StartsAcceptor("psock_thr", "peers", "csock_thr")
         \/ StartsAcceptor("csock_thr", "clients", "serving")
  PROVE  IInv'
<1> SUFFICES ASSUME ~(Exits /\ UNCHANGED terminal) PROVE IInv'
  BY FailsKeeps DEF Allocate, ServerInit, StartsAcceptor
<1> USE DEF Allocate, ServerInit, StartsAcceptor, Fails, Goto
<1>1. TypeOK'
  <2>1. /\ pc' \in Places \ {"fgets"}
        /\ UNCHANGED <<start, faulty, account, terminal, line, conn, served, timewait>>
    BY DEF Places
  <2>2. allocator' = allocator \/ allocator' = TRUE
    OBVIOUS
  <2>3. listening' \subseteq Ports
    BY DEF IInv, TypeOK, Ports
  <2>4. acceptors' \subseteq Ports /\ (acceptors # {} => acceptors' # {})
    BY DEF IInv, TypeOK, Ports
  <2> HIDE DEF Allocate, ServerInit, StartsAcceptor, Fails, Goto
  <2>5. /\ pc' \in Places /\ pc' # "fgets"
        /\ start' = start /\ faulty' = faulty /\ account' = account
        /\ echo' = echo /\ saved' = saved /\ left' = left /\ line' = line
        /\ conn' = conn /\ served' = served /\ timewait' = timewait
    BY <2>1
  <2>6. allocator' \in BOOLEAN /\ (served' => acceptors' # {})
    BY <2>2, <2>4, <2>5 DEF IInv, TypeOK
  <2> QED BY <2>3, <2>4, <2>5, <2>6 DEF IInv, TypeOK
<1>2. Reached'
  <2>1. CASE Allocate
    BY <2>1 DEF IInv, Reached, Early, Threaded
  <2>2. CASE ServerInit("server_psock", "peers", "server_csock")
    BY <2>2 DEF IInv, Reached, Early, Threaded
  <2>3. CASE ServerInit("server_csock", "clients", "psock_thr")
    <3>1. listening' = listening \cup {"clients"} /\ "peers" \in listening /\ listening \subseteq Ports
      BY <2>3 DEF IInv, TypeOK, Reached
    <3>2. listening' = Ports
      BY <3>1 DEF Ports
    <3> QED BY <2>3, <3>2 DEF IInv, Reached, Early, Threaded
  <2>4. CASE StartsAcceptor("psock_thr", "peers", "csock_thr")
    BY <2>4 DEF IInv, Reached, Early, Threaded
  <2>5. CASE StartsAcceptor("csock_thr", "clients", "serving")
    BY <2>5 DEF IInv, Reached, Early, Threaded
  <2> QED BY <2>1, <2>2, <2>3, <2>4, <2>5
<1>3. ModeKept'
  BY DEF IInv, ModeKept, EchoComesBack
<1>4. EnterNeverLogsIn'
  BY DEF IInv, EnterNeverLogsIn
<1> QED BY <1>1, <1>2, <1>3, <1>4 DEF IInv

LEMMA StartNext == IInv /\ [Next]_vars => IInv'
<1> SUFFICES ASSUME IInv, [Next]_vars PROVE IInv'
  OBVIOUS
<1>1. CASE Main
  BY <1>1, PromptKeeps, DbconnectKeeps, ServerKeeps DEF Main
<1>2. CASE Interrupted
  BY <1>2, ExitsKeeps DEF Interrupted, IInv, TypeOK
<1>3. CASE Serve
  BY <1>3 DEF Serve, IInv, TypeOK, Reached, ModeKept, EchoComesBack, EnterNeverLogsIn
<1>4. CASE Ends
  BY <1>4, FailsKeeps DEF Ends
<1>5. CASE Again
  <2>0. /\ pc = "exited" /\ pc' = "init" /\ start < Starts /\ start' = start + 1
        /\ faulty' \in BOOLEAN /\ (echo' = echo \/ echo' = TRUE)
        /\ account' = account /\ saved' = saved /\ left' = left /\ line' = line /\ timewait' = timewait
        /\ conn' = conn /\ allocator' = allocator /\ listening' = listening
        /\ acceptors' = acceptors /\ served' = served
    BY <1>5 DEF Again
  <2>1. TypeOK'
    <3>1. start' \in 1 .. Starts
      BY <2>0 DEF IInv, TypeOK
    <3>2. echo' \in BOOLEAN
      BY <2>0 DEF IInv, TypeOK
    <3> QED BY <2>0, <3>1, <3>2 DEF IInv, TypeOK, Places
  <2>2. Reached'
    BY <2>0 DEF IInv, Reached, Early, Threaded
  <2>3. ModeKept'
    BY <2>0 DEF IInv, ModeKept, EchoComesBack
  <2>4. EnterNeverLogsIn'
    BY <2>0 DEF IInv, EnterNeverLogsIn
  <2> QED BY <2>1, <2>2, <2>3, <2>4 DEF IInv
<1>6. CASE TimeWaitEnds \/ UNCHANGED vars
  <2>0. /\ timewait' \in BOOLEAN
        /\ pc' = pc /\ start' = start /\ faulty' = faulty /\ account' = account
        /\ echo' = echo /\ saved' = saved /\ left' = left /\ line' = line
        /\ conn' = conn /\ allocator' = allocator /\ listening' = listening
        /\ acceptors' = acceptors /\ served' = served
    BY <1>6 DEF TimeWaitEnds, vars, IInv, TypeOK
  <2>1. TypeOK'
    BY <2>0 DEF IInv, TypeOK
  <2>2. Reached'
    BY <2>0 DEF IInv, Reached
  <2>3. ModeKept'
    BY <2>0 DEF IInv, ModeKept, EchoComesBack
  <2>4. EnterNeverLogsIn'
    BY <2>0 DEF IInv, EnterNeverLogsIn
  <2> QED BY <2>1, <2>2, <2>3, <2>4 DEF IInv
<1> QED BY <1>1, <1>2, <1>3, <1>4, <1>5, <1>6 DEF Next

\* Every variable keeps its type, and what belongs to a process ends with it.
THEOREM DirectoryStartTypes == Spec => []TypeOK
<1>1. IInv => TypeOK
  BY DEF IInv
<1> QED BY <1>1, StartInit, StartNext, PTL DEF Spec

\* No acceptor runs in a process that lacks its log-in, allocator or sockets.
THEOREM DirectoryIsReady == Spec => []ReadyToServe
<1>1. IInv => ReadyToServe
  BY DEF IInv, Reached, Threaded, Early, ReadyToServe
<1> QED BY <1>1, StartInit, StartNext, PTL DEF Spec

\* Only a start that left the prompt unfinished takes the echo away.
THEOREM EchoIsGivenBack == Spec => []EchoComesBack
<1>1. IInv => EchoComesBack
  BY DEF IInv, ModeKept
<1> QED BY <1>1, StartInit, StartNext, PTL DEF Spec

\* The newline that Enter adds is part of the password, whatever the size of
\* the buffer, unless it did not fit.
THEOREM EnterIsRefused == Spec => []EnterNeverLogsIn
<1>1. IInv => EnterNeverLogsIn
  BY DEF IInv
<1> QED BY <1>1, StartInit, StartNext, PTL DEF Spec
===============================================================================
