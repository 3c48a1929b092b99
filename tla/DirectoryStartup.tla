--------------------------- MODULE DirectoryStartup ---------------------------
(***************************************************************************)
(* How dbinterface.elf starts (src/dbinterface.d/main.c and what it calls, *)
(* up to the two acceptor threads of module Directory): it asks for the    *)
(* database password with the echo of the terminal switched off, logs in,  *)
(* sets up the number allocator, opens its listening sockets and starts    *)
(* the acceptors.  The terminal and the kernel's memory of old connections *)
(* outlive a process, so a run of the model is a series of starts.         *)
(*                                                                         *)
(* Of a password its length matters and whether its characters are those   *)
(* of the account.                                                         *)
(***************************************************************************)
EXTENDS Integers

CONSTANTS
  Size,      \* the buffer of get_passwd(): 64 bytes
  Lengths,   \* lengths of passwords, the account's and those typed
  Starts,    \* how often the program may be started
  None

\* What is typed at the prompt; it ends with Enter or with the end of input.
Lines == [length : Lengths, right : BOOLEAN, enter : BOOLEAN]

Ports == {"peers", "clients"}

ASSUME StartupAssumption ==
  /\ Size \in Nat \ {0}
  /\ Lengths \subseteq Nat
  /\ Starts \in Nat \ {0}
  /\ None \notin Lines

VARIABLES
  pc,         \* what main() does next
  start,      \* how often the program was started
  faulty,     \* this start may meet failures: arguments, libraries, kernel
  account,    \* the length of the account's password, 0 if it has none
  echo,       \* the terminal echoes
  saved,      \* the mode in b, to be given back after the prompt
  left,       \* some start left the prompt without giving it back
  line,       \* what passwd was read from, None if it is NULL
  conn,       \* logged in
  allocator,  \* sno and rand_num_arr are set up
  listening,  \* ports with a listening socket
  acceptors,  \* acceptor threads started
  served,     \* a connection was accepted in this process
  timewait    \* the kernel holds the clients' port for an old connection

terminal == <<echo, saved, left>>
server   == <<conn, allocator, listening, acceptors, served>>
vars     == <<pc, start, faulty, account, terminal, line, server, timewait>>

Init ==
  /\ pc = "init" /\ start = 1 /\ faulty \in BOOLEAN
  /\ account \in Lengths
  /\ echo = TRUE /\ saved = TRUE /\ left = FALSE
  /\ line = None
  /\ conn = FALSE /\ allocator = FALSE
  /\ listening = {} /\ acceptors = {} /\ served = FALSE
  /\ timewait = FALSE

Goto(label) == pc' = label /\ UNCHANGED <<start, faulty, account>>

\* A return that leaves the threads it started behind.
ExitsServed ==
  /\ Goto("exited")
  /\ line' = None
  /\ conn' = FALSE /\ allocator' = FALSE
  /\ listening' = {} /\ acceptors' = {} /\ UNCHANGED served
  /\ timewait' \in {timewait, timewait \/ served}

\* _exit(), a crash or a signal.  Where the process closed a connection before
\* its other end did, the kernel keeps it for a while.
Exits ==
  /\ Goto("exited")
  /\ line' = None
  /\ conn' = FALSE /\ allocator' = FALSE
  /\ listening' = {} /\ acceptors' = {} /\ served' = FALSE
  /\ timewait' \in {timewait, timewait \/ served}

Fails == faulty /\ Exits /\ UNCHANGED terminal

\* init(): the number of arguments and the libraries.
Libraries ==
  /\ pc = "init"
  /\ \/ Goto("tcgetattr") /\ UNCHANGED <<terminal, line, server, timewait>>
     \/ Fails

\* get_passwd() up to the prompt.  It returns NULL if stdin is no terminal or
\* its mode cannot be set, and dbconnect() goes on without a password.
SavesQuietMode ==    \* b=a after the flags were changed
  /\ pc = "tcgetattr"
  /\ \/ /\ saved' = FALSE /\ echo' = FALSE
        /\ Goto("fgets") /\ UNCHANGED <<left, line, server, timewait>>
     \/ Goto("mysql_init") /\ UNCHANGED <<terminal, line, server, timewait>>

Quiet ==
  /\ pc = "tcgetattr"
  /\ \/ /\ saved' = echo /\ echo' = FALSE
        /\ Goto("fgets") /\ UNCHANGED <<left, line, server, timewait>>
     \/ Goto("mysql_init") /\ UNCHANGED <<terminal, line, server, timewait>>

\* fgets() and the old mode again; if that fails, NULL is returned too.
Fgets ==
  /\ pc = "fgets"
  /\ \/ line' \in Lines /\ echo' = saved /\ UNCHANGED <<saved, left>>
     \/ faulty /\ left' = TRUE /\ UNCHANGED <<line, echo, saved>>
  /\ Goto("mysql_init") /\ UNCHANGED <<server, timewait>>

\* A signal at the prompt: nobody gives the mode back.
Interrupted ==
  /\ pc = "fgets"
  /\ left' = TRUE
  /\ Exits /\ UNCHANGED <<echo, saved>>

\* What fgets() leaves in the buffer: a character less than its size, and the
\* newline if there is room for it.
BufferStripped(l) ==    \* with the newline removed
  [length |-> IF l.length < Size THEN l.length ELSE Size - 1, newline |-> FALSE]

Buffer(l) ==
  [length  |-> IF l.length < Size THEN l.length ELSE Size - 1,
   newline |-> l.enter /\ l.length < Size - 1]

\* mysql_real_connect() compares all of it; NULL is no password.
LogsIn(l) ==
  IF l = None
    THEN account = 0
    ELSE /\ Buffer(l).length = account /\ ~Buffer(l).newline
         /\ account = 0 \/ l.right

DbconnectTakesSuccess ==    \* a pointer to the connection taken for an error
  /\ pc = "mysql_init"
  /\ LogsIn(line) \/ faulty
  /\ Exits /\ UNCHANGED terminal

Dbconnect ==
  /\ pc = "mysql_init"
  /\ \/ LogsIn(line) /\ conn' = TRUE
        /\ Goto("allocate") /\ UNCHANGED <<terminal, line, allocator, listening, acceptors, served, timewait>>
     \/ ~LogsIn(line) /\ Exits /\ UNCHANGED terminal
     \/ Fails

\* sno=0, and the array of ids.
Allocate ==
  /\ pc = "allocate"
  /\ \/ allocator' = TRUE
        /\ Goto("server_psock") /\ UNCHANGED <<terminal, line, conn, listening, acceptors, served, timewait>>
     \/ Fails

\* server_init(): no SO_REUSEADDR, so bind() fails while the kernel holds the
\* port.  Nobody accepts on the peers' port, and nothing is held there.
Free(port) == port = "clients" => ~timewait

ServerInitGoesOn(name, port, next) ==    \* the result of bind() not tested
  /\ pc = name
  /\ listening' = IF Free(port) THEN listening \cup {port} ELSE listening
  /\ Goto(next) /\ UNCHANGED <<terminal, line, conn, allocator, acceptors, served, timewait>>

ServerInit(name, port, next) ==
  /\ pc = name
  /\ \/ Free(port) /\ listening' = listening \cup {port}
        /\ Goto(next) /\ UNCHANGED <<terminal, line, conn, allocator, acceptors, served, timewait>>
     \/ ~Free(port) /\ Exits /\ UNCHANGED terminal
     \/ Fails

\* pthread_create() of an acceptor.  If that of cli_server fails the process
\* ends under the sessions of peer_server.
StartsAcceptor(name, port, next) ==
  /\ pc = name
  /\ \/ acceptors' = acceptors \cup {port}
        /\ Goto(next) /\ UNCHANGED <<terminal, line, conn, allocator, listening, served, timewait>>
     \/ Fails

Main ==
  \/ Libraries \/ Quiet \/ Fgets \/ Dbconnect \/ Allocate
  \/ ServerInit("server_psock", "peers", "server_csock")
  \/ ServerInit("server_csock", "clients", "psock_thr")
  \/ StartsAcceptor("psock_thr", "peers", "csock_thr")
  \/ StartsAcceptor("csock_thr", "clients", "serving")

\* Both acceptors take the connections of the clients' port.
Serve ==
  /\ acceptors # {} /\ ~served
  /\ served' = TRUE
  /\ UNCHANGED <<pc, start, faulty, account, terminal, line, conn, allocator, listening, acceptors, timewait>>

\* Both threads are joined, or a signal ends the process.
Ends == pc = "serving" /\ Exits /\ UNCHANGED terminal

\* The next start, from a shell that may have set the terminal right.
Again ==
  /\ pc = "exited" /\ start < Starts
  /\ pc' = "init" /\ start' = start + 1 /\ faulty' \in BOOLEAN
  /\ echo' \in {echo, TRUE}
  /\ UNCHANGED <<account, saved, left, line, server, timewait>>

TimeWaitEnds ==
  /\ timewait /\ timewait' = FALSE
  /\ UNCHANGED <<pc, start, faulty, account, terminal, line, server>>

Next == Main \/ Interrupted \/ Serve \/ Ends \/ Again \/ TimeWaitEnds

Spec == Init /\ [][Next]_vars

\* main() goes on; nobody has to type, to connect or to start it again.
FairSpec == Spec /\ WF_vars(Main /\ pc # "fgets")

-----------------------------------------------------------------------------
Places == {"init", "tcgetattr", "fgets", "mysql_init", "allocate", "server_psock",
           "server_csock", "psock_thr", "csock_thr", "serving", "exited"}

\* Every variable has its type, the terminal is quiet while the password is
\* typed, and connections and threads are those of a process that runs.
TypeOK ==
  /\ pc \in Places /\ start \in 1 .. Starts /\ faulty \in BOOLEAN
  /\ account \in Lengths
  /\ echo \in BOOLEAN /\ saved \in BOOLEAN /\ left \in BOOLEAN
  /\ pc = "fgets" => ~echo
  /\ line \in Lines \cup {None}
  /\ conn \in BOOLEAN /\ allocator \in BOOLEAN
  /\ listening \subseteq Ports /\ acceptors \subseteq Ports
  /\ served \in BOOLEAN /\ (served => acceptors # {})
  /\ timewait \in BOOLEAN

\* Nobody is served before the server is logged in, has its allocator and both
\* of its sockets, whatever failed on the way and whatever the last process
\* left behind (main.c:44-56, server_workings.c:16-34).
ReadyToServe ==
  acceptors # {} => conn /\ allocator /\ listening = Ports

\* The terminal is found without echo outside the prompt only after a start
\* that was ended at the prompt or could not set the mode: a prompt that was
\* answered gives back what it found (get_passwd.c:17-39).
EchoComesBack == pc # "fgets" /\ ~echo => left

\* A password that was ended with Enter never logs in, however right, unless
\* the account's password fills the buffer exactly: the newline is part of
\* what is sent (get_passwd.c:33, dbconnect.c:14-23).
EnterNeverLogsIn ==
  conn /\ line # None /\ line.enter => account = Size - 1

\* With the right password and nothing failing the server gets to serve, or
\* the port is still held for a connection of the last process
\* (dbconnect.c:17-30, server_init.c:22-40, server_workings.c:16-34).
ServesIfReady ==
  pc = "mysql_init" /\ LogsIn(line) /\ ~faulty /\ ~timewait ~> pc = "serving"
===============================================================================
