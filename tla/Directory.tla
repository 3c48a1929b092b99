------------------------------ MODULE Directory ------------------------------
(***************************************************************************)
(* The directory server, src/dbinterface.d: two acceptor threads           *)
(* (peer_server, cli_server), each with ten slots for session threads      *)
(* (peer_run, cli_run), in front of one MySQL connection.  Everything the  *)
(* threads share is here: the descriptor table, the number allocator and   *)
(* its lock, the query lock and the global result set.                     *)
(*                                                                         *)
(* The other ends (peer.elf, client.elf), MySQL and the kernel are the     *)
(* environment.  The text of a reply is not modelled, only to whom it      *)
(* goes.                                                                   *)
(*                                                                         *)
(* common_sources/snd_rcv.c leaves out two return statements.  What the    *)
(* callers then see is chosen from SndReturns (the int of a snd that       *)
(* succeeded) and RcvReturns (the pointer of a rcv that got n >= 0 bytes:  *)
(* "buffer", what the function was meant to return, or "count", n itself,  *)
(* which is what gcc leaves in the return register).                       *)
(*                                                                         *)
(* Nor does rcv() wait for all of a record.  Its 2048 bytes are the text   *)
(* and zeros behind it, and recv() may return only the first part; the     *)
(* next recv() gets the rest.  A segment has room for every text but that  *)
(* of an insert, which carries a key and may itself be cut in two.         *)
(***************************************************************************)
EXTENDS Integers, Sequences, FiniteSets, SequencesExt

CONSTANTS
  Slots,        \* slots of an acceptor: 10 in the code
  ArrSize,      \* length of rand_num_arr: 100 in the code
  RandIds,      \* the range of randombytes_uniform: 1000000 values in the code
  Conns,        \* connections that the other programs may open
  Peers,        \* those of them opened by peer.elf; client.elf opens the rest
  Ports,        \* the ports they connect to: "peers", "clients" or both
  Fds,          \* descriptors the process may have for its connections
  MaxReqs,      \* requests sent on one connection
  Lives,        \* how often the process may be started
  QueryErrors,  \* TRUE if MySQL may refuse a query for reasons of its own
  ShortReads,   \* what recv() may leave of a record: "text", "zeros" or both
  SndReturns, RcvReturns,
  None

Servers == {"peer_server", "cli_server"}
Threads == Servers \X (0 .. Slots - 1)
Nums == [sno : Nat, id : RandIds]

\* What the other programs ask: peer.elf registers the numbers it was told
\* and updates a client's association, client.elf counts and looks up peers.
\* It reads every count as 0 and then looks up number 0, or -1 if it got no
\* count (module Client).
LookedUp == {-1, 0}

Requests ==
       [op : {"insert"}, nums : Nums]
  \cup [op : {"select"}, sno : LookedUp]
  \cup [op : {"update", "count", "END", "cut", "tail"}]

\* The parts of an insert: the first is a query that no MySQL accepts, the
\* second has no colon.
Cut == [op |-> "cut"]
Remainder == [op |-> "tail"]

\* The global res: whose query it answers, whether it has a row, how wide.
Results == [by : Threads, row : BOOLEAN, cols : 0 .. 3]

ASSUME DirectoryAssumption ==
  /\ Slots \in Nat \ {0}
  /\ ArrSize \in Nat
  /\ Slots <= ArrSize
  /\ IsFiniteSet(RandIds) /\ ArrSize <= Cardinality(RandIds)
  /\ Peers \subseteq Conns
  /\ Ports \subseteq {"peers", "clients"}
  /\ Fds \subseteq Nat
  /\ MaxReqs \in Nat
  /\ Lives \in Nat \ {0}
  /\ QueryErrors \in BOOLEAN
  /\ ShortReads \subseteq {"text", "zeros"}
  /\ SndReturns \subseteq Int
  /\ RcvReturns \subseteq {"buffer", "count"}
  /\ None \notin Conns \cup Threads \cup RandIds \cup Nums \cup Requests \cup Results

VARIABLES
  up, life,       \* the process runs; how often it was started
  cnt, jn,        \* per acceptor: peer_count / cli_count, and the joins done
  pc,             \* per thread: what it does next
  sock,           \* per slot: joinee.sock, None if accept failed
  addr,           \* per slot: joinee.addr, the connection that was accepted
  on,             \* per thread: the connection a blocked recv() waits on
  cmd, query,     \* per thread: cmdr, and the query parsed from it
  rand_num, nums, \* per thread: the id just drawn; the numbers it got
  rand_num_arr,   \* the ids stored so far (the array up to the first -1)
  sno,            \* the next serial number
  sno_rand_num,   \* holder of the lock of the last two
  mutex,          \* holder of the query lock
  tok,            \* what is left to strtok(), which all threads share
  res,            \* the pending result set
  fd,             \* the descriptor table: the connection behind each descriptor
  backlog,        \* per port: connections waiting to be accepted
  peers,          \* the table peers (it outlives the process)
  remote,         \* per connection: the other end is "idle", "open" or "closed"
  inbox,          \* per connection: the requests on their way
  rest,           \* per connection: the rest of a record is still to be read
  sent,           \* per connection: requests sent so far
  owed,           \* per connection: requests without a reply so far
  told            \* per connection: the numbers that reached the other end

net    == <<remote, inbox, rest, sent, owed, told>>
shared == <<rand_num_arr, sno, sno_rand_num, mutex, tok, res>>
slots  == <<cnt, jn, sock, addr>>
locals == <<on, cmd, query, rand_num, nums>>
vars   == <<up, life, slots, pc, locals, shared, fd, backlog, peers, net>>

OfNone == [t \in Threads |-> None]

\* What is only in the memory of the process, as main() sets it up.
Init ==
  /\ up = TRUE /\ life = 1
  /\ cnt = [s \in Servers |-> 0] /\ jn = [s \in Servers |-> 0]
  /\ pc = [t \in Threads |-> "free"]
  /\ sock = OfNone /\ addr = OfNone /\ on = OfNone
  /\ cmd = OfNone /\ query = OfNone /\ rand_num = OfNone /\ nums = OfNone
  /\ rand_num_arr = <<>> /\ sno = 0
  /\ sno_rand_num = None /\ mutex = None /\ tok = None /\ res = None
  /\ fd = [f \in Fds |-> None]
  /\ backlog = [p \in {"peers", "clients"} |-> <<>>]
  /\ peers = {}
  /\ remote = [c \in Conns |-> "idle"]
  /\ inbox = [c \in Conns |-> <<>>] /\ rest = [c \in Conns |-> FALSE]
  /\ sent = [c \in Conns |-> 0] /\ owed = [c \in Conns |-> 0]
  /\ told = [c \in Conns |-> None]

\* main() on a new process: the first serial number and no id stored.
ResetsAllocator == sno' = 0 /\ rand_num_arr' = <<>>

\* The process is gone, with its memory, descriptors and listening sockets;
\* Restart finds everything as main() sets it up.  The other ends wait for
\* nothing any more, as their rcv() returns.
ProcessEnds ==
  /\ up' = FALSE
  /\ cnt' = [s \in Servers |-> 0] /\ jn' = [s \in Servers |-> 0]
  /\ pc' = [t \in Threads |-> "free"]
  /\ sock' = OfNone /\ addr' = OfNone /\ on' = OfNone
  /\ cmd' = OfNone /\ query' = OfNone /\ rand_num' = OfNone /\ nums' = OfNone
  /\ ResetsAllocator
  /\ sno_rand_num' = None /\ mutex' = None /\ tok' = None /\ res' = None
  /\ fd' = [f \in Fds |-> None]
  /\ backlog' = [p \in {"peers", "clients"} |-> <<>>]
  /\ remote' = [c \in Conns |-> IF remote[c] = "open" THEN "closed" ELSE remote[c]]
  /\ inbox' = [c \in Conns |-> <<>>] /\ rest' = [c \in Conns |-> FALSE]
  /\ owed' = [c \in Conns |-> 0]
  /\ UNCHANGED <<life, peers, sent, told>>

\* A signal ends the process, at any point.
Killed == up /\ ProcessEnds

Restart ==
  /\ ~up /\ life < Lives
  /\ up' = TRUE /\ life' = life + 1
  /\ UNCHANGED <<slots, pc, locals, shared, fd, backlog, peers, net>>

Goto(t, label) == pc' = [pc EXCEPT ![t] = label]

-----------------------------------------------------------------------------
(* The acceptors: peer_server() and cli_server() differ in the thread they *)
(* start.  Both accept on server_csock, the socket of the clients' port.   *)

AcceptingOnePast(s)  == up /\ cnt[s] <= Slots      \* one slot too many
AcceptingOneShort(s) == up /\ cnt[s] < Slots - 1   \* one too few

Accepting(s) == up /\ cnt[s] < Slots
Joining(s)   == up /\ cnt[s] = Slots /\ jn[s] < Slots

FreeFds == {f \in Fds : fd[f] = None}

\* The thread an acceptor starts: peer_run() asks for numbers first.
EntryAlwaysPeer(s) == "lock_sno"    \* cli_server() starting peer_run() too

Entry(s) == IF s = "peer_server" THEN "lock_sno" ELSE "rcv"

\* accept() succeeds, on a descriptor that was free when it was called;
\* "failed" is a slot whose pthread_create() failed.
Accept(s) ==
  /\ Accepting(s) /\ backlog["clients"] # <<>>
  /\ LET t == <<s, cnt[s]>>
         c == Head(backlog["clients"])
     IN /\ \E f \in FreeFds : /\ fd' = [fd EXCEPT ![f] = c]
                              /\ sock' = [sock EXCEPT ![t] = f]
        /\ addr' = [addr EXCEPT ![t] = c]
        /\ \E label \in {Entry(s), "failed"} : Goto(t, label)
  /\ backlog' = [backlog EXCEPT !["clients"] = Tail(@)]
  /\ cnt' = [cnt EXCEPT ![s] = @ + 1]
  /\ UNCHANGED <<up, life, jn, locals, shared, peers, net>>

\* accept() fails (no descriptor left, or the waiting connection went away);
\* "continue" leaves the slot without a thread and goes on to the next one.
AcceptFails(s) ==
  /\ Accepting(s)
  /\ \/ FreeFds = {} /\ UNCHANGED backlog
     \/ /\ backlog["clients"] # <<>> /\ remote[Head(backlog["clients"])] = "closed"
        /\ backlog' = [backlog EXCEPT !["clients"] = Tail(@)]
  /\ Goto(<<s, cnt[s]>>, "failed")
  /\ cnt' = [cnt EXCEPT ![s] = @ + 1]
  /\ UNCHANGED <<up, life, jn, sock, addr, locals, shared, fd, peers, net>>

Closed(d) == [f \in Fds |-> IF f = d THEN None ELSE fd[f]]

\* pthread_join() of a thread that ended, then close() of its descriptor.
Join(s) ==
  LET t == <<s, jn[s]>> IN
  /\ Joining(s) /\ pc[t] = "exited"
  /\ fd' = Closed(sock[t])
  /\ jn' = [jn EXCEPT ![s] = @ + 1]
  /\ UNCHANGED <<up, life, cnt, pc, sock, addr, locals, shared, backlog, peers, net>>

JoinGivesUp(s) ==    \* pthread_tryjoin_np() for pthread_join()
  /\ Joining(s) /\ pc[<<s, jn[s]>>] # "exited"
  /\ jn' = [jn EXCEPT ![s] = @ + 1]
  /\ UNCHANGED <<up, life, cnt, pc, sock, addr, locals, shared, fd, backlog, peers, net>>

\* pthread_join() of a tid that was never written, or of a thread that was
\* joined before: an error or a crash.
JoinFails(s) ==
  /\ Joining(s) /\ pc[<<s, jn[s]>>] \in {"failed", "joined"}
  /\ \/ /\ jn' = [jn EXCEPT ![s] = @ + 1]
        /\ UNCHANGED <<up, life, cnt, pc, sock, addr, locals, shared, fd, backlog, peers, net>>
     \/ ProcessEnds

\* What a failed pthread_create() left in tid may be the handle that a later
\* thread got.  It is joined instead, and its own join fails in its turn.
JoinsAnother(s) ==
  LET t == <<s, jn[s]>> IN
  /\ Joining(s) /\ pc[t] = "failed" /\ sock[t] # None
  /\ \E u \in Threads : pc[u] = "exited" /\ jn[u[1]] <= u[2] /\ Goto(u, "joined")
  /\ fd' = Closed(sock[t])
  /\ jn' = [jn EXCEPT ![s] = @ + 1]
  /\ UNCHANGED <<up, life, cnt, sock, addr, locals, shared, backlog, peers, net>>

\* server_workings() has joined both acceptors and main() returns.
MainReturns == up /\ (\A s \in Servers : jn[s] = Slots) /\ ProcessEnds

-----------------------------------------------------------------------------
(* snd_sno_rand_id(): a peer session is given its numbers. *)

LockSnoUnguarded(t) ==    \* pthread_mutex_lock() left out
  /\ pc[t] = "lock_sno"
  /\ sno_rand_num' = t
  /\ Goto(t, "draw")
  /\ UNCHANGED <<up, life, slots, locals, rand_num_arr, sno, mutex, tok, res, fd, backlog, peers, net>>

LockSno(t) ==
  /\ pc[t] = "lock_sno" /\ sno_rand_num = None
  /\ sno_rand_num' = t
  /\ Goto(t, "draw")
  /\ UNCHANGED <<up, life, slots, locals, rand_num_arr, sno, mutex, tok, res, fd, backlog, peers, net>>

\* The ids with which the loop ends: new ones, while the array has room.
AnyId == RandIds                    \* without the comparison
FreshOneShort == {r \in RandIds \ ToSet(rand_num_arr) : Len(rand_num_arr) < ArrSize - 1}

Fresh == {r \in RandIds \ ToSet(rand_num_arr) : Len(rand_num_arr) < ArrSize}

\* The draw that ends the loop is stored in the first free place.  Any other
\* draw changes nothing.
Draw(t) ==
  /\ pc[t] = "draw"
  /\ \E r \in Fresh :
       /\ rand_num_arr' = Append(rand_num_arr, r)
       /\ rand_num' = [rand_num EXCEPT ![t] = r]
  /\ Goto(t, "number")
  /\ UNCHANGED <<up, life, slots, on, cmd, query, nums, sno, sno_rand_num, mutex, tok, res, fd, backlog, peers, net>>

Number(t) ==
  /\ pc[t] = "number"
  /\ nums' = [nums EXCEPT ![t] = [sno |-> sno, id |-> rand_num[t]]]
  /\ sno' = sno + 1
  /\ sno_rand_num' = None
  /\ Goto(t, "snd_nums")
  /\ UNCHANGED <<up, life, slots, on, cmd, query, rand_num, rand_num_arr, mutex, tok, res, fd, backlog, peers, net>>

\* The connection a session's descriptor leads to at this moment.
File(t) == IF sock[t] \in Fds THEN fd[sock[t]] ELSE None

\* send() to a connection whose other end is open succeeds; if that end is
\* closed it succeeds, fails or (SIGPIPE) kills the process.
CanSend(t) == File(t) # None
SendFails(t) == CanSend(t) => remote[File(t)] = "closed"
SendKills(t) == CanSend(t) /\ remote[File(t)] = "closed" /\ ProcessEnds

\* snd() then returns 1 after a failure and anything after a success; both
\* callers go to the end of the session on a value that is not 0.
AfterSnd(t, next) ==
  \/ CanSend(t) /\ \E r \in SndReturns : Goto(t, IF r = 0 THEN next ELSE "last")
  \/ SendFails(t) /\ Goto(t, "last")

\* What is sent: NUMS:sno:id as it was written under the lock.
NumsReadLate(t) == [sno |-> sno, id |-> rand_num[t]]    \* written after it

NumsText(t) == nums[t]

SndNums(t) ==
  /\ pc[t] = "snd_nums"
  /\ \/ /\ AfterSnd(t, "rcv")
        /\ told' = [c \in Conns |-> IF c = File(t) /\ told[c] = None /\ remote[c] = "open"
                                      THEN NumsText(t) ELSE told[c]]
        /\ UNCHANGED <<up, life, slots, locals, shared, fd, backlog, peers, remote, inbox, rest, sent, owed>>
     \/ SendKills(t)

-----------------------------------------------------------------------------
(* The request loop of peer_run() and cli_run(). *)

\* rcv() hands the descriptor to recv(), which fails if it is not open.
Rcv(t) ==
  /\ pc[t] = "rcv"
  /\ on' = [on EXCEPT ![t] = File(t)]
  /\ Goto(t, IF File(t) = None THEN "last" ELSE "recv")
  /\ UNCHANGED <<up, life, slots, cmd, query, rand_num, nums, shared, fd, backlog, peers, net>>

\* A client's session refuses to write, END ends the session, and anything
\* else is parsed.
Dispatch(t, op) ==
  IF op = "END" \/ (t[1] = "cli_server" /\ op \in {"insert", "update", "cut"})
    THEN "last" ELSE "strtok"

\* What recv() makes of a record: the text it returns, what it leaves of the
\* text and whether there are zeros to come.
Arrivals(req) ==
  [text : {req}, left : {<<>>},
   rest : IF "zeros" \in ShortReads THEN BOOLEAN ELSE {FALSE}]
  \cup {got \in [text : {Cut}, left : {<<Remainder>>}, rest : {FALSE}] :
          "text" \in ShortReads /\ req.op = "insert"}

\* recv() gets the first request.  A count taken for the buffer is a wild pointer.
Recv(t) ==
  /\ pc[t] = "recv" /\ inbox[on[t]] # <<>> /\ ~rest[on[t]]
  /\ \/ /\ "buffer" \in RcvReturns
        /\ \E got \in Arrivals(Head(inbox[on[t]])) :
             /\ cmd' = [cmd EXCEPT ![t] = got.text]
             /\ inbox' = [inbox EXCEPT ![on[t]] = got.left \o Tail(@)]
             /\ rest' = [rest EXCEPT ![on[t]] = got.rest]
             /\ Goto(t, Dispatch(t, got.text.op))
        /\ on' = [on EXCEPT ![t] = None]
        /\ UNCHANGED <<up, life, slots, query, rand_num, nums, shared, fd, backlog, peers, remote, sent, owed, told>>
     \/ "count" \in RcvReturns /\ ProcessEnds

\* recv() gets the zeros at the end of the last record: strtok() finds nothing
\* in them and returns NULL, which strtol() dereferences.
RecvRestAgain(t) ==    \* read into the buffer of the last record
  /\ pc[t] = "recv" /\ rest[on[t]]
  /\ cmd' = [cmd EXCEPT ![t] = [op |-> "count"]]
  /\ rest' = [rest EXCEPT ![on[t]] = FALSE]
  /\ on' = [on EXCEPT ![t] = None]
  /\ Goto(t, "strtok")
  /\ UNCHANGED <<up, life, slots, query, rand_num, nums, shared, fd, backlog, peers, remote, inbox, sent, owed, told>>

RecvRest(t) == pc[t] = "recv" /\ rest[on[t]] /\ ProcessEnds

\* recv() finds the other end gone.  An error and a count of 0 are both NULL;
\* an empty buffer ends the process like a rest.
RecvEndRetries(t) ==    \* "continue" for "break"
  /\ pc[t] = "recv" /\ inbox[on[t]] = <<>> /\ ~rest[on[t]] /\ remote[on[t]] = "closed"
  /\ Goto(t, "rcv")
  /\ UNCHANGED <<up, life, slots, locals, shared, fd, backlog, peers, net>>

RecvEnd(t) ==
  /\ pc[t] = "recv" /\ inbox[on[t]] = <<>> /\ ~rest[on[t]] /\ remote[on[t]] = "closed"
  /\ \/ /\ on' = [on EXCEPT ![t] = None]
        /\ Goto(t, "last")
        /\ UNCHANGED <<up, life, slots, cmd, query, rand_num, nums, shared, fd, backlog, peers, net>>
     \/ "buffer" \in RcvReturns /\ ProcessEnds

\* strtok(cmdr, ":") leaves the query to be taken, strtok(NULL, ":") takes
\* what the last strtok() of any thread left, NULL if that was everything.  A
\* query taken from another session's buffer keeps its text here: that the
\* other session may free the buffer first is not modelled.
Strtok(t) ==
  /\ pc[t] = "strtok"
  /\ tok' = IF cmd[t] = Remainder THEN None ELSE cmd[t]
  /\ Goto(t, "strtok_null")
  /\ UNCHANGED <<up, life, slots, locals, rand_num_arr, sno, sno_rand_num, mutex, res, fd, backlog, peers, net>>

StrtokNull(t) ==
  /\ pc[t] = "strtok_null"
  /\ query' = [query EXCEPT ![t] = tok]
  /\ tok' = None
  /\ Goto(t, "lock_query")
  /\ UNCHANGED <<up, life, slots, on, cmd, rand_num, nums, rand_num_arr, sno, sno_rand_num, mutex, res, fd, backlog, peers, net>>

-----------------------------------------------------------------------------
(* query_db(). *)

LockQueryUnguarded(t) ==    \* pthread_mutex_lock() left out
  /\ pc[t] = "lock_query"
  /\ mutex' = t
  /\ Goto(t, "query")
  /\ UNCHANGED <<up, life, slots, locals, rand_num_arr, sno, sno_rand_num, tok, res, fd, backlog, peers, net>>

LockQuery(t) ==
  /\ pc[t] = "lock_query" /\ mutex = None
  /\ mutex' = t
  /\ Goto(t, "query")
  /\ UNCHANGED <<up, life, slots, locals, rand_num_arr, sno, sno_rand_num, tok, res, fd, backlog, peers, net>>

\* The primary key of the table peers is id.
Duplicate(q) == q.op = "insert" /\ \E p \in peers : p.id = q.nums.id

\* mysql_query() fails: query_db() returns without unlocking.  A client's
\* session then prints the query to a buffer of 64 bytes, and where that ends
\* the process it is a step of Killed.
QueryFails(t) ==
  /\ pc[t] = "query" /\ query[t] # None
  /\ QueryErrors \/ Duplicate(query[t]) \/ query[t] = Cut
  /\ Goto(t, "last")
  /\ UNCHANGED <<up, life, slots, locals, shared, fd, backlog, peers, net>>

\* The columns of a query's result (the exp_col its sender writes before it).
Columns(q) == CASE q.op = "select" -> 3 [] q.op = "count" -> 1 [] OTHER -> 0

HasRow(q) == q.op = "count" \/ (q.op = "select" /\ \E p \in peers : p.sno = q.sno)

\* mysql_query() and mysql_use_result().  There is no client row to update.
QueryOk(t) ==
  /\ pc[t] = "query" /\ query[t] \notin {None, Cut} /\ ~Duplicate(query[t])
  /\ peers' = IF query[t].op = "insert" THEN peers \cup {query[t].nums} ELSE peers
  /\ res' = [by |-> t, row |-> HasRow(query[t]), cols |-> Columns(query[t])]
  /\ Goto(t, "fetch")
  /\ UNCHANGED <<up, life, slots, locals, rand_num_arr, sno, sno_rand_num, mutex, tok, fd, backlog, net>>

\* The expected columns of the row are copied and the lock is released.
FetchKeepsLock(t) ==    \* a return before pthread_mutex_unlock()
  /\ pc[t] = "fetch"
  /\ Columns(cmd[t]) = 0 \/ res.row
  /\ res' = None
  /\ cmd' = [cmd EXCEPT ![t] = None]
  /\ query' = [query EXCEPT ![t] = None]
  /\ Goto(t, "snd")
  /\ UNCHANGED <<up, life, slots, on, rand_num, nums, rand_num_arr, sno, sno_rand_num, mutex, tok, fd, backlog, peers, net>>

Fetch(t) ==
  /\ pc[t] = "fetch"
  /\ Columns(cmd[t]) = 0 \/ res.row
  /\ res' = None
  /\ mutex' = None
  /\ cmd' = [cmd EXCEPT ![t] = None]
  /\ query' = [query EXCEPT ![t] = None]
  /\ Goto(t, "snd")
  /\ UNCHANGED <<up, life, slots, on, rand_num, nums, rand_num_arr, sno, sno_rand_num, tok, fd, backlog, peers, net>>

\* mysql_query(conn, NULL), a row of the NULL result of a write (NULL as well
\* in some client libraries), the columns of a NULL row, columns past its end.
QueryCrashes(t) ==
  /\ \/ pc[t] = "query" /\ query[t] = None
     \/ pc[t] = "fetch" /\ query[t].op \in {"insert", "update"}
     \/ pc[t] = "fetch" /\ Columns(cmd[t]) > 0 /\ (~res.row \/ Columns(cmd[t]) > res.cols)
  /\ ProcessEnds

SndReply(t) ==
  /\ pc[t] = "snd"
  /\ \/ /\ AfterSnd(t, "rcv")
        /\ owed' = [c \in Conns |-> IF c = File(t) /\ owed[c] > 0 THEN owed[c] - 1 ELSE owed[c]]
        /\ UNCHANGED <<up, life, slots, locals, shared, fd, backlog, peers, remote, inbox, rest, sent, told>>
     \/ SendKills(t)

\* The final feedback; whatever snd() says of it, the socket is closed next.
SndLast(t) ==
  /\ pc[t] = "last"
  /\ \/ /\ Goto(t, "close")
        /\ UNCHANGED <<up, life, slots, locals, shared, fd, backlog, peers, net>>
     \/ SendKills(t)

CloseThenSend(t) ==    \* the socket closed before the final feedback
  /\ pc[t] = "close"
  /\ fd' = Closed(sock[t])
  /\ Goto(t, "last")
  /\ UNCHANGED <<up, life, slots, locals, shared, backlog, peers, net>>

ExitsOpen(t) ==    \* a session that exits without closing its socket
  /\ pc[t] = "close"
  /\ Goto(t, "exited")
  /\ UNCHANGED <<up, life, slots, locals, shared, fd, backlog, peers, net>>

CloseAndExit(t) ==
  /\ pc[t] = "close"
  /\ fd' = Closed(sock[t])
  /\ Goto(t, "exited")
  /\ UNCHANGED <<up, life, slots, locals, shared, backlog, peers, net>>

-----------------------------------------------------------------------------
(* The other ends. *)

Connect(c) ==
  /\ up /\ remote[c] = "idle"
  /\ remote' = [remote EXCEPT ![c] = "open"]
  /\ \E p \in Ports : backlog' = [backlog EXCEPT ![p] = Append(@, c)]
  /\ UNCHANGED <<up, life, slots, pc, locals, shared, fd, peers, inbox, rest, sent, owed, told>>

\* peer.elf has to know its numbers before it registers them, which it does
\* once.
Asks(c) ==
  IF c \in Peers
    THEN [op : {"insert"}, nums : {told[c]} \ (peers \cup {None})]
         \cup [op : {"update", "END"}]
    ELSE [op : {"select"}, sno : LookedUp]
         \cup [op : {"count", "END"}]

\* Every request but the last is followed by a rcv() of its reply.  Where a
\* snd() seems to have failed client.elf goes on without it, and peer.elf ends.
MayAsk(c) == owed[c] = 0 \/ (c \notin Peers /\ SndReturns # {0})

Request(c) ==
  /\ remote[c] = "open" /\ MayAsk(c) /\ sent[c] < MaxReqs
  /\ \E req \in Asks(c) : inbox' = [inbox EXCEPT ![c] = Append(@, req)]
  /\ sent' = [sent EXCEPT ![c] = @ + 1]
  /\ owed' = [owed EXCEPT ![c] = @ + 1]
  /\ UNCHANGED <<up, life, slots, pc, locals, shared, fd, backlog, peers, remote, rest, told>>

RemoteCloses(c) ==
  /\ remote[c] = "open"
  /\ remote' = [remote EXCEPT ![c] = "closed"]
  /\ UNCHANGED <<up, life, slots, pc, locals, shared, fd, backlog, peers, inbox, rest, sent, owed, told>>

-----------------------------------------------------------------------------
Session(t) ==
  \/ LockSno(t) \/ Draw(t) \/ Number(t) \/ SndNums(t)
  \/ Rcv(t) \/ Recv(t) \/ RecvRest(t) \/ RecvEnd(t)
  \/ Strtok(t) \/ StrtokNull(t)
  \/ LockQuery(t) \/ QueryFails(t) \/ QueryOk(t) \/ Fetch(t) \/ QueryCrashes(t)
  \/ SndReply(t) \/ SndLast(t) \/ CloseAndExit(t)

Acceptor(s) == Accept(s) \/ AcceptFails(s) \/ Join(s) \/ JoinFails(s) \/ JoinsAnother(s)

Environment == \E c \in Conns : Connect(c) \/ Request(c) \/ RemoteCloses(c)

Next ==
  \/ \E s \in Servers : Acceptor(s)
  \/ \E t \in Threads : Session(t)
  \/ MainReturns \/ Killed \/ Restart
  \/ Environment

Spec == Init /\ [][Next]_vars

\* The scheduler runs every thread that can run.  Nothing is assumed of the
\* other ends, nor that anybody restarts the process.
Fairness ==
  /\ \A s \in Servers : WF_vars(Acceptor(s))
  /\ \A t \in Threads : WF_vars(Session(t))

FairSpec == Spec /\ Fairness
=============================================================================
