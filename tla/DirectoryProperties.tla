------------------------ MODULE DirectoryProperties ------------------------
(***************************************************************************)
(* What the directory server guarantees, and what its comments and usage   *)
(* text say of it that the code does not do.                               *)
(***************************************************************************)
EXTENDS Directory

PeerThreads == {"peer_server"} \X (0 .. Slots - 1)

\* A session between pthread_create() and close().
Active == {"lock_sno", "draw", "number", "snd_nums", "rcv", "recv", "strtok",
           "strtok_null", "lock_query", "query", "fetch", "snd", "last", "close"}

Requested == Requests \cup {None}

TypeSlots ==
  /\ cnt \in [Servers -> 0 .. Slots] /\ jn \in [Servers -> 0 .. Slots]
  /\ sock \in [Threads -> Fds \cup {None}]
  /\ addr \in [Threads -> Conns \cup {None}]

TypeLocals ==
  /\ pc \in [Threads -> Active \cup {"free", "failed", "exited", "joined"}]
  /\ on \in [Threads -> Conns \cup {None}]
  /\ cmd \in [Threads -> Requested] /\ query \in [Threads -> Requested]
  /\ rand_num \in [Threads -> RandIds \cup {None}]
  /\ nums \in [Threads -> Nums \cup {None}]

TypeShared ==
  /\ rand_num_arr \in Seq(RandIds) /\ sno \in Nat
  /\ sno_rand_num \in Threads \cup {None} /\ mutex \in Threads \cup {None}
  /\ tok \in Requested
  /\ res \in Results \cup {None}

TypeWorld ==
  /\ up \in BOOLEAN /\ life \in 1 .. Lives
  /\ fd \in [Fds -> Conns \cup {None}]
  /\ backlog \in [{"peers", "clients"} -> Seq(Conns)]
  /\ peers \subseteq Nums

TypeNet ==
  /\ remote \in [Conns -> {"idle", "open", "closed"}]
  /\ inbox \in [Conns -> Seq(Requests)] /\ rest \in [Conns -> BOOLEAN]
  /\ sent \in [Conns -> 0 .. MaxReqs] /\ owed \in [Conns -> Nat]
  /\ told \in [Conns -> Nums \cup {None}]

LocalsReady ==
  \A t \in Threads :
    /\ pc[t] = "recv" => on[t] # None
    /\ pc[t] = "number" => rand_num[t] # None
    /\ pc[t] = "snd_nums" => nums[t] # None
    /\ pc[t] \in {"strtok", "strtok_null", "lock_query", "query", "fetch"} => cmd[t] # None
    /\ pc[t] = "fetch" => query[t] # None

\* Every variable has its type, and a thread has what its place in the code
\* takes for granted: a connection to receive from, an id to number, numbers
\* to send, a request to parse and a query that was run (peer_run.c:36-57,
\* 92-115, query_db.c:21-31).
TypeOK ==
  TypeSlots /\ TypeLocals /\ TypeShared /\ TypeWorld /\ TypeNet /\ LocalsReady

-----------------------------------------------------------------------------
\* One session at a time draws a number, one at a time is in query_db(), and
\* the global res a session fetches from is the result of its own query
\* (peer_run.c:84-113, query_db.c:15-45) ...
ResultIsOwn ==
  \A t \in Threads :
    /\ pc[t] \in {"draw", "number"} => sno_rand_num = t
    /\ pc[t] \in {"query", "fetch"} => mutex = t
    /\ pc[t] = "fetch" => res # None /\ res.by = t

\* No two sessions of one life of the process hold the same serial number or
\* the same random id, however they interleave (peer_run.c:90-107).
NumbersDistinct ==
  \A t, u \in Threads :
    t # u /\ nums[t] # None /\ nums[u] # None
      => nums[t].sno # nums[u].sno /\ nums[t].id # nums[u].id

\* The loop that draws an id, which holds the lock and has no other exit, can
\* always end: there is a free place in rand_num_arr, which is longer than the
\* peers' acceptor has slots, and an id that is not in it (peer_run.c:90-106,
\* peer_server.c:21).
AllocatorHasRoom == \A t \in Threads : pc[t] = "draw" => Fresh # {}

\* Places behind the request loop.
Ending == {"last", "close", "exited", "joined"}

\* The query lock is held by a session whose query failed and which went on
\* to its end with it.
Lost == \E t \in Threads : mutex = t /\ pc[t] \in Ending

\* Whoever holds a lock is at a place from which it goes on by itself, or has
\* lost it for all: nobody waits for a lock, for a record or for a join with a
\* lock in hand (peer_run.c:84-113, query_db.c:15-45).
HoldersNeverWait ==
  \A t \in Threads :
    /\ sno_rand_num = t => pc[t] \in {"draw", "number"}
    /\ mutex = t => pc[t] \in {"query", "fetch"} \/ Lost

\* After one query that failed none is run until the process ends: the table
\* stays as it is and no session gets an answer (query_db.c:15-25).
LostForGood == [][Lost /\ up' => Lost' /\ UNCHANGED <<peers, res>>]_vars

\* Until an acceptor starts to join (and to close descriptors a second time),
\* a session's descriptor leads to the connection it was accepted for, and no
\* two sessions share one (peer_server.c:23-31, peer_run.c:75, cli_run.c:70).
SocketIsOwn ==
  (\A s \in Servers : jn[s] = 0) =>
    /\ \A t \in Threads : pc[t] \in Active => File(t) = addr[t]
    /\ \A t, u \in Threads :
         t # u /\ {pc[t], pc[u]} \subseteq Active => sock[t] # sock[u]

\* A descriptor stays open only for a session that has not ended, on the
\* connection it was accepted for, or for a slot whose thread could not be
\* started: whatever is closed a second time, no descriptor is left behind by a
\* session that is over (peer_run.c:75, cli_run.c:70, peer_server.c:31-35, 47,
\* cli_server.c:31-35, 47).
OpenIsHeld ==
  \A f \in Fds :
    fd[f] # None =>
      \E t \in Threads : sock[t] = f /\ addr[t] = fd[f] /\ pc[t] \in Active \cup {"failed"}

\* The table holds only numbers that some peer was told, and in the first life
\* of the process a session still has them, whichever session ran the query
\* and however its record was split (peer_run.c:107-115,
\* update_existance.c:30, snd_rcv.c:24).
RowsWereGranted ==
  \A p \in peers :
    /\ \E c \in Peers : told[c] = p
    /\ up /\ life = 1 => \E t \in PeerThreads : nums[t] = p

\* In one life of the process no two connections are told the same serial
\* number, although a descriptor closed twice may lead to another session's
\* connection: there is a life for each of them such that two that were told
\* one number have different lives.  So a lookup by number finds at most one
\* row for each start of the directory (peer_run.c:107-115, cli_server.c:47,
\* main.c:49, query_db.c:28).
ToldOnce ==
  /\ \E in_life \in [Conns -> 1 .. life] :
       \A c, d \in Conns :
         c # d /\ told[c] # None /\ told[d] # None /\ told[c].sno = told[d].sno
           => in_life[c] # in_life[d]
  /\ \E in_life \in [peers -> 1 .. life] :
       \A p, q \in peers : p # q /\ p.sno = q.sno => in_life[p] # in_life[q]

\* Places between a request and its reply.
Working == {"strtok", "strtok_null", "lock_query", "query", "fetch", "snd"}

\* Until the first join, a session works on one request of its sender, and all
\* others that it has not answered are still on their way: no request is
\* answered twice and none is left out, although records come in parts and a
\* client may not wait for a reply.  This needs that the text of a record is
\* in its first part (peer_run.c:36-65, cli_run.c:28-60, snd_rcv.c:24,
\* get_rand_sno.c:16-19).
RepliesAreAwaited ==
  "text" \notin ShortReads /\ (\A s \in Servers : jn[s] = 0) =>
    \A t \in Threads :
      pc[t] \in Working => owed[addr[t]] = Len(inbox[addr[t]]) + 1

\* An acceptor is past a slot only when its session is over, also where the
\* join failed or was another thread's, so main() does not return under a
\* session (peer_server.c:38-49, server_workings.c:36-48).
JoinedAreOver == \A t \in Threads : t[2] < jn[t[1]] => pc[t] \notin Active

\* The directory's numbers are handed out as the registry promises: the
\* random ids granted are the array up to the serial number.
R == INSTANCE Registry
  WITH Holders <- PeerThreads,
       ids <- SubSeq(rand_num_arr, 1, sno),
       held <- [t \in PeerThreads |-> nums[t]]

HandsOutAsRegistry == R!Spec

\* Queries are run as the database promises, though the result is in a global
\* that all sessions share: a session's answer is there from its query until it
\* fetches it (query_db.c:15-45).
Found(t) == IF pc[t] = "fetch" THEN res ELSE None

DB == INSTANCE Database
  WITH Sessions <- Threads, Rows <- Nums, Snos <- LookedUp,
       table <- peers,
       answer <- [t \in Threads |-> Found(t)]

QueriesAreAtomic == DB!Spec

-----------------------------------------------------------------------------
\* A peer that was accepted is sent its numbers (or the attempt is over),
\* whoever else draws at the time (peer_run.c:79-122).
NumbersDelivered ==
  \A t \in Threads :
    pc[t] = "lock_sno" ~> pc[t] \notin {"lock_sno", "draw", "number", "snd_nums"}

\* A session that reached query_db() gets its turn and leaves it, unless a query
\* fails (query_db.c:9-49).
QueryServed ==
  \A t \in Threads :
    pc[t] = "lock_query" ~> pc[t] \notin {"lock_query", "query", "fetch"} \/ Lost

\* A connection to the clients' port does not wait forever while an acceptor
\* has slots left (cli_server.c:21-27, peer_server.c:21-27).
BacklogServed ==
  \A c \in Conns :
    c \in ToSet(backlog["clients"])
      ~> c \notin ToSet(backlog["clients"]) \/ \A s \in Servers : cnt[s] = Slots

\* When the other end goes away the session ends and closes its socket, unless
\* it waits for a lock that was lost or a second close has mixed up the
\* descriptors (peer_run.c:36-76, cli_run.c:28-71).
SessionsEnd ==
  \A t \in Threads :
    pc[t] \in Active /\ remote[addr[t]] = "closed"
      ~> pc[t] \notin Active \/ Lost \/ \E s \in Servers : jn[s] > 0

-----------------------------------------------------------------------------
\* Said by the usage text (main.c:15): peers connect to the first address.  A
\* connection to that port is accepted in the end.
PeersPortServed ==
  \A c \in Conns :
    c \in ToSet(backlog["peers"])
      ~> c \notin ToSet(backlog["peers"]) \/ \A s \in Servers : cnt[s] = Slots

\* Said by cli_run.c:27 and 33-35: a client's privileges are checked, and a
\* client's session never writes.
ClientsOnlyRead ==
  \A t \in {"cli_server"} \X (0 .. Slots - 1) :
    pc[t] = "fetch" => query[t].op \notin {"insert", "update"}
=============================================================================
