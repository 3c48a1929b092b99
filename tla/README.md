# Dynamic anonymity protocol: TLA+ specifications

Models, model-checking configurations and machine-checked proofs for the four
programs of the repository: `dbinterface.elf` (the directory), `peer.elf`,
`client.elf` and `server.elf` (the echo server). Every definition is translated
from the C sources; `PROJECT.json` maps each one to the lines it stands for.

## 1. The system

A client reaches an echo server through two hops. Peers register with a
directory, which hands out numbers and runs SQL for everybody; clients count the
peers and look one up at random. All programs exchange records of 2048 bytes
over TCP through `snd()` and `rcv()`.

| component | state | operations | correct when |
|---|---|---|---|
| directory: start (`dbinterface.d/main.c`, `dbconnect.c`, `get_passwd.c`, `server_init.c`, `server_workings.c`) | the terminal's mode, the log-in, the sockets, what the kernel remembers of old connections | prompt, log in, allocate, bind, start the acceptors | nobody is served by half a server; the terminal gets its echo back; a start in which nothing fails serves |
| directory: acceptors (`peer_server.c`, `cli_server.c`, `server_workings.c`) | ten slots each, a count, tids, the listening sockets | accept and start a thread, join, close | every waiting connection is accepted while there are slots; a session's descriptor stays its own |
| directory: sessions (`peer_run.c`, `cli_run.c`) | socket, request, reply; `strtok()`'s position, shared by all threads | hand out numbers, receive, check rights, parse, query, reply, close | a session runs the query it received and ends with its connection |
| directory: number allocator (`snd_sno_rand_id`) | `sno`, `rand_num_arr`, a mutex | draw a fresh id, take the next number, send both | ids and numbers are distinct and gapless; the drawing loop ends |
| directory: queries (`query_db.c`) | `mutex`, global `res` and `row` | lock, query, copy the row, unlock, compose the answer | a session gets its own result; the lock is given back |
| database (`db/anon.sql`) | table `peers` with primary key `id` | insert, count, select | rows carry numbers that were handed out |
| record transport (`common_sources/snd_rcv.c`) | none | `snd`, `rcv` | a record is read once and as a whole, and the caller learns what happened |
| peer start (`peer.d/main.c`, `server_workings.c`, `server_init.c`, `dbconnect.c`) | descriptors | connect to the directory, open two listening sockets | a start in which nothing fails serves |
| peer relay (`peer.d/peer_run.c`, `cli_run.c`, ...) | client table | authenticate, relay | not reachable in this build |
| client start (`client.d/main.c`, `get_connect_to_new_peer.c`, ...) | the number drawn, an error flag | count, draw, look up, connect | it takes no answer for one to its other question, and never waits for nothing |
| client dialog (`client.d/transactions.c`, ...) | temporary peer, timer | send, receive, change peers | not reachable in this build |
| echo server start (`generic-server.d`) | its argument | parse, bind, parse, accept | it gets to accept |
| echo server sessions | per connection | echo | not reachable in this build |
| encryption, key files | none that control depends on | RSA by OpenSSL | not modelled |

What is hard about it: two acceptors and up to twenty session threads over one
descriptor table, one `strtok()` position and one result set; two locks, one of
which an error path keeps; a random draw in a loop without an exit; descriptors
closed twice; a process that loses its memory while the table survives; peers
and clients that disappear at any moment; functions that end without a return.
`PROJECT.json` lists each such hazard at its line with the properties aimed at it.

Three of the programs never do what they are for in the present build, and the
models say so rather than pretend:

* `peer.elf` takes the descriptors that `dbconnect()` and `server_init()` return
  for errors and ends at its first listening socket at the latest.
* `server.elf` splits its argument twice with `strtok()`; the second time there is
  no port and it crashes.
* `client.elf` gets answers it cannot read. `sprintf(cmds, "SUCCESS:%s", cmds)`
  (`query_db.c:47`) writes over what it is to copy, and the columns of a row are
  put together without a separator (`query_db.c:31`): every count reads as 0, and
  no row has a field for the key.

The code behind those points has no reachable state, so it is not modelled.

The directory works once it is started, which takes more than its prompt says:
the newline of a password ended with Enter stays in the buffer (`get_passwd.c:33`)
and is sent with it (`dbconnect.c:23`). A start succeeds with an account without a
password and an input that is no terminal, with a password ended by Ctrl-D, or
with one that fills the buffer. Programs that speak the same records (corrected builds of
the peer, tools) are what its model calls peers: they send only the requests
that `peer.d` composes, in the order in which it composes them.

## 2. Modules

| module | what it is |
|---|---|
| `Registry` | abstract: serial numbers 0, 1, 2, ... and distinct ids, granted once per holder, forgotten together |
| `Database` | abstract: each session queries the table `peers` as if it had it to itself, and takes its answer later |
| `DirectoryStartup`, `DirectoryStartupProofs` | start of `dbinterface.elf` up to its acceptors, over several starts on one terminal and one kernel |
| `Directory` | both acceptors, all sessions, the allocator, the query path, descriptors, records that arrive in parts, crash and restart; environment: connections, requests, closes |
| `DirectoryProperties` | type invariant, safety, liveness, the refinements of `Registry` and `Database`, two statements of the documentation |
| `DirectoryProofs`, `DirectoryNumberProofs`, `DirectoryQueryProofs`, `DirectoryRecordProofs` | proofs about `Directory`: types, locks and joins; the allocator; the queries; descriptors, rows and replies |
| `PeerStartup`, `PeerStartupProofs` | start of `peer.elf` over a descriptor table |
| `Client`, `ClientProofs` | `client.elf` up to its first peer, with what its connection meets in the directory |
| `EchoServer`, `EchoServerProofs` | start of `server.elf` |
| `MCDirectory`, `MCDirectoryStartup`, `MCPeerStartup`, `MCClient`, `MCEchoServer` | instances for TLC |

### Directory and the code

A thread is a slot of an acceptor, `<<"peer_server", i>>` or `<<"cli_server", i>>`,
and `pc` is the place its C function has reached; local variables that matter
are functions of the thread (`sock`, `addr`, `cmd`, `query`, `rand_num`, `nums`),
globals are plain variables under their C names. One action is one stretch of
code between two points where another thread can be noticed: `LockSno`, `Draw`
and `Number` for the allocator; `Rcv` and `Recv` apart, because a blocked `recv()`
keeps the connection although its descriptor may be closed and given away;
`Strtok` and `StrtokNull` apart, because the second call reads the shared
position; `LockQuery`, `QueryOk` or `QueryFails`, and `Fetch` for `query_db()`. A
descriptor is a number that leads to a connection through `fd`, so a second
`close()` of a number that was reused has its effect. `ProcessEnds` (a crash, a
signal, the return of `main()`) drops memory, descriptors and backlog and keeps
the table; `Killed` is the signal, which may come at any point, and `Restart` starts
a new life.

`Directory` implements two abstract modules. `Registry` is the allocator: a number
counts as handed out from `Number` on (the array up to `sno`), and the whole of
`Draw`, `Number` and the lock is one `Grant`. `Database` is `query_db()`: `QueryOk` is
the query, and the global `res` is the answer of the session at `fetch`; that no
other session's query comes in between is what the lock is for, and a query that
fails is no step of the database at all.

A record is 2048 bytes: a text and zeros behind it. `rcv()` does not wait for all
of them, so `Recv` takes what `Arrivals` says: the whole record, the text without
all of its zeros (`rest`, to be read by the next `recv()`, in which `strtok()`
finds nothing and the process crashes: `RecvRest`), or, for an insert only, a part
of the text. An insert carries a key of about 1500 characters
(`update_existance.c:30`) and does not fit a segment; all other texts do. Its first
part is a query that no database accepts (`Cut`), the second has no colon
(`Remainder`). `ShortReads` says which of the two a run allows.

The requests of a connection are a queue (`inbox`), `sent` counts them and `owed`
those without a reply. A peer waits for each reply, and so does a client, except
where its `snd()` seems to have failed: `get_connect_to_new_peer()` goes on with the
next question then (`MayAsk`), and several requests of one client are on their way
at once. A client looks up number 0, or -1 without a count (`LookedUp`): it can
read no other count, see `Client`.

Abstractions: a request is its kind and its numbers, a reply is only who gets
it, an id is a model value, the array of ids is the sequence of its used places.

Undefined behaviour is a choice over what a build can show. `snd()` and `rcv()`
end without a return after a success: `SndReturns` holds what a caller may see of
a successful send (0, or what `free()` left in the register), `RcvReturns` says
whether a caller sees the buffer or the byte count, which it then dereferences.
A `pthread_join()` of a tid never written fails or ends the process (`JoinFails`)
or, where `pthread_create()` left the handle that a later thread got, joins that
thread (`JoinsAnother`), whose own join fails then. The columns
of a row that does not exist end the process.

### The other modules

`DirectoryStartup` models the path from `main()` to the acceptors as a sequence of
places. What outlives a process is kept apart from what does not: the mode of the
terminal (`echo`), which `get_passwd()` switches off and gives back from `saved`,
and the ports the kernel holds for old connections (`timewait`; `server_init()` does
not set `SO_REUSEADDR`). Of a password its length, its end and whether it is the
right one are kept, which is what `fgets()` into 64 bytes tells apart.

`PeerStartup` has the table of descriptors (the lowest free number is next; the
process inherits any subset of the low ones) and the tests of `main()` and
`server_workings()` as they are written. `EchoServer` counts the fields of its
argument up to the NUL that `strtok()` writes. In `Client` an answer is what the
client reads of it: whether its first field is `SUCCESS`, the number its second
field starts with, and what its fourth field is; `Answer` gives these for a text of
`n` characters as glibc's `sprintf()` produces them.

`session` is where the client's connection is in the directory, seen from outside.
It waits in the backlog until either acceptor takes it (`peer_server()` accepts on
the clients' port as well, and `peer_run()` sends a record of numbers first:
`SndNums`), or nobody ever does: both acceptors have used their slots, or the
thread of its slot did not start (`left`). Then it serves (`Serve`), ends after an
error, waits for a lock that another session's failed query kept, or dies with
the process. The other sessions are an environment (`Others`) that may do to this
one at any time what it can do to a session in `Directory`: take its query from
`strtok()` so that it runs another session's query or NULL (`Queries`), lose the
query lock (`OthersFail`), end the process (`Killed`), or have an acceptor close its
descriptor a second time (`SecondClose`), after which the connection may be
anybody's (`mixed`, `Stray`). A query that gives fewer columns than the question
asks for, and a byte count taken for the buffer, end the directory (`Crash`).
Records may arrive in two parts in both directions (`rests`); who reads the second
part crashes.

## 3. Runs

| run | bounds | shows |
|---|---|---|
| `directory_startup` | 3 starts, passwords of 0, 8, 62, 63 and 64 characters for a buffer of 64, faults | `TypeOK`, `ReadyToServe`, `EchoComesBack`, `EnterNeverLogsIn`, `ServesIfReady` |
| `directory_safety` | 2 peers, 2 slots per acceptor, 2 descriptors, 1 request each, cuts in the text, all outcomes of `snd`/`rcv` | `TypeOK`, `ResultIsOwn`, `NumbersDistinct`, `SocketIsOwn`, `OpenIsHeld`, `RowsWereGranted`, `ToldOnce`, `JoinedAreOver`, refinement of `Registry` |
| `directory_records` | 1 peer and 1 client, 1 slot per acceptor, 2 requests each, records without their zeros, sends that seem to fail, failing queries | `RepliesAreAwaited`, refinement of `Database` |
| `directory_queries` | 1 peer and 1 client, 1 slot per acceptor, 1 request each, failing queries | `AllocatorHasRoom`, `HoldersNeverWait`, `LostForGood`, `QueryServed`, `SessionsEnd`, `BacklogServed` |
| `directory_sessions` | 2 connections, 2 slots per acceptor, no requests, 2 lives | `NumbersDelivered` |
| `directory_privileges` | 1 peer, 1 client, 1 slot each | violated: `ClientsOnlyRead` |
| `directory_peers_port` | 1 peer at the first address | violated: `PeersPortServed` |
| `peer_startup` | every subset of four inherited descriptors, 3 runs, faults | `TypeOK`, `NeverServes` |
| `peer_usage` | from a terminal, no faults | violated: `BindsBoth` |
| `client_faults` | 2 numbers, rows of 8, 12, 18 and 460 characters, counts of up to 7 digits, both acceptors, records in two parts, faults and other sessions in the way, 2 replies under way on a mixed connection | `TypeOK`, `NeverChooses`, `AnswersInStep`, `AnswerOutstanding`, `EndsUnlessLeft` |
| `client_connect` | 2 registered peers, `cli_server()` accepts, no faults | violated: `ConnectsToPeer` |
| `echo_usage` | `ip:port` | violated: `Accepts` |

Why the bounds are enough. Every property of the directory speaks of at most two
threads, two numbers or one lock. Connections come to the one port that is
served, and whichever acceptor takes one decides what kind of session it gets.
Two slots per acceptor give two sessions of each kind and the reuse of a
descriptor by the other acceptor; two descriptors for two connections are enough
to close one and get it back; an array as long as the slots is the tightest the
assumption `Slots <= ArrSize` allows (10 and 100 in the code). A session treats
every request alike, so one request per connection gives each place in the code,
and the second pass through the loop is the wait for the end of the connection or
the rest of the record. `directory_records` has a second request, so that the rest of
the first one, or the first one itself, can be there when it comes. A third would
only be a longer queue. `directory_sessions` has the second life; a third one starts with
no more than a table and connections that are closed, as the second does. `ToldOnce`
is checked in one life, as two connections leave one for each of two; the theorem
`OnceTold` holds for any number of lives and connections. In `client_faults`
`MaxReplies` bounds only what strangers send on a mixed connection: the client reads
two replies at most. Of a record
cut into more than two parts the later ones are like the second. In `directory_startup` a
third start follows on every pair of a failed and a repaired one, and the lengths
are those around the size of the buffer, an ordinary one and none.
In the liveness runs each number is reduced to what its property needs, since
fairness per thread is costly. The safety of larger instances is what the proofs
are for.

Symmetry: `directory_safety` permutes ids and connections: every connection is a
peer's, nothing in the model names one of them, and the initial state and all
properties are invariant. `directory_records` and the liveness runs use no symmetry.

Fairness. Weak fairness of each thread (`Session(t)`, `Acceptor(s)`) is what a
preemptive scheduler gives: a thread that can run, runs. It is enough for the
mutexes because the number of requests is bounded by `MaxReqs`, so no lock is
taken infinitely often. For `Draw` it also says that a loop drawing at random
meets a free place in the end, which holds with probability 1 if there is one
(`AllocatorHasRoom`). A query lock kept after a failed query is the exception
(`Lost`) in `QueryServed` and `SessionsEnd`. Nothing is assumed of the other ends: they may stop at any
point. In `Client` the client, the acceptors and the session it talks to run
(`WF_vars(Main)`, `WF_vars(Session)`), the other sessions need not. The exceptions
are named in `EndsUnlessLeft`: a session that waits for a lock that was lost, a
connection nobody will serve, and one that a second close has mixed up. A signal, a
crash or a swapped query is no exception: the client notices the closed connection. In `DirectoryStartup` only `main()` is fair, and not at the
prompt: nobody has to type, to connect or to start the program again.

`CHECK_DEADLOCK FALSE` is set in all runs: each program really stops (all
connections used up, or the process gone for the last time).

### What the violated statements show

* `ClientsOnlyRead`: `cli_run.c:27` announces a check of the client's rights, and
  lines 33-35 refuse `insert` and `update`. The check looks at the record, but the
  query is what `strtok(NULL)` returns at line 46. If a peer's session calls
  `strtok()` in between, the client's session runs the peer's insert (and the
  peer's session gets the rest).
* `PeersPortServed`: the usage text (`main.c:15`) names the first address as the
  peers'. Both acceptors accept on `server_csock` (`peer_server.c:23`), the second.
* `BindsBoth`: see `peer.elf` above (`peer.d/main.c:39`, `server_workings.c:22`).
* `ConnectsToPeer`: README line 9 says a client is connected to a random node;
  see `client.elf` above.
* `Accepts`: the usage text of `server.elf` promises a server at the address; see
  above (`server_workings.c:22-23`).

## 4. Proofs

All theorems hold for every value of the constants under the assumptions named
in the modules. `DirectoryAssumption` says that there is a slot, that an acceptor
has no more slots than the array has places (10 and 100 in the code) and there are
as many ids as places (1000000), and that `None` is none of the values; `StartupAssumption` (of each start) and `ClientAssumption` give types. (`MaxDigits <= 7`:
fewer than ten million peers.)

| theorem | property | argument |
|---|---|---|
| `DirectoryProofs!TypeCorrect` | `TypeOK` | with `LocalsReady`: what a place in the code relies on was set on the only way there |
| `DirectoryProofs!OneAtATime` | `ResultIsOwn` | a lock is held by exactly the thread whose place needs it, or by one whose query failed and that is at its end (`LockInv`), on top of `SlotInv`: a slot that was not used has no thread |
| `DirectoryProofs!JoinedOver` | `JoinedAreOver` | a slot is passed only with a thread that ended, was joined or never started, and none of these comes back (`JoinInv`) |
| `DirectoryQueryProofs!NoHolderWaits` | `HoldersNeverWait` | directly from `LockInv` |
| `DirectoryQueryProofs!LostLockStays` | `LostForGood` | the session that lost the lock only goes on to its end, nobody is at `query` or `fetch`, and `LockQuery` is disabled (`LostStays`) |
| `DirectoryQueryProofs!ImplementsDatabase` | `QueriesAreAtomic` | `QueryOk` maps to a query of its kind, `Fetch` to `Take`, `ProcessEnds` to `Forget`, everything else to a stutter; the holder of the lock is the only session with an answer (`OneAnswer`) |
| `DirectoryNumberProofs!DistinctNumbers` | `NumbersDistinct` | granted numbers are the places of the array (`HeldInv`), which has no repeats (`ArrayInv`); the places are filled under the lock |
| `DirectoryNumberProofs!RoomToDraw` | `AllocatorHasRoom` | the array is as long as the set of threads that drew, a subset of the slots without the one that draws (`GrantInv`, counted with `FS_Subset`), so a place is free; and fewer ids than there are places are fewer than all (`IdLeft`) |
| `DirectoryNumberProofs!ImplementsRegistry` | `HandsOutAsRegistry` | `Number` maps to `Grant`, `ProcessEnds` to `Forget`, everything else to a stutter; a drawn id shows only once its number is taken (`SubSeq(rand_num_arr, 1, sno)`) |
| `DirectoryRecordProofs!OwnSockets` | `SocketIsOwn` | before the first join a descriptor is closed only by the session that has it (`SocketInv`); a fresh one leads nowhere, so nobody has it |
| `DirectoryRecordProofs!GrantedRows` | `RowsWereGranted` | every insert, wherever it is on its way (inbox, `cmd`, `tok`, `query`), carries numbers that were told (`RowInv`); told numbers are those of a session of this life as long as it is the first |
| `DirectoryRecordProofs!OpenHeld` | `OpenIsHeld` | inductive on top of `TypeOK` and `SlotInv`: whoever closes a descriptor, the session that opened it keeps its number until it closes it, and `accept()` gives only numbers that are free (`HeldStays`, `HeldAccept`) |
| `DirectoryRecordProofs!OnceTold` | `ToldOnce` | each connection was told in one life; what was told in this life belongs to a session past its send, and to one connection only (`ToldInv`): a session sends once, and a connection that was told keeps what it got. What was told in an earlier life stays as it is. A process that is down has no sessions (`DownInv`). With `NumberInv` distinct sessions have distinct numbers, with `RowInv` the rows are among those told |
| `DirectoryRecordProofs!AwaitedReplies` | `RepliesAreAwaited` | on top of `SocketInv`, so that a session works for the connection it was accepted for, and of `AddrInv`, so that no other session does: a session between receiving and replying owes one reply more than there are requests on their way, one that receives or gets its numbers exactly as many (`ReplyInv`) |
| `DirectoryStartupProofs!DirectoryStartTypes`, `DirectoryIsReady` | `TypeOK`, `ReadyToServe` | `Reached`: what each place of `main()` has behind it; every way out drops all of it |
| `DirectoryStartupProofs!EchoIsGivenBack` | `EchoComesBack` | `ModeKept`: the mode saved at the prompt is one to give back |
| `DirectoryStartupProofs!EnterIsRefused` | `EnterNeverLogsIn` | no newline in the buffer after Enter means that the line filled it (`EnterFills`) |
| `PeerStartupProofs!StartupTypes`, `PeerNeverServes` | `TypeOK`, `NeverServes` | only descriptor 0 passes the first test, and then no listening socket can be 0 (`KeepsZero`) |
| `ClientProofs!ClientTypes`, `ClientNeverChooses` | `TypeOK`, `NeverChooses` | no answer in the queue says a number or has a key (`SaysNothing`), so `connect` is reached only with the error flag |
| `ClientProofs!ClientInStep` | `AnswersInStep` | the count is asked for once, its answer is read before anything else is asked for unless the error flag is set, and a session's numbers come before all answers; the numbers and the last words are no success, so they set the flag (`InOrder`, on top of `SaysNothing`) |
| `ClientProofs!ClientIsAnswered` | `AnswerOutstanding` | inductive on top of `TypeOK`: the client receives only after it asked, and a session that takes a question without an answer leaves `Open` with it |
| `EchoServerProofs!EchoNeverAccepts` | (`NeverAccepts`) | one field is left for the second parsing |

The properties alone are not inductive. `ResultIsOwn` needs that a free slot has no
place in the code and that the lock's holder is at one of the places that hold it.
`ToldOnce` speaks of connections and rows, and a step that breaks it would first hand
a number to a second session or send one twice, which is where `NumberInv` and
`ToldInv` are; and that each connection was told in some life is a function of the
history (`ToldIn`), so the invariant carries one along and `SndNums` extends it.
`AnswersInStep` speaks of the first reply only; the invariant (`InOrder`) of all that are
on the way and of the questions, since the reply to a question comes last of what is
there when it is asked. `RepliesAreAwaited` says nothing of a session that waits, but a session
that waits must not owe more than the requests on their way, or the next one it takes
would break it; and that one session's work leaves the account of another alone is
a fact about connections (`AddrInv`), not about replies.

All invariants and action properties of the passing runs and both refinements are
proved. Only model-checked is liveness (`QueryServed`, `SessionsEnd`, `BacklogServed`,
`NumbersDelivered`, `EndsUnlessLeft`, `ServesIfReady`): the prover does not handle
fairness and `ENABLED`. No module uses recursion.

## 5. What is not modelled

* Failing `pthread_mutex_lock()` and `unlock()`: they need a corrupted mutex.
* Lengths and contents of buffers beyond what control depends on; keys, RSA. The
  failed query is printed into 64 bytes (`cli_run.c:49`): a swapped insert overflows
  them, of which the model has only the crash (`Killed`).
* What `strtok()` left behind is kept as a query (`StrtokNull`); in the code it points
  into the record of the session that left it, which may free it first
  (`peer_run.c:57`, `cli_run.c:52`). What is run is arbitrary then, which the model
  does not have.
* A text other than an insert's cut by the network, and `send()` of less than a
  record, which a blocking socket does only when a signal interrupts it.
* Peer relay, client dialog, echo sessions: unreachable, see section 1. That the
  peer and the echo server never serve and the client never gets a peer is proved
  (`PeerNeverServes`, `EchoNeverAccepts`, `ClientNeverChooses`); a model of what
  they would do next would have no state of the program to start from. Errors wait
  there (the assignment in `peer.d/snd_rcv.c:15`, the index in `peer_run.c:238`, the
  pointer in `transactions.c:51`); as nothing reaches them they are no hazards of
  this build.
* What no property promises: that a session whose descriptor an acceptor closed goes
  on undisturbed (`SessionsEnd`, `SocketIsOwn` and `AnswersInStep` name the exception),
  that numbers differ between lives, that the directory survives a missing row or a
  swapped query, and that the sessions of the first acceptor outlive the failure to
  start the second (`server_workings.c:30`).
* The composition of `Client` with `Directory`: `Client` has a session of its own,
  reduced to what the client can tell apart, and the others as an environment. That
  each of its steps is one of a thread of `Directory` is by reading, not by a proof.

## 6. Plan

Done, in this order: `Registry` and `Directory` with their runs and proofs,
`PeerStartup`, `Client`, `EchoServer`, `DirectoryStartup`, records in parts with
`DirectoryRecordProofs`, requests that queue up, `Database` with `DirectoryQueryProofs`.
Left:

1. `Client` composed with `Directory`: the session of `Client` shown to be an
   abstraction of a thread of `Directory`.
2. When the start-up tests of the peer and the answers of the directory are
   corrected: the relay sessions with the client table, and the client's dialog
   with its timer.
