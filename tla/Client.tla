------------------------------- MODULE Client -------------------------------
(***************************************************************************)
(* client.elf from main() to the first peer it connects to: it asks the    *)
(* directory how many peers there are, draws a number, looks that peer up  *)
(* and connects to it (src/client.d/get_connect_to_new_peer.c).  With it   *)
(* goes what its connection meets in the directory, from the backlog to    *)
(* the session that answers, while other sessions run beside it.           *)
(*                                                                         *)
(* The other sessions are not modelled one by one (module Directory does   *)
(* that): with Faults they may at any time do to this one what they can do *)
(* there, which is to let it take one of their queries from strtok(), lose *)
(* the query lock, bring the process down, or make an acceptor close this  *)
(* connection's descriptor or one that leads to it.                        *)
(*                                                                         *)
(* Answers are abstracted to what the client reads of them: whether the    *)
(* first field is SUCCESS, the number the second one begins with (0 if     *)
(* there is none) and what the fourth one, the key, is.                    *)
(*                                                                         *)
(* rcv() may return the text of a record without all of the zeros that     *)
(* follow it.  Whoever reads the rest takes it for a record of its own, in *)
(* which strtok() finds nothing: the process crashes.                      *)
(***************************************************************************)
EXTENDS Integers, Sequences, FiniteSets

CONSTANTS
  Snos,         \* the serial numbers peers register with
  Lengths,      \* the lengths of a peer's id, ip and key together
  MaxDigits,    \* the digits of the number of peers, or of a peer's id
  Acceptors,    \* the acceptors of the directory that have slots left
  SndReturns, RcvReturns,    \* what follows a snd() or rcv() without a return
  Faults,       \* TRUE if anything may fail and others get in the way
  ShortReads,   \* TRUE if recv() may return less than a record
  MaxReplies,   \* bound on the replies that are under way
  None

ASSUME ClientAssumption ==
  /\ Snos \subseteq Nat /\ IsFiniteSet(Snos) /\ Lengths \subseteq Nat
  /\ MaxDigits \in 1 .. 7 /\ MaxReplies \in Nat
  /\ Acceptors \subseteq {"peer_server", "cli_server"} /\ Acceptors # {}
  /\ SndReturns \subseteq Int /\ RcvReturns \subseteq {"buffer", "count"}
  /\ Faults \in BOOLEAN /\ ShortReads \in BOOLEAN /\ None \notin Int

VARIABLES
  pc, stat,     \* what the client does next; whether a step has failed
  rand_sno,     \* the number it drew
  requests, replies,    \* records on their way to and from the directory
  rests,        \* of these queues, the ones with zeros of the last record ahead
  session,      \* where its connection is in the directory, see Sessions
  lost,         \* a session whose query failed has kept the query lock
  rows          \* the numbers registered in table peers

local == <<pc, stat, rand_sno>>
queues == <<requests, replies, rests>>
vars  == <<local, queues, session, lost, rows>>

\* "left" is a connection that nobody will ever serve: both acceptors have used
\* their slots, or the thread of its slot could not be started.  "nums" and
\* "recv" are a session that has its numbers to send and one in its request
\* loop; "over" is a closed connection and "down" a directory that is gone.
\* "mixed" is a connection that is closed or shared with another session since
\* an acceptor closed a descriptor a second time: anything may become of it.
Open == {"backlog", "left", "nums", "recv"}

Sessions == {"none", "over", "down", "mixed"} \cup Open

Init ==
  /\ pc = "dbconnect" /\ stat = FALSE /\ rand_sno = None
  /\ requests = <<>> /\ replies = <<>> /\ rests = {}
  /\ session = "none" /\ lost = FALSE /\ rows \in SUBSET Snos

-----------------------------------------------------------------------------
(* recv() *)

\* The first record of a queue is there for its reader.
Arrived(name, queue) == queue # <<>> /\ name \notin rests

\* It is taken, all of it or its text only.
Takes(name) == rests' = rests \/ (ShortReads /\ rests' = rests \cup {name})

-----------------------------------------------------------------------------
(* The directory *)

\* A connection waits to be accepted.  Both acceptors accept on the clients'
\* port, and the one of the peers starts a session that sends numbers first.
Accept ==
  /\ session = "backlog"
  /\ \/ \E s \in Acceptors : session' = IF s = "peer_server" THEN "nums" ELSE "recv"
     \/ Faults /\ session' = "left"
  /\ UNCHANGED <<local, queues, lost, rows>>

Count == [of |-> "count", sno |-> None]
Lookup(s) == [of |-> "row", sno |-> s]

Status == [of |-> "status", ok |-> FALSE, number |-> 0, key |-> "none"]
Numbers == [of |-> "nums", ok |-> FALSE, number |-> 0, key |-> "none"]

\* A session sends a record; its snd() seems to have worked, or it sends its
\* last words as well and closes.
Sends(record) ==
  \E r \in SndReturns :
    IF r = 0
      THEN replies' = Append(replies, record) /\ session' = "recv"
      ELSE replies' = replies \o <<record, Status>> /\ session' = "over"

\* NUMS:sno:id, asked for or not.
SndNums ==
  /\ session = "nums" /\ Sends(Numbers)
  /\ UNCHANGED <<local, requests, rests, lost, rows>>

\* The columns as fields, printed to a buffer of their own.
AnswerInFields(of, n) ==
  [of |-> of, ok |-> TRUE, number |-> n, key |-> IF of = "row" THEN "pem" ELSE "none"]

\* What sprintf(cmds, "SUCCESS:%s", cmds) makes of n characters: they have no
\* colon (a peer's insert ends at the first one), and "SUCCESS:" is written
\* over the first eight of them before they are copied.  The second field is
\* SUCCESS, and there is a fourth one, SUC or the like, only where up to 20
\* characters are copied one by one.
Answer(of, n) ==
  [of |-> of, ok |-> TRUE, number |-> 0, key |-> IF n \in 17 .. 20 THEN "text" ELSE "none"]

\* The columns a question expects: the first one of whatever row there is, a
\* count or an id, or all three of a peer.
Expected(question) == IF question = Count THEN 1 ELSE 3

Answers(question) ==
  {Answer(question.of, n) : n \in IF question = Count THEN 1 .. MaxDigits ELSE Lengths}

\* What a session may run for it: the question, or what strtok(NULL) finds
\* after another session's strtok(), which is that one's query or NULL.
Queries(question) == {question} \cup IF Faults THEN {Count, Lookup(-1), Lookup(0), None} ELSE {}

\* The columns it gets; NULL and a write (here None too) have no row.
Found(query) == CASE query = None -> 0
                  [] query = Count -> 1
                  [] OTHER -> IF query.sno \in rows THEN 3 ELSE 0

Asked == session = "recv" /\ Arrived("requests", requests)

Serve ==
  /\ Asked /\ ~lost
  /\ \E query \in Queries(Head(requests)) : Found(query) >= Expected(Head(requests))
  /\ requests' = Tail(requests) /\ Takes("requests")
  /\ \E answer \in Answers(Head(requests)) : Sends(answer)
  /\ UNCHANGED <<local, lost, rows>>

ServeSkips ==    \* a session that goes on to the next request, unanswered
  /\ Asked /\ ~lost
  /\ requests' = Tail(requests) /\ Takes("requests")
  /\ UNCHANGED <<local, replies, session, lost, rows>>

\* The query fails: the session ends, with the lock.
ServeFails ==
  /\ Faults /\ Asked /\ ~lost
  /\ requests' = Tail(requests) /\ Takes("requests")
  /\ replies' = Append(replies, Status)
  /\ session' = "over" /\ lost' = TRUE
  /\ UNCHANGED <<local, rows>>

GoesDown == session' = "down" /\ requests' = <<>> /\ UNCHANGED <<local, replies, rests, lost, rows>>

\* A count of bytes taken for the buffer, and columns that are not there.
Crash ==
  /\ Asked
  /\ \/ "count" \in RcvReturns
     \/ ~lost /\ \E query \in Queries(Head(requests)) : Found(query) < Expected(Head(requests))
  /\ GoesDown

\* The session reads the rest of the last request.
CrashOnRest == session = "recv" /\ "requests" \in rests /\ GoesDown

-----------------------------------------------------------------------------
(* Others in the directory *)

\* A signal, or a session that crashes, takes this one with it.
Killed == Faults /\ session \notin {"none", "mixed"} /\ GoesDown

\* Another session's query fails and keeps the lock.
OthersFail ==
  /\ Faults /\ session # "down" /\ lost' = TRUE
  /\ UNCHANGED <<local, queues, session, rows>>

Register(s) ==
  /\ session # "down" /\ ~lost
  /\ rows' = rows \cup {s}
  /\ UNCHANGED <<local, queues, session, lost>>

\* An acceptor closes this descriptor, or one that both this connection and
\* another session have now.
SecondClose ==
  /\ Faults /\ session \in Open \ {"backlog"}
  /\ session' = "mixed"
  /\ UNCHANGED <<local, queues, lost, rows>>

\* The other session gets a request or sends what is meant for its own end.
Stray ==
  /\ session = "mixed"
  /\ \/ requests # <<>> /\ requests' = Tail(requests) /\ UNCHANGED replies
     \/ /\ Len(replies) < MaxReplies
        /\ \E record \in {Status, Numbers} \cup Answers(Count) \cup Answers(Lookup(0)) :
             replies' = Append(replies, record)
        /\ UNCHANGED requests
  /\ UNCHANGED <<local, rests, session, lost, rows>>

-----------------------------------------------------------------------------
(* The client *)

Exits == pc' = "exited" /\ UNCHANGED <<stat, rand_sno>>

Goto(label) == pc' = label /\ UNCHANGED <<stat, rand_sno>>

\* *a=1: get_connect_to_new_peer() notes the failure and goes on.
Fails(label) == pc' = label /\ stat' = TRUE /\ UNCHANGED rand_sno

\* dbconnect() parses a pointer it never set: that it gets to the directory
\* is luck.  connect() succeeds when the connection is in the backlog.
Dbconnect ==
  /\ pc = "dbconnect"
  /\ \/ Goto("gen_keys") /\ session' = "backlog"
     \/ Faults /\ Exits /\ UNCHANGED session
  /\ UNCHANGED <<queues, lost, rows>>

GenKeys ==
  /\ pc = "gen_keys"
  /\ Goto("snd_count") \/ (Faults /\ Exits)
  /\ UNCHANGED <<queues, session, lost, rows>>

\* get_rand_sno() returns -1.
NoSnoUnnoticed == pc' = "snd_lookup" /\ rand_sno' = -1 /\ UNCHANGED stat    \* no *a=1

NoSnoForgets == pc' = "snd_lookup" /\ rand_sno' = None /\ stat' = TRUE    \* no return -1

NoSno == pc' = "snd_lookup" /\ rand_sno' = -1 /\ stat' = TRUE

\* snd() of a question.  If the connection is closed it fails, succeeds for
\* nothing or kills the process.
Snd(question, next, Failed) ==
  /\ \/ /\ session \in Open \cup {"mixed"}
        /\ requests' = Append(requests, question)
        /\ \E r \in SndReturns : IF r = 0 THEN Goto(next) ELSE Failed
     \/ /\ session \notin Open
        /\ UNCHANGED requests
        /\ Failed \/ Exits \/ (0 \in SndReturns /\ Goto(next))
  /\ UNCHANGED <<replies, rests, session, lost, rows>>

SndCount == pc = "snd_count" /\ Snd(Count, "rcv_count", NoSno)

\* randombytes_uniform()
Uniform(n) == IF n <= 1 THEN {0} ELSE 0 .. n - 1

RcvCount ==
  /\ pc = "rcv_count" /\ Arrived("replies", replies)
  /\ \/ /\ "buffer" \in RcvReturns
        /\ IF Head(replies).ok
             THEN /\ rand_sno' \in Uniform(Head(replies).number)
                  /\ pc' = "snd_lookup" /\ UNCHANGED stat
             ELSE NoSno
     \/ "count" \in RcvReturns /\ Exits
  /\ replies' = Tail(replies) /\ Takes("replies")
  /\ UNCHANGED <<requests, session, lost, rows>>

SndLookup == pc = "snd_lookup" /\ Snd(Lookup(rand_sno), "rcv_lookup", Fails("connect"))

\* Without a fourth field write_key_to_file() gets NULL and crashes; one that
\* is no key leaves an error.
RcvLookup ==
  /\ pc = "rcv_lookup" /\ Arrived("replies", replies)
  /\ \/ /\ "buffer" \in RcvReturns
        /\ LET answer == Head(replies) IN
             \/ ~answer.ok /\ Fails("connect")
             \/ answer.ok /\ answer.key = "none" /\ Exits
             \/ answer.ok /\ answer.key # "none"
                  /\ IF answer.key = "pem" THEN Goto("connect") ELSE Fails("connect")
     \/ "count" \in RcvReturns /\ Exits
  /\ replies' = Tail(replies) /\ Takes("replies")
  /\ UNCHANGED <<requests, session, lost, rows>>

\* The client reads the rest of the answer to its count.
RcvRest ==
  /\ pc \in {"rcv_count", "rcv_lookup"} /\ "replies" \in rests
  /\ Exits
  /\ UNCHANGED <<queues, session, lost, rows>>

\* Nothing comes any more.  An error or a count of 0 are NULL; in an empty
\* buffer strtok() finds nothing, and strcmp() crashes.
RcvEndRetries ==    \* a client that tries again
  /\ pc \in {"rcv_count", "rcv_lookup"} /\ replies = <<>> /\ session \notin Open
  /\ UNCHANGED vars

RcvEnd ==
  /\ replies = <<>> /\ "replies" \notin rests /\ session \notin Open
  /\ \/ pc = "rcv_count" /\ NoSno
     \/ pc = "rcv_lookup" /\ Fails("connect")
     \/ pc \in {"rcv_count", "rcv_lookup"} /\ "buffer" \in RcvReturns /\ Exits
  /\ UNCHANGED <<queues, session, lost, rows>>

\* connect_to_new_peer() is called in any case, and main() goes on if every
\* step worked.
Connect ==
  /\ pc = "connect"
  /\ IF stat THEN Exits ELSE Goto("transactions") \/ (Faults /\ Exits)
  /\ UNCHANGED <<queues, session, lost, rows>>

-----------------------------------------------------------------------------
Main ==
  Dbconnect \/ GenKeys \/ SndCount \/ RcvCount \/ SndLookup \/ RcvLookup \/ RcvRest \/ RcvEnd \/ Connect

Session == Accept \/ SndNums \/ Serve \/ ServeFails \/ Crash \/ CrashOnRest

Others == Killed \/ OthersFail \/ (\E s \in Snos : Register(s)) \/ SecondClose \/ Stray

Next == Main \/ Session \/ Others

Spec == Init /\ [][Next]_vars

\* The scheduler runs the client, the acceptors and the session it talks to.
FairSpec == Spec /\ WF_vars(Main) /\ WF_vars(Session)

-----------------------------------------------------------------------------
Reply == [of : {"count", "row", "nums", "status"}, ok : BOOLEAN, number : Nat,
          key : {"none", "text", "pem"}]

\* Every variable has its type, and the client has a number from the draw on.
TypeOK ==
  /\ pc \in {"dbconnect", "gen_keys", "snd_count", "rcv_count", "snd_lookup", "rcv_lookup",
             "connect", "transactions", "exited"}
  /\ stat \in BOOLEAN /\ rand_sno \in {None, -1, 0}
  /\ pc \in {"snd_lookup", "rcv_lookup", "connect"} => rand_sno # None
  /\ requests \in Seq({Count, Lookup(-1), Lookup(0)}) /\ replies \in Seq(Reply)
  /\ rests \subseteq {"requests", "replies"}
  /\ session \in Sessions /\ lost \in BOOLEAN
  /\ rows \subseteq Snos

\* However many peers there are, whichever session answers and whatever fails,
\* the client never has a peer to go on with: the answer it splits into fields
\* has none for the key (query_db.c:31 and 47, get_rand_peer.c:53).
NeverChooses == pc # "transactions"

\* A client that has seen no failure reads a reply to what it asked last, though
\* it counts nothing, its answers carry no tag and a session may begin with a
\* record that nobody asked for, as long as its connection is not mixed up with
\* another one.  What the reply says may be another session's result: this is
\* about which question it answers (get_connect_to_new_peer.c:11-19,
\* peer_run.c:23, cli_run.c:45-55).
AnswersInStep ==
  ~stat /\ session # "mixed" /\ replies # <<>> =>
    /\ pc = "rcv_count" => Head(replies).of # "row"
    /\ pc = "rcv_lookup" => Head(replies).of \notin {"count", "nums"}

\* The client and the session that serves it never wait for each other: while
\* the client receives there is a question on its way or an answer, although
\* the lookup goes out whatever became of the count (get_rand_sno.c:16-21,
\* get_rand_peer.c:27-32, peer_run.c:31-65, cli_run.c:23-60).
AnswerOutstanding ==
  session \in Open /\ pc \in {"rcv_count", "rcv_lookup"} => requests # <<>> \/ replies # <<>>

\* The client ends, unless the session it waits for waits itself for a lock that
\* was lost, nobody will serve its connection or that is mixed up with another
\* one (get_rand_sno.c:21, get_rand_peer.c:32, query_db.c:15-25,
\* cli_server.c:21, peer_server.c:21).
EndsUnlessLeft ==
  <>[](pc = "exited" \/ (lost /\ session = "recv") \/ session \in {"left", "mixed"})

\* Said by the README (line 9): a client is connected to a peer.  Peers are
\* registered and nothing fails.
ConnectsToPeer == pc = "dbconnect" /\ rows = Snos ~> pc = "transactions"
=============================================================================
