---------------------------- MODULE ClientProofs ----------------------------
(* What holds of the client whatever its directory answers. *)
EXTENDS Client, TLAPS

Questions == {Count, Lookup(-1), Lookup(0)}

\* No reply says a number or has a key, so no connection is a success.
Silent(reply) ==
  /\ reply.number = 0 /\ reply.key # "pem"
  /\ reply.of \in {"nums", "status"} => ~reply.ok

SaysNothing ==
  /\ \A i \in 1 .. Len(replies) : Silent(replies[i])
  /\ pc = "connect" => stat

IInv == TypeOK /\ NeverChooses /\ SaysNothing

Unsent == {"dbconnect", "gen_keys", "snd_count"}

Early == pc \in Unsent \cup {"rcv_count"}

\* A connection on which nothing has been sent yet.
Waiting == {"none", "backlog", "left", "nums"}

\* Nothing that belongs before the lookup is on the way, but for the first
\* reply where n is 1.
NoCountFrom(n) ==
  /\ \A i \in 1 .. Len(requests) : requests[i] # Count
  /\ \A i \in 1 + n .. Len(replies) : replies[i].of \notin {"count", "nums"}

\* The count is asked for once and answered before anything else is asked for,
\* unless a failure was seen, and a session's numbers come first.
InOrder ==
  /\ pc = "dbconnect" => session = "none"
  /\ session \in Waiting => replies = <<>>
  /\ session # "mixed" =>
       /\ pc \in Unsent => requests = <<>> /\ \A i \in 1 .. Len(replies) : replies[i].of # "count"
       /\ Early =>
            /\ Len(requests) <= 1 /\ \A i \in 1 .. Len(requests) : requests[i] = Count
            /\ \A i \in 1 .. Len(replies) : replies[i].of # "row"
       /\ Early /\ replies # <<>> /\ replies[1].of = "count" => NoCountFrom(1)
       /\ ~stat /\ pc \in {"snd_lookup", "rcv_lookup"} => session \notin Waiting /\ NoCountFrom(0)

-----------------------------------------------------------------------------
(* Queues *)

LEMMA TailElements ==
  ASSUME NEW S, NEW q \in Seq(S), q # <<>>
  PROVE  /\ Head(q) = q[1] /\ Head(q) \in S /\ 1 \in 1 .. Len(q)
         /\ Tail(q) \in Seq(S) /\ Len(Tail(q)) = Len(q) - 1
         /\ \A i \in 1 .. Len(Tail(q)) : Tail(q)[i] = q[i + 1] /\ i + 1 \in 2 .. Len(q)
  OBVIOUS

LEMMA AppendElements ==
  ASSUME NEW S, NEW q \in Seq(S), NEW e \in S
  PROVE  /\ Append(q, e) \in Seq(S) /\ Append(q, e) # <<>> /\ Len(Append(q, e)) = Len(q) + 1
         /\ \A i \in 1 .. Len(q) : Append(q, e)[i] = q[i]
         /\ Append(q, e)[Len(q) + 1] = e
         /\ \A i \in 1 .. Len(Append(q, e)) :
              Append(q, e)[i] = e \/ (i \in 1 .. Len(q) /\ Append(q, e)[i] = q[i])
  OBVIOUS

LEMMA AppendTwo ==
  ASSUME NEW S, NEW q \in Seq(S), NEW d \in S, NEW e \in S
  PROVE  q \o <<d, e>> = Append(Append(q, d), e)
<1>1. <<d, e>> \in Seq(S) /\ Len(<<d, e>>) = 2 /\ <<d, e>>[1] = d /\ <<d, e>>[2] = e
  OBVIOUS
<1> QED BY <1>1

\* Every record a session sends is a reply that says nothing.
LEMMA RecordsSayNothing ==
  /\ Status \in Reply /\ Silent(Status) /\ Status.of = "status"
  /\ Numbers \in Reply /\ Silent(Numbers) /\ Numbers.of = "nums"
  /\ \A question \in Questions : \A answer \in Answers(question) :
       answer \in Reply /\ Silent(answer) /\ answer.of = question.of
<1>1. Status \in Reply /\ Silent(Status) /\ Numbers \in Reply /\ Silent(Numbers)
  BY DEF Status, Numbers, Reply, Silent
<1>2. ASSUME NEW of \in {"count", "row"}, NEW n
      PROVE  Answer(of, n) \in Reply /\ Silent(Answer(of, n)) /\ Answer(of, n).of = of
  BY DEF Answer, Reply, Silent
<1>3. \A question \in Questions : question.of \in {"count", "row"}
  BY DEF Questions, Count, Lookup
<1> QED BY <1>1, <1>2, <1>3 DEF Answers, Status, Numbers

\* Count is no lookup.
LEMMA QuestionsAre ==
  /\ Count.of = "count" /\ \A s : Lookup(s).of = "row" /\ Lookup(s) # Count
  BY DEF Count, Lookup

\* What Sends(record) leaves on the way.
LEMMA SendsElements ==
  ASSUME NEW record \in Reply, replies \in Seq(Reply), Sends(record)
  PROVE  /\ replies' \in Seq(Reply) /\ replies' # <<>> /\ session' \in {"recv", "over"}
         /\ \A i \in 1 .. Len(replies') :
              replies'[i] \in {record, Status} \/ (i \in 1 .. Len(replies) /\ replies'[i] = replies[i])
         /\ replies # <<>> => replies'[1] = replies[1]
         /\ \A i \in 2 .. Len(replies') :
              \/ replies'[i] = Status
              \/ replies # <<>> /\ replies'[i] = record
              \/ i \in 2 .. Len(replies) /\ replies'[i] = replies[i]
<1>0. Status \in Reply
  BY RecordsSayNothing
<1>1. \/ replies' = Append(replies, record)
      \/ replies' = Append(Append(replies, record), Status)
  BY <1>0, AppendTwo DEF Sends
<1>2. session' \in {"recv", "over"}
  BY DEF Sends
<1>3. replies # <<>> => Len(replies) >= 1
  OBVIOUS
<1>4. replies = <<>> => Len(replies) = 0
  OBVIOUS
<1>5. CASE replies' = Append(replies, record)
  BY <1>2, <1>3, <1>4, <1>5, AppendElements
<1>6. CASE replies' = Append(Append(replies, record), Status)
  <2> DEFINE q == Append(replies, record)
  <2>1. /\ q \in Seq(Reply) /\ Len(q) = Len(replies) + 1 /\ q[Len(replies) + 1] = record
        /\ \A i \in 1 .. Len(replies) : q[i] = replies[i]
    BY AppendElements
  <2>2. /\ replies' \in Seq(Reply) /\ replies' # <<>> /\ Len(replies') = Len(q) + 1
        /\ replies'[Len(q) + 1] = Status
        /\ \A i \in 1 .. Len(q) : replies'[i] = q[i]
    BY <1>0, <1>6, <2>1, AppendElements
  <2> HIDE DEF q
  <2>3. /\ Len(replies) \in Nat /\ Len(replies') = Len(replies) + 2
        /\ replies'[Len(replies) + 1] = record /\ replies'[Len(replies) + 2] = Status
        /\ \A i \in 1 .. Len(replies) : replies'[i] = replies[i]
    BY <2>1, <2>2
  <2> QED BY <1>2, <1>3, <1>4, <2>2, <2>3
<1> QED BY <1>1, <1>5, <1>6

-----------------------------------------------------------------------------
LEMMA ClientInit == Init => IInv /\ InOrder
<1> SUFFICES ASSUME Init PROVE IInv /\ InOrder
  OBVIOUS
<1>1. requests \in Seq(Questions) /\ Len(requests) = 0
  BY DEF Init
<1>2. replies \in Seq(Reply) /\ Len(replies) = 0
  BY DEF Init
<1>3. TypeOK
  BY <1>1, <1>2 DEF Init, TypeOK, Sessions, Questions
<1>4. NeverChooses /\ SaysNothing /\ InOrder
  BY <1>1, <1>2 DEF Init, NeverChooses, SaysNothing, InOrder, Waiting, Unsent, Early
<1> QED BY <1>3, <1>4 DEF IInv

\* What a step of the directory does to the queues: requests are taken or lost,
\* and what is sent says nothing.
LEMMA DirectoryKeeps ==
  ASSUME IInv, UNCHANGED local, requests' \in Seq(Questions), replies' \in Seq(Reply),
         rests' \subseteq {"requests", "replies"}, session' \in Sessions, lost' \in BOOLEAN,
         rows' \subseteq Snos,
         \A i \in 1 .. Len(replies') :
           Silent(replies'[i]) \/ (i \in 1 .. Len(replies) /\ replies'[i] = replies[i])
  PROVE  IInv'
<1>1. TypeOK'
  BY DEF IInv, TypeOK, local, Questions, Count, Lookup
<1>2. SaysNothing'
  BY DEF IInv, SaysNothing, Silent, local
<1> QED BY <1>1, <1>2 DEF IInv, NeverChooses, local

\* The session takes a request and sends a record, or it has only one to send.
LEMMA SendKeeps == IInv /\ (SndNums \/ Serve \/ ServeFails) => IInv'
<1> SUFFICES ASSUME IInv, SndNums \/ Serve \/ ServeFails PROVE IInv'
  OBVIOUS
<1> USE DEF Questions
<1>1. /\ requests \in Seq(Questions) /\ replies \in Seq(Reply)
      /\ rests \subseteq {"requests", "replies"} /\ lost \in BOOLEAN /\ rows \subseteq Snos
  BY DEF IInv, TypeOK
<1>2. requests # <<>> => Head(requests) \in Questions /\ Tail(requests) \in Seq(Questions)
  BY <1>1, TailElements
<1>3. CASE SndNums
  <2>1. Sends(Numbers) /\ UNCHANGED <<local, requests, rests, lost, rows>>
    BY <1>3 DEF SndNums
  <2> QED BY <1>1, <2>1, SendsElements, RecordsSayNothing, DirectoryKeeps DEF Sessions, Open
<1>4. CASE Serve
  <2>1. PICK answer \in Answers(Head(requests)) : Sends(answer)
    BY <1>4 DEF Serve
  <2>2. /\ requests # <<>> /\ requests' = Tail(requests) /\ UNCHANGED <<local, lost, rows>>
        /\ rests' \subseteq {"requests", "replies"}
    BY <1>1, <1>4 DEF Serve, Asked, Arrived, Takes
  <2> QED BY <1>1, <1>2, <2>1, <2>2, SendsElements, RecordsSayNothing, DirectoryKeeps
          DEF Sessions, Open
<1>5. CASE ServeFails
  <2>1. /\ requests # <<>> /\ requests' = Tail(requests) /\ replies' = Append(replies, Status)
        /\ session' = "over" /\ lost' = TRUE /\ UNCHANGED <<local, rows>>
        /\ rests' \subseteq {"requests", "replies"}
    BY <1>1, <1>5 DEF ServeFails, Asked, Arrived, Takes
  <2> QED BY <1>1, <1>2, <2>1, AppendElements, RecordsSayNothing, DirectoryKeeps DEF Sessions
<1> QED BY <1>3, <1>4, <1>5

LEMMA OthersKeep == IInv /\ (Accept \/ Crash \/ CrashOnRest \/ Others) => IInv'
<1> SUFFICES ASSUME IInv, Accept \/ Crash \/ CrashOnRest \/ Others PROVE IInv'
  OBVIOUS
<1> USE DEF Questions
<1>1. /\ requests \in Seq(Questions) /\ replies \in Seq(Reply) /\ session \in Sessions
      /\ rests \subseteq {"requests", "replies"} /\ lost \in BOOLEAN /\ rows \subseteq Snos
  BY DEF IInv, TypeOK
<1>2. CASE Crash \/ CrashOnRest \/ Killed
  <2>1. /\ requests' = <<>> /\ session' = "down" /\ UNCHANGED <<local, replies, rests, lost, rows>>
    BY <1>2 DEF Crash, CrashOnRest, Killed, GoesDown
  <2>2. requests' \in Seq(Questions)
    BY <2>1
  <2> QED BY <1>1, <2>1, <2>2, DirectoryKeeps DEF Sessions
<1>3. CASE Accept \/ OthersFail \/ SecondClose \/ \E s \in Snos : Register(s)
  <2>1. /\ UNCHANGED <<local, requests, replies, rests>> /\ session' \in Sessions
        /\ lost' \in BOOLEAN /\ rows' \subseteq Snos
    BY <1>1, <1>3, ClientAssumption
       DEF Accept, OthersFail, SecondClose, Register, queues, Sessions, Open
  <2> QED BY <1>1, <2>1, DirectoryKeeps
<1>4. CASE Stray
  <2>1. /\ UNCHANGED <<local, rests, session, lost, rows>>
        /\ \/ requests # <<>> /\ requests' = Tail(requests) /\ replies' = replies
           \/ /\ requests' = requests
              /\ \E record \in {Status, Numbers} \cup Answers(Count) \cup Answers(Lookup(0)) :
                   replies' = Append(replies, record)
    BY <1>4 DEF Stray
  <2>2. CASE requests # <<>> /\ requests' = Tail(requests) /\ replies' = replies
    BY <1>1, <2>1, <2>2, TailElements, DirectoryKeeps
  <2>3. CASE requests' = requests /\ ~(requests' = Tail(requests) /\ replies' = replies)
    <3>1. PICK record \in {Status, Numbers} \cup Answers(Count) \cup Answers(Lookup(0)) :
            replies' = Append(replies, record)
      BY <2>1, <2>3
    <3>2. record \in Reply /\ Silent(record)
      BY RecordsSayNothing
    <3>3. /\ replies' \in Seq(Reply)
          /\ \A i \in 1 .. Len(replies') :
               replies'[i] = record \/ (i \in 1 .. Len(replies) /\ replies'[i] = replies[i])
      BY <1>1, <3>1, <3>2, AppendElements
    <3> QED BY <1>1, <2>1, <2>3, <3>2, <3>3, DirectoryKeeps
  <2> QED BY <2>1, <2>2, <2>3
<1> QED BY <1>2, <1>3, <1>4 DEF Others

LEMMA NoneIsNoNumber == None # -1 /\ None # 0
<1>1. -1 \in Int /\ 0 \in Int
  OBVIOUS
<1> QED BY <1>1, ClientAssumption

\* What a step of the client has to keep.
LEMMA TypesKept ==
  ASSUME requests' \in Seq(Questions), replies' \in Seq(Reply),
         rests' \subseteq {"requests", "replies"}, session' \in Sessions, lost' \in BOOLEAN,
         rows' \subseteq Snos, stat' \in BOOLEAN, rand_sno' \in {None, -1, 0},
         pc' \in {"gen_keys", "snd_count", "rcv_count", "snd_lookup", "rcv_lookup", "connect", "exited"},
         pc' \in {"snd_lookup", "rcv_lookup", "connect"} => rand_sno' # None
  PROVE  TypeOK' /\ NeverChooses'
  BY DEF TypeOK, NeverChooses, Questions, Count, Lookup

\* The client's sends: a question, or a failure.
LEMMA SndKeeps == IInv /\ (SndCount \/ SndLookup) => IInv'
<1> SUFFICES ASSUME IInv, SndCount \/ SndLookup PROVE IInv'
  OBVIOUS
<1> USE DEF IInv, TypeOK, Questions
<1>1. UNCHANGED <<replies, rests, session, lost, rows>>
  BY DEF SndCount, SndLookup, Snd
<1>2. CASE SndCount
  <2>1. /\ pc = "snd_count" /\ requests' \in {requests, Append(requests, Count)}
        /\ \/ pc' \in {"rcv_count", "exited"} /\ UNCHANGED <<stat, rand_sno>>
           \/ pc' = "snd_lookup" /\ rand_sno' = -1 /\ stat' = TRUE
    BY <1>2 DEF SndCount, Snd, Goto, NoSno, Exits
  <2>2. requests' \in Seq(Questions)
    BY <2>1, AppendElements
  <2>3. rand_sno' \in {None, -1, 0} /\ stat' \in BOOLEAN
    BY <2>1
  <2>4. pc' \in {"rcv_count", "snd_lookup", "exited"}
    BY <2>1
  <2>5. pc' \in {"snd_lookup", "rcv_lookup", "connect"} => rand_sno' # None
    BY <2>1, NoneIsNoNumber
  <2>6. TypeOK' /\ NeverChooses'
    BY <1>1, <2>2, <2>3, <2>4, <2>5, TypesKept
  <2> QED BY <1>1, <2>4, <2>6 DEF SaysNothing
<1>3. CASE SndLookup
  <2>1. /\ pc = "snd_lookup" /\ requests' \in {requests, Append(requests, Lookup(rand_sno))}
        /\ pc' \in {"rcv_lookup", "connect", "exited"} /\ UNCHANGED rand_sno
        /\ stat' \in BOOLEAN /\ (pc' = "connect" => stat')
    BY <1>3 DEF SndLookup, Snd, Goto, Fails, Exits
  <2>2. Lookup(rand_sno) \in Questions
    BY <2>1, ClientAssumption
  <2>3. requests' \in Seq(Questions)
    BY <2>1, <2>2, AppendElements
  <2> QED BY <1>1, <2>1, <2>3 DEF NeverChooses, SaysNothing, Count, Lookup
<1> QED BY <1>2, <1>3

\* The client's reads: the number drawn is 0, and nothing is a key.
LEMMA RcvKeeps == IInv /\ (RcvCount \/ RcvLookup) => IInv'
<1> SUFFICES ASSUME IInv, RcvCount \/ RcvLookup PROVE IInv'
  OBVIOUS
<1> USE DEF IInv, TypeOK
<1>1. /\ replies # <<>> /\ replies' = Tail(replies)
      /\ UNCHANGED <<requests, session, lost, rows>> /\ rests' \subseteq {"requests", "replies"}
  BY DEF RcvCount, RcvLookup, Arrived, Takes
<1>2. /\ replies' \in Seq(Reply) /\ \A i \in 1 .. Len(replies') : Silent(replies'[i])
      /\ Silent(Head(replies))
  BY <1>1, TailElements DEF SaysNothing
<1>3. CASE RcvCount
  <2>1. Uniform(Head(replies).number) = {0}
    BY <1>2 DEF Uniform, Silent
  <2>2. /\ pc = "rcv_count"
        /\ \/ pc' = "exited" /\ UNCHANGED <<stat, rand_sno>>
           \/ pc' = "snd_lookup" /\ rand_sno' \in {-1, 0} /\ stat' \in BOOLEAN
    BY <1>3, <2>1 DEF RcvCount, Exits, NoSno
  <2> QED BY <1>1, <1>2, <2>2, ClientAssumption DEF NeverChooses, SaysNothing, Count, Lookup
<1>4. CASE RcvLookup
  <2>1. /\ pc = "rcv_lookup" /\ UNCHANGED rand_sno
        /\ \/ pc' = "exited" /\ UNCHANGED stat
           \/ pc' = "connect" /\ stat' = TRUE
    BY <1>2, <1>4 DEF RcvLookup, Exits, Fails, Silent
  <2> QED BY <1>1, <1>2, <2>1 DEF NeverChooses, SaysNothing, Count, Lookup
<1> QED BY <1>3, <1>4

\* The steps of the client that leave the queues alone.
LEMMA LocalKeeps == IInv /\ (Dbconnect \/ GenKeys \/ RcvRest \/ RcvEnd \/ Connect) => IInv'
<1> SUFFICES ASSUME IInv, Dbconnect \/ GenKeys \/ RcvRest \/ RcvEnd \/ Connect PROVE IInv'
  OBVIOUS
<1>1. UNCHANGED <<requests, replies, rests, lost, rows>> /\ session' \in {session, "backlog"}
  BY DEF Dbconnect, GenKeys, RcvRest, RcvEnd, Connect, queues
<1>2. \/ pc' \in {"gen_keys", "snd_count", "exited"} /\ UNCHANGED <<stat, rand_sno>>
      \/ pc' = "snd_lookup" /\ rand_sno' = -1 /\ stat' = TRUE
      \/ pc = "rcv_lookup" /\ pc' = "connect" /\ stat' = TRUE /\ UNCHANGED rand_sno
      \/ pc = "connect" /\ ~stat
  BY DEF Dbconnect, GenKeys, RcvRest, RcvEnd, Connect, Goto, Exits, NoSno, Fails
<1>3. pc = "connect" => stat
  BY DEF IInv, SaysNothing
<1>4. /\ pc' \in {"gen_keys", "snd_count", "snd_lookup", "connect", "exited"}
      /\ stat' \in BOOLEAN /\ (pc' = "connect" => stat')
  BY <1>2, <1>3 DEF IInv, TypeOK
<1>5. /\ rand_sno' \in {None, -1, 0}
      /\ pc' \in {"snd_lookup", "rcv_lookup", "connect"} => rand_sno' # None
  BY <1>2, <1>3, NoneIsNoNumber DEF IInv, TypeOK
<1>6. TypeOK' /\ NeverChooses'
  <2>1. requests' \in Seq(Questions) /\ replies' \in Seq(Reply)
    BY <1>1 DEF IInv, TypeOK, Questions
  <2>2. rests' \subseteq {"requests", "replies"} /\ lost' \in BOOLEAN /\ rows' \subseteq Snos
    BY <1>1 DEF IInv, TypeOK
  <2>3. session' \in Sessions
    BY <1>1 DEF IInv, TypeOK, Sessions, Open
  <2> QED BY <1>4, <1>5, <2>1, <2>2, <2>3, TypesKept
<1> QED BY <1>1, <1>4, <1>6 DEF IInv, SaysNothing

LEMMA ClientNext == IInv /\ [Next]_vars => IInv'
<1> SUFFICES ASSUME IInv, [Next]_vars PROVE IInv'
  OBVIOUS
<1>1. CASE UNCHANGED vars
  BY <1>1 DEF vars, local, queues, IInv, TypeOK, NeverChooses, SaysNothing, Silent, Count, Lookup
<1> QED BY <1>1, SendKeeps, OthersKeep, SndKeeps, RcvKeeps, LocalKeeps DEF Next, Main, Session

LEMMA ClientSafe == Spec => []IInv
  BY ClientInit, ClientNext, PTL DEF Spec

\* Every variable keeps its type: the one number ever drawn is 0.
THEOREM ClientTypes == Spec => []TypeOK
<1>1. IInv => TypeOK
  BY DEF IInv
<1> QED BY <1>1, ClientSafe, PTL

\* Whatever is registered, whichever session answers and whatever fails, the
\* client never gets past its first choice of a peer: no reply has a field for
\* the key.
THEOREM ClientNeverChooses == Spec => []NeverChooses
<1>1. IInv => NeverChooses
  BY DEF IInv
<1> QED BY <1>1, ClientSafe, PTL

-----------------------------------------------------------------------------
(* The order of questions and answers *)

\* A session sends its numbers before anything else.
LEMMA OrderNums == IInv /\ InOrder /\ SndNums => InOrder'
<1> SUFFICES ASSUME IInv, InOrder, SndNums PROVE InOrder'
  OBVIOUS
<1>1. /\ session = "nums" /\ Sends(Numbers) /\ UNCHANGED <<pc, stat, rand_sno, requests>>
      /\ replies \in Seq(Reply)
  BY DEF SndNums, local, IInv, TypeOK
<1>2. replies = <<>>
  BY <1>1 DEF InOrder, Waiting
<1>3. /\ replies' \in Seq(Reply) /\ session' \in {"recv", "over"}
      /\ \A i \in 1 .. Len(replies') : replies'[i] \in {Numbers, Status}
      /\ replies' # <<>> => 1 \in 1 .. Len(replies')
  BY <1>1, <1>2, SendsElements, RecordsSayNothing
<1>4. \A i \in 1 .. Len(replies') : replies'[i].of \in {"nums", "status"}
  BY <1>3, RecordsSayNothing
<1> QED BY <1>1, <1>3, <1>4 DEF InOrder, Waiting, Early

\* A session takes one request and answers it with a record of its own, or
\* with its last words.
LEMMA OrderServe == IInv /\ InOrder /\ (Serve \/ ServeFails) => InOrder'
<1> SUFFICES ASSUME IInv, InOrder, Serve \/ ServeFails PROVE InOrder'
  OBVIOUS
<1>1. /\ requests # <<>> /\ requests' = Tail(requests) /\ UNCHANGED <<pc, stat, rand_sno>>
      /\ session = "recv" /\ requests \in Seq(Questions) /\ replies \in Seq(Reply)
  BY DEF Serve, ServeFails, Asked, Arrived, local, IInv, TypeOK, Questions
<1>2. /\ Head(requests) = requests[1] /\ 1 \in 1 .. Len(requests) /\ Head(requests) \in Questions
      /\ Len(requests') = Len(requests) - 1 /\ Len(requests) \in Nat
      /\ \A i \in 1 .. Len(requests') : requests'[i] = requests[i + 1] /\ i + 1 \in 2 .. Len(requests)
  BY <1>1, TailElements
<1> DEFINE Of == {Head(requests).of, "status"}
<1>3. /\ replies' # <<>> /\ session' \in {"recv", "over"} /\ replies' \in Seq(Reply)
      /\ \A i \in 1 .. Len(replies') :
           replies'[i].of \in Of \/ (i \in 1 .. Len(replies) /\ replies'[i] = replies[i])
      /\ replies # <<>> => replies'[1] = replies[1]
      /\ \A i \in 2 .. Len(replies') :
           \/ replies'[i].of = "status"
           \/ replies # <<>> /\ replies'[i].of \in Of
           \/ i \in 2 .. Len(replies) /\ replies'[i] = replies[i]
  <2>1. CASE Serve
    <3>1. PICK answer \in Answers(Head(requests)) : Sends(answer)
      BY <2>1 DEF Serve
    <3>2. answer \in Reply /\ answer.of = Head(requests).of /\ Status.of = "status"
      BY <1>2, <3>1, RecordsSayNothing
    <3> QED BY <1>1, <3>1, <3>2, SendsElements
  <2>2. CASE ServeFails
    <3>1. replies' = Append(replies, Status) /\ session' = "over"
      BY <2>2 DEF ServeFails
    <3>2. Status \in Reply /\ Status.of = "status"
      BY RecordsSayNothing
    <3>3. /\ replies' \in Seq(Reply) /\ replies' # <<>> /\ Len(replies') = Len(replies) + 1
          /\ replies'[Len(replies) + 1] = Status
          /\ \A i \in 1 .. Len(replies) : replies'[i] = replies[i]
      BY <1>1, <3>1, <3>2, AppendElements
    <3>4. replies # <<>> => 1 \in 1 .. Len(replies)
      BY <1>1
    <3>5. Len(replies) \in Nat
      BY <1>1
    <3> QED BY <3>1, <3>2, <3>3, <3>4, <3>5
  <2> QED BY <2>1, <2>2
<1>4. \/ Head(requests) = Count /\ Of = {"count", "status"}
      \/ Head(requests) # Count /\ Of = {"row", "status"}
  BY <1>2, QuestionsAre DEF Questions
<1> HIDE DEF Of
<1>5. pc \notin Unsent
  BY <1>1 DEF InOrder
<1>6. Early => /\ Head(requests) = Count /\ requests[1] = Count /\ Len(requests') = 0
               /\ \A i \in 1 .. Len(replies) : replies[i].of # "row"
  BY <1>1, <1>2 DEF InOrder
<1>7. Early => \A i \in 1 .. Len(replies') : replies'[i].of # "row"
  BY <1>3, <1>4, <1>6
<1>8. Early /\ replies'[1].of = "count" => NoCountFrom(1)'
  <2> SUFFICES ASSUME Early, replies'[1].of = "count" PROVE NoCountFrom(1)'
    OBVIOUS
  <2>1. replies = <<>>
    <3> SUFFICES ASSUME replies # <<>> PROVE FALSE
      OBVIOUS
    <3>1. \A i \in 1 .. Len(requests) : requests[i] # Count
      BY <1>1, <1>3 DEF InOrder, NoCountFrom
    <3> QED BY <1>2, <1>6, <3>1
  <2>2. \A i \in 2 .. Len(replies') : replies'[i].of = "status"
    BY <1>3, <2>1
  <2> QED BY <1>6, <2>2 DEF NoCountFrom
<1>9. ~stat /\ pc \in {"snd_lookup", "rcv_lookup"} => session' \notin Waiting /\ NoCountFrom(0)'
  <2> SUFFICES ASSUME ~stat, pc \in {"snd_lookup", "rcv_lookup"}
               PROVE  session' \notin Waiting /\ NoCountFrom(0)'
    OBVIOUS
  <2>1. NoCountFrom(0)
    BY <1>1 DEF InOrder
  <2>2. Head(requests) # Count /\ \A i \in 1 .. Len(requests') : requests'[i] # Count
    BY <1>2, <2>1 DEF NoCountFrom
  <2>3. \A i \in 1 .. Len(replies') : replies'[i].of \notin {"count", "nums"}
    BY <1>3, <1>4, <2>1, <2>2 DEF NoCountFrom
  <2> QED BY <1>3, <2>2, <2>3 DEF NoCountFrom, Waiting
<1>10. session' \notin Waiting
  BY <1>3 DEF Waiting
<1>11. Early' = Early /\ pc' = pc /\ stat' = stat
  BY <1>1 DEF Early
<1> QED BY <1>5, <1>6, <1>7, <1>8, <1>9, <1>10, <1>11 DEF InOrder, Early, Unsent

\* The client's questions.
LEMMA OrderSnd == IInv /\ InOrder /\ (SndCount \/ SndLookup) => InOrder'
<1> SUFFICES ASSUME IInv, InOrder, SndCount \/ SndLookup PROVE InOrder'
  OBVIOUS
<1>1. UNCHANGED <<replies, session>> /\ requests \in Seq(Questions)
  BY DEF SndCount, SndLookup, Snd, IInv, TypeOK, Questions
<1>2. CASE SndCount
  <2>1. /\ pc = "snd_count" /\ requests' \in {requests, Append(requests, Count)}
        /\ \/ pc' \in {"rcv_count", "exited"} /\ UNCHANGED stat
           \/ pc' = "snd_lookup" /\ stat' = TRUE
    BY <1>2 DEF SndCount, Snd, Goto, NoSno, Exits
  <2>2. CASE session = "mixed"
    BY <1>1, <2>1, <2>2 DEF InOrder, Waiting
  <2>3. CASE session # "mixed"
    <3>1. /\ requests = <<>> /\ \A i \in 1 .. Len(replies) : replies[i].of # "count"
          /\ \A i \in 1 .. Len(replies) : replies[i].of # "row"
      BY <2>1, <2>3 DEF InOrder, Unsent, Early
    <3>2. requests' = <<>> \/ (Len(requests') = 1 /\ requests'[1] = Count)
      BY <2>1, <3>1
    <3>3. Len(requests') <= 1 /\ \A i \in 1 .. Len(requests') : requests'[i] = Count
      BY <3>2
    <3>4. replies # <<>> => replies[1].of # "count"
      <4>1. replies # <<>> => 1 \in 1 .. Len(replies)
        BY DEF IInv, TypeOK
      <4> QED BY <3>1, <4>1
    <3> QED BY <1>1, <2>1, <3>1, <3>3, <3>4 DEF InOrder, Unsent, Early, Waiting
  <2> QED BY <2>2, <2>3
<1>3. CASE SndLookup
  <2>1. /\ pc = "snd_lookup" /\ requests' \in {requests, Append(requests, Lookup(rand_sno))}
        /\ pc' \in {"rcv_lookup", "connect", "exited"} /\ (pc' = "rcv_lookup" => stat' = stat)
    BY <1>3 DEF SndLookup, Snd, Goto, Fails, Exits
  <2>2. Lookup(rand_sno) \in Questions /\ Lookup(rand_sno) # Count
    BY <2>1, QuestionsAre, ClientAssumption DEF IInv, TypeOK, Questions
  <2>3. (\A i \in 1 .. Len(requests) : requests[i] # Count)
          => \A i \in 1 .. Len(requests') : requests'[i] # Count
    BY <1>1, <2>1, <2>2, AppendElements
  <2> QED BY <1>1, <2>1, <2>3 DEF InOrder, NoCountFrom, Unsent, Early
<1> QED BY <1>2, <1>3

\* The client goes on without a failure only on the answer to its count, and
\* nothing that belongs before it follows.
LEMMA OrderRcv == IInv /\ InOrder /\ (RcvCount \/ RcvLookup) => InOrder'
<1> SUFFICES ASSUME IInv, InOrder, RcvCount \/ RcvLookup PROVE InOrder'
  OBVIOUS
<1>1. /\ replies # <<>> /\ replies' = Tail(replies) /\ UNCHANGED <<requests, session>>
      /\ replies \in Seq(Reply)
  BY DEF RcvCount, RcvLookup, Arrived, IInv, TypeOK
<1>2. session \notin Waiting
  BY <1>1 DEF InOrder
<1>3. CASE RcvCount
  <2>1. /\ pc = "rcv_count"
        /\ \/ pc' = "exited"
           \/ pc' = "snd_lookup" /\ stat' = TRUE
           \/ pc' = "snd_lookup" /\ Head(replies).ok
    BY <1>3 DEF RcvCount, Exits, NoSno
  <2>2. session # "mixed" /\ Head(replies).ok => NoCountFrom(0)'
    <3> SUFFICES ASSUME session # "mixed", Head(replies).ok PROVE NoCountFrom(0)'
      OBVIOUS
    <3>1. Head(replies) = replies[1] /\ 1 \in 1 .. Len(replies) /\ Head(replies) \in Reply
      BY <1>1, TailElements
    <3>2. replies[1].of # "row"
      BY <2>1, <3>1 DEF InOrder, Early
    <3>3. replies[1].of = "count"
      BY <3>1, <3>2 DEF IInv, SaysNothing, Silent, Reply
    <3>4. NoCountFrom(1)
      BY <1>1, <2>1, <3>3 DEF InOrder, Early
    <3>5. /\ Len(replies') = Len(replies) - 1
          /\ \A i \in 1 .. Len(replies') : replies'[i] = replies[i + 1] /\ i + 1 \in 2 .. Len(replies)
      BY <1>1, TailElements
    <3> QED BY <1>1, <3>4, <3>5 DEF NoCountFrom
  <2> QED BY <1>1, <1>2, <2>1, <2>2 DEF InOrder, Unsent, Early
<1>4. CASE RcvLookup
  <2>1. pc' \in {"exited", "connect"}
    BY <1>4 DEF RcvLookup, Exits, Fails, Goto
  <2> QED BY <1>1, <1>2, <2>1 DEF InOrder, Unsent, Early
<1> QED BY <1>3, <1>4

\* The steps of the client that leave the queues alone.
LEMMA OrderLocal ==
  IInv /\ InOrder /\ (Dbconnect \/ GenKeys \/ RcvRest \/ RcvEnd \/ Connect) => InOrder'
<1> SUFFICES ASSUME IInv, InOrder, Dbconnect \/ GenKeys \/ RcvRest \/ RcvEnd \/ Connect
             PROVE  InOrder'
  OBVIOUS
<1>1. UNCHANGED <<requests, replies>>
  BY DEF Dbconnect, GenKeys, RcvRest, RcvEnd, Connect, queues
<1>2. CASE Dbconnect
  <2>1. /\ pc = "dbconnect" /\ session = "none" /\ session' \in {"none", "backlog"}
        /\ pc' \in {"gen_keys", "exited"}
    BY <1>2 DEF Dbconnect, Goto, Exits, InOrder
  <2> QED BY <1>1, <2>1 DEF InOrder, Unsent, Early, Waiting, NoCountFrom
<1>3. CASE ~Dbconnect
  <2>1. /\ session' = session
        /\ \/ pc \in Unsent /\ pc' = "snd_count"
           \/ pc' = "snd_lookup" /\ stat' = TRUE
           \/ pc' \in {"connect", "exited", "transactions"}
    BY <1>3 DEF GenKeys, RcvRest, RcvEnd, Connect, Goto, Exits, NoSno, Fails, Unsent
  <2> QED BY <1>1, <2>1 DEF InOrder, Unsent, Early, Waiting, NoCountFrom
<1> QED BY <1>2, <1>3

\* Others only take requests away and move the connection on, or mix it up
\* with another one.
LEMMA OrderOthers == IInv /\ InOrder /\ (Accept \/ Crash \/ CrashOnRest \/ Others) => InOrder'
<1> SUFFICES ASSUME IInv, InOrder, Accept \/ Crash \/ CrashOnRest \/ Others PROVE InOrder'
  OBVIOUS
<1>1. CASE Stray
  BY <1>1 DEF Stray, local, InOrder, Waiting
<1>2. CASE SecondClose
  BY <1>2 DEF SecondClose, local, queues, InOrder, Waiting, Open
<1>3. CASE ~Stray /\ ~SecondClose
  <2>1. /\ UNCHANGED <<pc, stat, replies>> /\ requests' \in {requests, <<>>}
        /\ \/ session' = session
           \/ session = "backlog" /\ session' \in {"left", "nums", "recv"}
           \/ session \notin {"none", "mixed"} /\ session' = "down"
    <3>1. CASE Crash \/ CrashOnRest \/ Killed
      BY <3>1 DEF Crash, CrashOnRest, Killed, GoesDown, Asked, local
    <3>2. CASE Accept
      BY <3>2, ClientAssumption DEF Accept, local, queues
    <3>3. CASE OthersFail \/ \E s \in Snos : Register(s)
      BY <3>3 DEF OthersFail, Register, local, queues
    <3> QED BY <1>3, <3>1, <3>2, <3>3 DEF Others
  <2>2. /\ session' \in Waiting => session \in Waiting
        /\ session' # "mixed" => session # "mixed"
        /\ session = "none" => session' = "none"
    BY <2>1 DEF Waiting
  <2>3. /\ Len(requests') <= Len(requests)
        /\ \A i \in 1 .. Len(requests') : i \in 1 .. Len(requests) /\ requests'[i] = requests[i]
        /\ requests = <<>> => requests' = <<>>
    <3>1. CASE requests' = requests
      BY <3>1 DEF IInv, TypeOK
    <3>2. CASE requests' = <<>>
      BY <3>2 DEF IInv, TypeOK
    <3> QED BY <2>1, <3>1, <3>2
  <2>4. Len(requests) \in Nat /\ Len(requests') \in Nat
    BY <2>1 DEF IInv, TypeOK
  <2>5. \A n \in {0, 1} : NoCountFrom(n) => NoCountFrom(n)'
    BY <2>1, <2>3 DEF NoCountFrom
  <2>6. Len(requests) <= 1 => Len(requests') <= 1
    BY <2>3, <2>4
  <2> QED BY <2>1, <2>2, <2>3, <2>5, <2>6 DEF InOrder, Early
<1> QED BY <1>1, <1>2, <1>3

LEMMA OrderNext == IInv /\ InOrder /\ [Next]_vars => InOrder'
<1> SUFFICES ASSUME IInv, InOrder, [Next]_vars PROVE InOrder'
  OBVIOUS
<1>1. CASE UNCHANGED vars
  BY <1>1 DEF vars, local, queues, InOrder, Early, NoCountFrom
<1> QED BY <1>1, OrderNums, OrderServe, OrderSnd, OrderRcv, OrderLocal, OrderOthers
        DEF Next, Main, Session

\* However the session begins, whatever fails and whatever the directory runs
\* for it, a client that has seen no failure on a connection of its own never
\* takes the answer to one of its questions for the answer to the other.
THEOREM ClientInStep == Spec => []AnswersInStep
<1>1. IInv /\ InOrder => AnswersInStep
  <2> SUFFICES ASSUME IInv, InOrder, ~stat, session # "mixed", replies # <<>>
               PROVE  /\ pc = "rcv_count" => Head(replies).of # "row"
                      /\ pc = "rcv_lookup" => Head(replies).of \notin {"count", "nums"}
    BY DEF AnswersInStep
  <2>1. Head(replies) = replies[1] /\ 1 \in 1 .. Len(replies)
    BY TailElements DEF IInv, TypeOK
  <2> QED BY <2>1 DEF InOrder, Early, NoCountFrom
<1>2. Spec => []InOrder
  BY ClientInit, ClientSafe, OrderNext, PTL DEF Spec
<1> QED BY <1>1, <1>2, ClientSafe, PTL

-----------------------------------------------------------------------------
(* Nobody waits for nothing *)

LEMMA OutstandingNext == IInv /\ AnswerOutstanding /\ [Next]_vars => AnswerOutstanding'
<1> SUFFICES ASSUME IInv, AnswerOutstanding, [Next]_vars,
                    session' \in Open, pc' \in {"rcv_count", "rcv_lookup"}
             PROVE  requests' # <<>> \/ replies' # <<>>
  BY DEF AnswerOutstanding
<1>1. requests \in Seq(Questions) /\ replies \in Seq(Reply)
  BY DEF IInv, TypeOK, Questions
<1>2. CASE UNCHANGED <<pc, session, requests, replies>>
  BY <1>2 DEF AnswerOutstanding
<1>3. CASE SndCount \/ SndLookup
  <2>1. session' = session
    BY <1>3 DEF SndCount, SndLookup, Snd
  <2>2. requests' \in {Append(requests, Count), Append(requests, Lookup(rand_sno))}
    BY <1>3, <2>1 DEF SndCount, SndLookup, Snd
  <2> QED BY <1>1, <2>2
<1>4. CASE Dbconnect \/ GenKeys \/ RcvCount \/ RcvLookup \/ RcvRest \/ RcvEnd \/ Connect
  BY <1>4 DEF Dbconnect, GenKeys, RcvCount, RcvLookup, RcvRest, RcvEnd, Connect,
              Goto, Fails, Exits, NoSno
<1>5. CASE SndNums \/ Serve
  <2>1. PICK record \in Reply : Sends(record)
    <3>1. CASE SndNums
      BY <3>1, RecordsSayNothing DEF SndNums
    <3>2. CASE Serve
      <4>1. Head(requests) \in Questions
        BY <1>1, <3>2, TailElements DEF Serve, Asked, Arrived
      <4> QED BY <3>2, <4>1, RecordsSayNothing DEF Serve
    <3> QED BY <1>5, <3>1, <3>2
  <2> QED BY <1>1, <2>1, SendsElements
<1>6. CASE ServeFails \/ Crash \/ CrashOnRest \/ Killed \/ SecondClose \/ Stray
  BY <1>6 DEF ServeFails, Crash, CrashOnRest, Killed, GoesDown, SecondClose, Stray, Open
<1>7. CASE Accept
  BY <1>7 DEF Accept, local, queues, Open, AnswerOutstanding
<1>8. CASE OthersFail \/ \E s \in Snos : Register(s)
  BY <1>2, <1>8 DEF OthersFail, Register, local, queues
<1>9. CASE UNCHANGED vars
  BY <1>2, <1>9 DEF vars, local, queues
<1> QED BY <1>3, <1>4, <1>5, <1>6, <1>7, <1>8, <1>9 DEF Next, Main, Session, Others

\* Whatever seems to have failed and whatever others do, the client and the
\* session of its connection never wait for each other.
THEOREM ClientIsAnswered == Spec => []AnswerOutstanding
<1>1. Init => AnswerOutstanding
  BY DEF Init, AnswerOutstanding
<1> QED BY <1>1, ClientSafe, OutstandingNext, PTL DEF Spec
=============================================================================
