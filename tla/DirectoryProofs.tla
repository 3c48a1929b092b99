-------------------------- MODULE DirectoryProofs --------------------------
(***************************************************************************)
(* Proofs about the directory, for every value of its constants.           *)
(***************************************************************************)
EXTENDS DirectoryProperties, TLAPS

USE DirectoryAssumption DEF net, shared, slots, locals

-----------------------------------------------------------------------------
(* Type correctness. *)

LEMMA SlotIsThread ==
  ASSUME NEW s \in Servers, NEW i \in 0 .. Slots - 1 PROVE <<s, i>> \in Threads
  BY DEF Threads

LEMMA PartsAreRequests == Cut \in Requests /\ Remainder \in Requests
  BY DEF Cut, Remainder, Requests

\* What is behind the first of a queue, with a part put before it.
LEMMA TailElements ==
  ASSUME NEW S, NEW q \in Seq(S), q # <<>>
  PROVE  /\ Head(q) \in S /\ Tail(q) \in Seq(S) /\ Len(Tail(q)) = Len(q) - 1
         /\ <<>> \o Tail(q) = Tail(q)
         /\ \A e \in S : <<e>> \o Tail(q) \in Seq(S)
         /\ \A i \in 1 .. Len(Tail(q)) : Tail(q)[i] = q[i + 1] /\ i + 1 \in 1 .. Len(q)
<1>1. Tail(q) \in Seq(S) /\ Len(Tail(q)) = Len(q) - 1 /\ Head(q) = q[1] /\ Len(q) \in Nat \ {0}
  OBVIOUS
<1>2. \A i \in 1 .. Len(Tail(q)) : Tail(q)[i] = q[i + 1] /\ i + 1 \in 1 .. Len(q)
  BY <1>1
<1>3. <<>> \o Tail(q) = Tail(q)
  BY <1>1
<1>4. ASSUME NEW e \in S PROVE <<e>> \o Tail(q) \in Seq(S)
  BY <1>1
<1> QED BY <1>1, <1>2, <1>3, <1>4

LEMMA TypeInit == Init => TypeOK
<1> SUFFICES ASSUME Init PROVE TypeOK
  OBVIOUS
<1>1. TypeSlots
  BY DEF Init, TypeSlots, OfNone, Servers
<1>2. TypeLocals /\ LocalsReady
  BY DEF Init, TypeLocals, LocalsReady, OfNone, Requested
<1>3. TypeShared
  BY DEF Init, TypeShared, Requested
<1>4. TypeWorld
  BY DEF Init, TypeWorld
<1>5. TypeNet
  BY DEF Init, TypeNet, Requested
<1> QED BY <1>1, <1>2, <1>3, <1>4, <1>5 DEF TypeOK

LEMMA TypeEnds == TypeOK /\ ProcessEnds => TypeOK'
<1> SUFFICES ASSUME TypeOK, ProcessEnds PROVE TypeOK'
  OBVIOUS
<1>1. TypeSlots'
  BY DEF ProcessEnds, TypeSlots, OfNone, Servers
<1>2. TypeLocals' /\ LocalsReady'
  BY DEF ProcessEnds, TypeLocals, LocalsReady, OfNone, Requested
<1>3. TypeShared'
  BY DEF ProcessEnds, ResetsAllocator, TypeShared, Requested
<1>4. TypeWorld'
  <2>1. /\ fd' \in [Fds -> Conns \cup {None}]
        /\ backlog' \in [{"peers", "clients"} -> Seq(Conns)]
    BY DEF ProcessEnds
  <2>2. up' \in BOOLEAN /\ life' \in 1 .. Lives /\ peers' \subseteq Nums
    BY DEF TypeOK, TypeWorld, ProcessEnds
  <2> QED BY <2>1, <2>2 DEF TypeWorld
<1>5. TypeNet'
  BY DEF TypeOK, ProcessEnds, TypeNet, Requested
<1> QED BY <1>1, <1>2, <1>3, <1>4, <1>5 DEF TypeOK

LEMMA TypeAcceptor ==
  ASSUME TypeOK, NEW s \in Servers, Acceptor(s) PROVE TypeOK'
<1> USE DEF TypeOK
<1>1. CASE Accept(s)
  <2> DEFINE t == <<s, cnt[s]>>
  <2>1. cnt[s] \in 0 .. Slots - 1
    BY <1>1 DEF TypeSlots, Accept, Accepting
  <2>2. t \in Threads
    BY <2>1, SlotIsThread
  <2>3. TypeSlots'
    <3>1. cnt' = [cnt EXCEPT ![s] = @ + 1] /\ jn' = jn
      BY <1>1 DEF Accept
    <3>2. cnt' \in [Servers -> 0 .. Slots]
      BY <2>1, <3>1 DEF TypeSlots
    <3>3. PICK f \in FreeFds : sock' = [sock EXCEPT ![t] = f]
      BY <1>1 DEF Accept
    <3>4. addr' = [addr EXCEPT ![t] = Head(backlog["clients"])]
      BY <1>1 DEF Accept
    <3>5. Head(backlog["clients"]) \in Conns /\ f \in Fds
      BY <1>1, <3>3 DEF Accept, FreeFds, TypeWorld
    <3> QED BY <2>2, <3>1, <3>2, <3>3, <3>4, <3>5 DEF TypeSlots
  <2>4. TypeLocals' /\ LocalsReady'
    BY <1>1, <2>2 DEF TypeLocals, LocalsReady, Accept, Goto, Entry, Active
  <2>5. TypeWorld'
    BY <1>1 DEF TypeWorld, Accept, FreeFds
  <2>6. TypeShared' /\ TypeNet'
    BY <1>1 DEF TypeShared, TypeNet, Accept
  <2> QED BY <2>3, <2>4, <2>5, <2>6
<1>2. CASE AcceptFails(s)
  <2>1. cnt[s] \in 0 .. Slots - 1
    BY <1>2 DEF TypeSlots, AcceptFails, Accepting
  <2>2. <<s, cnt[s]>> \in Threads
    BY <2>1, SlotIsThread
  <2>3. TypeSlots'
    BY <1>2, <2>1 DEF TypeSlots, AcceptFails
  <2>4. TypeLocals' /\ LocalsReady'
    BY <1>2, <2>2 DEF TypeLocals, LocalsReady, AcceptFails, Goto
  <2>5. TypeWorld'
    <3>1. backlog["clients"] # <<>> =>
            Tail(backlog["clients"]) \in Seq(Conns)
      BY DEF TypeWorld
    <3>2. backlog' \in [{"peers", "clients"} -> Seq(Conns)]
      BY <1>2, <3>1 DEF TypeWorld, AcceptFails
    <3> QED BY <1>2, <3>2 DEF TypeWorld, AcceptFails
  <2>6. TypeShared' /\ TypeNet'
    BY <1>2 DEF TypeShared, TypeNet, AcceptFails
  <2> QED BY <2>3, <2>4, <2>5, <2>6
<1>3. CASE Join(s)
  <2>1. TypeSlots'
    BY <1>3 DEF TypeSlots, Join, Joining
  <2>2. TypeWorld'
    BY <1>3 DEF TypeWorld, Join, Closed
  <2>3. TypeLocals' /\ LocalsReady' /\ TypeShared' /\ TypeNet'
    BY <1>3 DEF TypeLocals, LocalsReady, TypeShared, TypeNet, Join
  <2> QED BY <2>1, <2>2, <2>3
<1>4. CASE JoinFails(s) /\ ~ProcessEnds
  <2>0. jn[s] \in 0 .. Slots - 1
    BY <1>4 DEF TypeSlots, JoinFails, Joining
  <2>1. TypeSlots'
    BY <1>4, <2>0 DEF TypeSlots, JoinFails
  <2>2. TypeWorld' /\ TypeLocals' /\ LocalsReady' /\ TypeShared' /\ TypeNet'
    BY <1>4 DEF TypeWorld, TypeLocals, LocalsReady, TypeShared, TypeNet, JoinFails
  <2> QED BY <2>1, <2>2
<1>5. CASE JoinsAnother(s)
  <2>1. TypeSlots'
    BY <1>5 DEF TypeSlots, JoinsAnother, Joining
  <2>2. TypeWorld' /\ TypeShared' /\ TypeNet'
    BY <1>5 DEF TypeWorld, TypeShared, TypeNet, JoinsAnother, Closed
  <2>3. TypeLocals' /\ LocalsReady'
    BY <1>5 DEF TypeLocals, LocalsReady, JoinsAnother, Goto
  <2> QED BY <2>1, <2>2, <2>3
<1> QED BY <1>1, <1>2, <1>3, <1>4, <1>5, TypeEnds DEF Acceptor

LEMMA TypeSession ==
  ASSUME TypeOK, NEW t \in Threads, Session(t) PROVE TypeOK'
<1>0. TypeSlots /\ TypeLocals /\ TypeShared /\ TypeWorld /\ TypeNet /\ LocalsReady
  BY DEF TypeOK
<1>1. CASE ProcessEnds
  BY <1>1, TypeEnds
<1>2. CASE ~ProcessEnds
  <2> USE <1>0, <1>2
  <2>1. CASE LockSno(t)
    <3>1. TypeSlots' /\ TypeWorld' /\ TypeNet'
      BY <2>1 DEF LockSno, TypeSlots, TypeWorld, TypeNet
    <3>2. TypeLocals'
      BY <2>1 DEF LockSno, TypeLocals, Goto, Active
    <3>3. TypeShared'
      BY <2>1 DEF LockSno, TypeShared
    <3>4. LocalsReady'
      BY <2>1 DEF LockSno, LocalsReady, TypeLocals, Goto
    <3> QED BY <3>1, <3>2, <3>3, <3>4 DEF TypeOK
  <2>2. CASE Draw(t)
    <3>1. TypeSlots' /\ TypeWorld' /\ TypeNet'
      BY <2>2 DEF Draw, TypeSlots, TypeWorld, TypeNet
    <3>2. TypeLocals'
      BY <2>2 DEF Draw, Fresh, TypeLocals, Goto, Active
    <3>3. TypeShared'
      BY <2>2 DEF Draw, Fresh, TypeShared
    <3>4. LocalsReady'
      BY <2>2 DEF Draw, Fresh, LocalsReady, TypeLocals, Goto
    <3> QED BY <3>1, <3>2, <3>3, <3>4 DEF TypeOK
  <2>3. CASE Number(t)
    <3>1. TypeSlots' /\ TypeWorld' /\ TypeNet'
      BY <2>3 DEF Number, TypeSlots, TypeWorld, TypeNet
    <3>2. TypeLocals'
      BY <2>3 DEF Number, TypeLocals, TypeShared, LocalsReady, Goto, Active, Nums
    <3>3. TypeShared'
      BY <2>3 DEF Number, TypeShared
    <3>4. LocalsReady'
      BY <2>3 DEF Number, LocalsReady, TypeLocals, Goto, Nums, TypeShared
    <3> QED BY <3>1, <3>2, <3>3, <3>4 DEF TypeOK
  <2>4. CASE SndNums(t)
    <3>1. TypeSlots' /\ TypeShared' /\ TypeWorld'
      BY <2>4 DEF SndNums, SendKills, TypeSlots, TypeShared, TypeWorld
    <3>2. TypeLocals'
      BY <2>4 DEF SndNums, TypeLocals, SendKills, AfterSnd, Goto, Active
    <3>3. TypeNet'
      BY <2>4 DEF SndNums, NumsText, TypeNet, TypeLocals, SendKills
    <3>4. LocalsReady'
      BY <2>4 DEF SndNums, LocalsReady, TypeLocals, Goto, AfterSnd, SendKills
    <3> QED BY <3>1, <3>2, <3>3, <3>4 DEF TypeOK
  <2>5. CASE Rcv(t)
    <3>1. TypeSlots' /\ TypeShared' /\ TypeWorld' /\ TypeNet'
      BY <2>5 DEF Rcv, TypeSlots, TypeShared, TypeWorld, TypeNet
    <3>2. TypeLocals'
      BY <2>5 DEF Rcv, TypeLocals, TypeWorld, TypeSlots, File, Goto, Active
    <3>3. LocalsReady'
      BY <2>5 DEF Rcv, LocalsReady, TypeLocals, Goto, File
    <3> QED BY <3>1, <3>2, <3>3 DEF TypeOK
  <2>6. CASE Recv(t)
    <3>1. TypeSlots' /\ TypeShared' /\ TypeWorld'
      BY <2>6 DEF Recv, TypeSlots, TypeShared, TypeWorld
    <3>2. /\ on[t] \in Conns /\ inbox[on[t]] \in Seq(Requests) /\ inbox[on[t]] # <<>>
          /\ Head(inbox[on[t]]) \in Requests
      <4>1. on[t] \in Conns /\ inbox[on[t]] \in Seq(Requests) /\ inbox[on[t]] # <<>>
        BY <2>6 DEF Recv, LocalsReady, TypeLocals, TypeNet
      <4> QED BY <4>1, TailElements
    <3>3. PICK got \in Arrivals(Head(inbox[on[t]])), l \in {"last", "strtok"} :
            /\ cmd' = [cmd EXCEPT ![t] = got.text]
            /\ inbox' = [inbox EXCEPT ![on[t]] = got.left \o Tail(inbox[on[t]])]
            /\ rest' = [rest EXCEPT ![on[t]] = got.rest]
            /\ pc' = [pc EXCEPT ![t] = l]
            /\ on' = [on EXCEPT ![t] = None]
            /\ UNCHANGED <<query, rand_num, nums, remote, sent, owed, told>>
      BY <2>6 DEF Recv, Dispatch, Goto
    <3>4. /\ got.text \in Requests
          /\ got.left \o Tail(inbox[on[t]]) \in Seq(Requests)
          /\ got.rest \in BOOLEAN
      <4>0. /\ <<>> \o Tail(inbox[on[t]]) \in Seq(Requests)
            /\ <<Remainder>> \o Tail(inbox[on[t]]) \in Seq(Requests)
        BY <3>2, TailElements, PartsAreRequests
      <4>1. CASE got \in [text : {Head(inbox[on[t]])}, left : {<<>>},
                          rest : IF "zeros" \in ShortReads THEN BOOLEAN ELSE {FALSE}]
        BY <3>2, <4>0, <4>1
      <4>2. CASE got \in [text : {Cut}, left : {<<Remainder>>}, rest : {FALSE}]
        BY <4>0, <4>2, PartsAreRequests
      <4> QED BY <3>3, <4>1, <4>2 DEF Arrivals
    <3>5. TypeLocals'
      BY <3>3, <3>4 DEF TypeLocals, Active, Requested
    <3>6. TypeNet'
      BY <3>3, <3>4 DEF TypeNet
    <3>7. LocalsReady'
      <4>1. got.text # None
        BY <3>4
      <4> QED BY <3>3, <4>1 DEF LocalsReady, TypeLocals
    <3> QED BY <3>1, <3>5, <3>6, <3>7 DEF TypeOK
  <2>7. CASE RecvEnd(t)
    <3>0. UNCHANGED <<up, life, slots, shared, fd, backlog, peers, net>>
      BY <2>7 DEF RecvEnd
    <3>1. TypeSlots' /\ TypeShared' /\ TypeWorld' /\ TypeNet'
      BY <3>0 DEF TypeSlots, TypeShared, TypeWorld, TypeNet
    <3>2. TypeLocals'
      BY <2>7 DEF RecvEnd, TypeLocals, Goto, Active
    <3>3. LocalsReady'
      BY <2>7 DEF RecvEnd, LocalsReady, TypeLocals, Goto
    <3> QED BY <3>1, <3>2, <3>3 DEF TypeOK
  <2>8. CASE Strtok(t)
    <3>1. TypeSlots' /\ TypeWorld' /\ TypeNet'
      BY <2>8 DEF Strtok, TypeSlots, TypeWorld, TypeNet
    <3>2. TypeLocals'
      BY <2>8 DEF Strtok, TypeLocals, Goto, Active
    <3>3. TypeShared'
      BY <2>8 DEF Strtok, TypeShared, TypeLocals, Requested
    <3>4. LocalsReady'
      BY <2>8 DEF Strtok, LocalsReady, TypeLocals, Goto
    <3> QED BY <3>1, <3>2, <3>3, <3>4 DEF TypeOK
  <2>9. CASE StrtokNull(t)
    <3>1. TypeSlots' /\ TypeWorld' /\ TypeNet'
      BY <2>9 DEF StrtokNull, TypeSlots, TypeWorld, TypeNet
    <3>2. TypeLocals'
      BY <2>9 DEF StrtokNull, TypeLocals, TypeShared, Goto, Active
    <3>3. TypeShared'
      BY <2>9 DEF StrtokNull, TypeShared, Requested
    <3>4. LocalsReady'
      BY <2>9 DEF StrtokNull, LocalsReady, TypeLocals, Goto
    <3> QED BY <3>1, <3>2, <3>3, <3>4 DEF TypeOK
  <2>10. CASE LockQuery(t)
    <3>1. TypeSlots' /\ TypeWorld' /\ TypeNet'
      BY <2>10 DEF LockQuery, TypeSlots, TypeWorld, TypeNet
    <3>2. TypeLocals'
      BY <2>10 DEF LockQuery, TypeLocals, Goto, Active
    <3>3. TypeShared'
      BY <2>10 DEF LockQuery, TypeShared
    <3>4. LocalsReady'
      BY <2>10 DEF LockQuery, LocalsReady, TypeLocals, Goto
    <3> QED BY <3>1, <3>2, <3>3, <3>4 DEF TypeOK
  <2>11. CASE QueryFails(t)
    <3>1. TypeSlots' /\ TypeShared' /\ TypeWorld' /\ TypeNet'
      BY <2>11 DEF QueryFails, TypeSlots, TypeShared, TypeWorld, TypeNet
    <3>2. TypeLocals'
      BY <2>11 DEF QueryFails, TypeLocals, Goto, Active
    <3>3. LocalsReady'
      BY <2>11 DEF QueryFails, LocalsReady, TypeLocals, Goto
    <3> QED BY <3>1, <3>2, <3>3 DEF TypeOK
  <2>12. CASE QueryOk(t)
    <3>1. TypeSlots' /\ TypeNet'
      BY <2>12 DEF QueryOk, TypeSlots, TypeNet
    <3>2. TypeLocals'
      BY <2>12 DEF QueryOk, TypeLocals, Goto, Active
    <3>3. TypeShared'
      BY <2>12 DEF QueryOk, TypeShared, HasRow, Columns, Results
    <3>4. TypeWorld'
      BY <2>12 DEF QueryOk, TypeWorld, TypeLocals, Requested, Requests
    <3>5. LocalsReady'
      BY <2>12 DEF QueryOk, LocalsReady, TypeLocals, Goto
    <3> QED BY <3>1, <3>2, <3>3, <3>4, <3>5 DEF TypeOK
  <2>13. CASE Fetch(t)
    <3>1. TypeSlots' /\ TypeWorld' /\ TypeNet'
      BY <2>13 DEF Fetch, TypeSlots, TypeWorld, TypeNet
    <3>2. TypeLocals'
      BY <2>13 DEF Fetch, TypeLocals, Requested, Goto, Active
    <3>3. TypeShared'
      BY <2>13 DEF Fetch, TypeShared
    <3>4. LocalsReady'
      BY <2>13 DEF Fetch, LocalsReady, TypeLocals, Goto
    <3> QED BY <3>1, <3>2, <3>3, <3>4 DEF TypeOK
  <2>14. CASE SndReply(t)
    <3>1. TypeSlots' /\ TypeShared' /\ TypeWorld'
      BY <2>14 DEF SndReply, SendKills, TypeSlots, TypeShared, TypeWorld
    <3>2. TypeLocals'
      BY <2>14 DEF SndReply, TypeLocals, SendKills, AfterSnd, Goto, Active
    <3>3. TypeNet'
      <4>1. /\ owed' = [c \in Conns |-> IF c = File(t) /\ owed[c] > 0 THEN owed[c] - 1 ELSE owed[c]]
            /\ UNCHANGED <<remote, inbox, rest, sent, told>>
        BY <2>14 DEF SndReply, SendKills
      <4>2. \A c \in Conns : owed[c] \in Nat
        BY DEF TypeNet
      <4>3. owed' \in [Conns -> Nat]
        BY <4>1, <4>2
      <4> QED BY <4>1, <4>3 DEF TypeNet
    <3>4. LocalsReady'
      BY <2>14 DEF SndReply, LocalsReady, TypeLocals, Goto, AfterSnd, SendKills
    <3> QED BY <3>1, <3>2, <3>3, <3>4 DEF TypeOK
  <2>15. CASE SndLast(t)
    <3>1. TypeSlots' /\ TypeShared' /\ TypeWorld' /\ TypeNet'
      BY <2>15 DEF SndLast, SendKills, TypeSlots, TypeShared, TypeWorld, TypeNet
    <3>2. TypeLocals'
      BY <2>15 DEF SndLast, TypeLocals, SendKills, Goto, Active
    <3>3. LocalsReady'
      BY <2>15 DEF SndLast, LocalsReady, TypeLocals, Goto, SendKills
    <3> QED BY <3>1, <3>2, <3>3 DEF TypeOK
  <2>16. CASE CloseAndExit(t)
    <3>1. TypeSlots' /\ TypeShared' /\ TypeNet'
      BY <2>16 DEF CloseAndExit, TypeSlots, TypeShared, TypeNet
    <3>2. TypeLocals'
      BY <2>16 DEF CloseAndExit, TypeLocals, Goto, Active
    <3>3. TypeWorld'
      BY <2>16 DEF CloseAndExit, TypeWorld, Closed
    <3>4. LocalsReady'
      BY <2>16 DEF CloseAndExit, LocalsReady, TypeLocals, Goto
    <3> QED BY <3>1, <3>2, <3>3, <3>4 DEF TypeOK
  <2>17. CASE QueryCrashes(t)
    BY <2>17 DEF QueryCrashes
  <2>18. CASE RecvRest(t)
    BY <2>18 DEF RecvRest
  <2> QED BY <2>1, <2>2, <2>3, <2>4, <2>5, <2>6, <2>7, <2>8, <2>9, <2>10, <2>11, <2>12, <2>13, <2>14, <2>15, <2>16, <2>17, <2>18 DEF Session
<1> QED BY <1>1, <1>2

LEMMA TypeEnvironment ==
  ASSUME TypeOK, NEW c \in Conns, Connect(c) \/ Request(c) \/ RemoteCloses(c)
  PROVE  TypeOK'
<1>0. TypeSlots /\ TypeLocals /\ TypeShared /\ TypeWorld /\ TypeNet /\ LocalsReady
  BY DEF TypeOK
<1>1. TypeSlots' /\ TypeLocals' /\ TypeShared' /\ LocalsReady'
  BY <1>0 DEF TypeSlots, TypeLocals, TypeShared, LocalsReady, Connect, Request, RemoteCloses
<1>2. TypeWorld'
  <2>1. CASE Connect(c)
    <3>1. \A p \in Ports : Append(backlog[p], c) \in Seq(Conns)
      BY <1>0 DEF TypeWorld
    <3>2. backlog' \in [{"peers", "clients"} -> Seq(Conns)]
      BY <1>0, <2>1, <3>1 DEF TypeWorld, Connect
    <3> QED BY <1>0, <2>1, <3>2 DEF TypeWorld, Connect
  <2>2. CASE Request(c) \/ RemoteCloses(c)
    BY <1>0, <2>2 DEF TypeWorld, Request, RemoteCloses
  <2> QED BY <2>1, <2>2
<1>3. TypeNet'
  <2>1. Asks(c) \subseteq Requests
    BY <1>0 DEF Asks, Requests, TypeNet
  <2>2. CASE Request(c)
    <3>1. \A req \in Asks(c) : Append(inbox[c], req) \in Seq(Requests)
      BY <1>0, <2>1 DEF TypeNet
    <3> QED BY <1>0, <2>2, <3>1 DEF TypeNet, Request
  <2>3. CASE Connect(c) \/ RemoteCloses(c)
    BY <1>0, <2>3 DEF TypeNet, Connect, RemoteCloses
  <2> QED BY <2>2, <2>3
<1> QED BY <1>1, <1>2, <1>3 DEF TypeOK

LEMMA TypeRestart == TypeOK /\ Restart => TypeOK'
<1> SUFFICES ASSUME TypeOK, Restart PROVE TypeOK'
  OBVIOUS
<1>1. TypeWorld'
  BY DEF TypeOK, TypeWorld, Restart
<1>2. TypeSlots' /\ TypeLocals' /\ TypeShared' /\ TypeNet' /\ LocalsReady'
  BY DEF TypeOK, TypeSlots, TypeLocals, TypeShared, TypeNet, LocalsReady, Restart
<1> QED BY <1>1, <1>2 DEF TypeOK

LEMMA TypeStutters == TypeOK /\ UNCHANGED vars => TypeOK'
<1> SUFFICES ASSUME TypeOK, UNCHANGED vars PROVE TypeOK'
  OBVIOUS
<1>1. TypeSlots' /\ TypeShared' /\ TypeWorld'
  BY DEF TypeOK, TypeSlots, TypeShared, TypeWorld, vars
<1>2. TypeLocals' /\ TypeNet' /\ LocalsReady'
  BY DEF TypeOK, TypeLocals, TypeNet, LocalsReady, vars
<1> QED BY <1>1, <1>2 DEF TypeOK

\* The directory is type correct in every life of the process.
THEOREM TypeCorrect == Spec => []TypeOK
<1>1. TypeOK /\ [Next]_vars => TypeOK'
  BY TypeAcceptor, TypeSession, TypeEnvironment, TypeRestart, TypeEnds, TypeStutters
     DEF Next, MainReturns, Killed, Environment
<1> QED BY TypeInit, <1>1, PTL DEF Spec

-----------------------------------------------------------------------------
(* What every session step leaves alone, and slots not reached yet. *)

LEMMA SessionStep ==
  ASSUME TypeOK, NEW t \in Threads, Session(t), ~ProcessEnds
  PROVE  /\ pc[t] \in Active
         /\ \E l \in Active \cup {"exited"} : pc' = [pc EXCEPT ![t] = l]
         /\ UNCHANGED <<up, life, slots, backlog>>
<1>1. CASE LockSno(t) \/ Draw(t) \/ Number(t)
  BY <1>1 DEF LockSno, Draw, Number, Goto, Active
<1>2. CASE SndNums(t) \/ SndReply(t) \/ SndLast(t)
  BY <1>2 DEF SndNums, SndReply, SndLast, SendKills, AfterSnd, Goto, Active
<1>3. CASE Rcv(t) \/ Recv(t) \/ RecvRest(t) \/ RecvEnd(t)
  BY <1>3 DEF Rcv, Recv, RecvRest, RecvEnd, Dispatch, Goto, Active
<1>4. CASE Strtok(t) \/ StrtokNull(t) \/ LockQuery(t)
  BY <1>4 DEF Strtok, StrtokNull, LockQuery, Goto, Active
<1>5. CASE QueryFails(t) \/ QueryOk(t) \/ Fetch(t) \/ QueryCrashes(t) \/ CloseAndExit(t)
  BY <1>5 DEF QueryFails, QueryOk, Fetch, QueryCrashes, CloseAndExit, Goto, Active
<1> QED BY <1>1, <1>2, <1>3, <1>4, <1>5 DEF Session

LEMMA Others ==
  ASSUME TypeOK, NEW t \in Threads, NEW l, pc' = [pc EXCEPT ![t] = l]
  PROVE  pc'[t] = l /\ \A u \in Threads \ {t} : pc'[u] = pc[u]
  BY DEF TypeOK, TypeLocals

\* The slots an acceptor has not reached have no thread.
SlotInv ==
  \A s \in Servers, i \in 0 .. Slots - 1 : cnt[s] <= i => pc[<<s, i>>] = "free"

LEMMA NextSlot ==
  ASSUME TypeOK, SlotInv, NEW s \in Servers, Accepting(s)
  PROVE  <<s, cnt[s]>> \in Threads /\ pc[<<s, cnt[s]>>] = "free"
<1>1. cnt[s] \in 0 .. Slots - 1
  BY DEF TypeOK, TypeSlots, Accepting
<1> QED BY <1>1, SlotIsThread DEF SlotInv

LEMMA SlotNext == TypeOK /\ SlotInv /\ [Next]_vars => SlotInv'
<1> SUFFICES ASSUME TypeOK, SlotInv, [Next]_vars,
                    NEW s \in Servers, NEW i \in 0 .. Slots - 1, cnt'[s] <= i
             PROVE  pc'[<<s, i>>] = "free"
  BY DEF SlotInv
<1>0. <<s, i>> \in Threads /\ cnt[s] \in 0 .. Slots
  BY SlotIsThread DEF TypeOK, TypeSlots
<1>1. CASE ProcessEnds
  BY <1>0, <1>1 DEF ProcessEnds
<1>2. CASE UNCHANGED <<cnt, pc>>
  BY <1>2 DEF SlotInv
<1>3. ASSUME NEW t \in Threads, Session(t), ~ProcessEnds PROVE pc'[<<s, i>>] = "free"
  <2>1. cnt' = cnt /\ pc[t] # "free" /\ \E l : pc' = [pc EXCEPT ![t] = l]
    BY <1>3, SessionStep DEF Active
  <2>2. pc[<<s, i>>] = "free"
    BY <2>1 DEF SlotInv
  <2> QED BY <1>0, <2>1, <2>2, Others
<1>4. ASSUME NEW r \in Servers, Accept(r) \/ AcceptFails(r) PROVE pc'[<<s, i>>] = "free"
  <2>1. /\ cnt' = [cnt EXCEPT ![r] = cnt[r] + 1]
        /\ \E l : pc' = [pc EXCEPT ![<<r, cnt[r]>>] = l]
    BY <1>4 DEF Accept, AcceptFails, Goto
  <2>2. cnt[s] <= i /\ <<s, i>> # <<r, cnt[r]>>
    BY <1>0, <2>1 DEF TypeOK, TypeSlots
  <2>3. <<r, cnt[r]>> \in Threads
    BY <1>4, NextSlot DEF Accept, AcceptFails
  <2> QED BY <1>0, <2>1, <2>2, <2>3, Others DEF SlotInv
<1>5. ASSUME NEW r \in Servers, Join(r) \/ JoinFails(r), ~ProcessEnds PROVE pc'[<<s, i>>] = "free"
  BY <1>2, <1>5 DEF Join, JoinFails
<1>6. ASSUME NEW r \in Servers, JoinsAnother(r) PROVE pc'[<<s, i>>] = "free"
  <2>1. PICK u \in Threads : pc[u] = "exited" /\ pc' = [pc EXCEPT ![u] = "joined"]
    BY <1>6 DEF JoinsAnother, Goto
  <2>2. pc[<<s, i>>] = "free"
    BY <1>6 DEF SlotInv, JoinsAnother
  <2> QED BY <1>0, <2>1, <2>2, Others
<1>7. CASE Environment \/ Restart \/ UNCHANGED vars
  BY <1>2, <1>7 DEF Environment, Connect, Request, RemoteCloses, Restart, vars
<1> QED BY <1>1, <1>3, <1>4, <1>5, <1>6, <1>7 DEF Next, Acceptor, MainReturns, Killed

-----------------------------------------------------------------------------
(* The two locks. *)

\* The strengthening of ResultIsOwn: the number lock is held exactly by the
\* thread that draws, the query lock by the one that queries or by one whose
\* query failed.
LockInv ==
  \A t \in Threads :
    /\ pc[t] \in {"draw", "number"} <=> sno_rand_num = t
    /\ pc[t] \in {"query", "fetch"} => mutex = t
    /\ mutex = t => pc[t] \in {"query", "fetch"} \cup Ending
    /\ pc[t] = "fetch" => res # None /\ res.by = t

Locking == {"draw", "number", "query", "fetch"}

LEMMA NoneIsNoThread == None \notin Threads
  OBVIOUS

LEMMA ResultIsSome ==
  ASSUME NEW t \in Threads, NEW b \in BOOLEAN, NEW n \in 0 .. 3
  PROVE  [by |-> t, row |-> b, cols |-> n] # None
  BY DEF Results

LEMMA LockQuiet ==
  ASSUME TypeOK, LockInv, NEW t \in Threads, NEW l,
         pc' = [pc EXCEPT ![t] = l],
         pc[t] \notin Locking, l \notin Locking,
         pc[t] \in Ending => l \in Ending,
         UNCHANGED <<sno_rand_num, mutex, res>>
  PROVE  LockInv'
  BY Others DEF LockInv, Locking

LEMMA LockMove ==
  ASSUME TypeOK, NEW t \in Threads, NEW l, pc' = [pc EXCEPT ![t] = l],
         \A u \in Threads \ {t} :
           /\ pc[u] \in {"draw", "number"} <=> sno_rand_num' = u
           /\ pc[u] \in {"query", "fetch"} => mutex' = u
           /\ mutex' = u => pc[u] \in {"query", "fetch"} \cup Ending
           /\ pc[u] = "fetch" => res' # None /\ res'.by = u,
         l \in {"draw", "number"} <=> sno_rand_num' = t,
         l \in {"query", "fetch"} => mutex' = t,
         mutex' = t => l \in {"query", "fetch"} \cup Ending,
         l = "fetch" => res' # None /\ res'.by = t
  PROVE  LockInv'
<1>0. pc'[t] = l /\ \A v \in Threads \ {t} : pc'[v] = pc[v]
  BY Others
<1> SUFFICES ASSUME NEW u \in Threads
             PROVE  /\ pc'[u] \in {"draw", "number"} <=> sno_rand_num' = u
                    /\ pc'[u] \in {"query", "fetch"} => mutex' = u
                    /\ mutex' = u => pc'[u] \in {"query", "fetch"} \cup Ending
                    /\ pc'[u] = "fetch" => res' # None /\ res'.by = u
  BY DEF LockInv
<1>1. CASE u = t
  <2>1. pc'[u] = l
    BY <1>0, <1>1
  <2> QED BY <1>1, <2>1
<1>2. CASE u # t
  <2>1. u \in Threads \ {t}
    BY <1>2
  <2>2. pc'[u] = pc[u]
    BY <1>0, <2>1
  <2> QED BY <2>1, <2>2
<1> QED BY <1>1, <1>2

LEMMA LockSession ==
  ASSUME TypeOK, LockInv, NEW t \in Threads, Session(t), ~ProcessEnds
  PROVE  LockInv'
<1> USE DEF Goto
<1>1. CASE LockSno(t)
  <2>1. /\ sno_rand_num = None /\ sno_rand_num' = t /\ UNCHANGED <<mutex, res>>
        /\ pc' = [pc EXCEPT ![t] = "draw"]
    BY <1>1 DEF LockSno
  <2>2. \A u \in Threads : pc[u] \notin {"draw", "number"}
    BY <2>1, NoneIsNoThread DEF LockInv
  <2>3. mutex' # t
    BY <1>1, <2>1 DEF LockSno, LockInv, Ending
  <2> QED BY <2>1, <2>2, <2>3, LockMove DEF LockInv
<1>2. CASE Draw(t)
  <2>1. /\ pc[t] = "draw" /\ UNCHANGED <<sno_rand_num, mutex, res>>
        /\ pc' = [pc EXCEPT ![t] = "number"]
    BY <1>2 DEF Draw
  <2>2. mutex' # t /\ sno_rand_num' = t
    BY <2>1 DEF LockInv, Ending
  <2> QED BY <2>1, <2>2, LockMove DEF LockInv
<1>3. CASE Number(t)
  <2>1. sno_rand_num = t /\ sno_rand_num' = None /\ UNCHANGED <<mutex, res>>
    BY <1>3 DEF Number, LockInv
  <2>2. pc' = [pc EXCEPT ![t] = "snd_nums"]
    BY <1>3 DEF Number
  <2>3. \A u \in Threads \ {t} :
          /\ pc[u] \notin {"draw", "number"}
          /\ pc[u] \in {"query", "fetch"} => mutex' = u
          /\ mutex' = u => pc[u] \in {"query", "fetch"} \cup Ending
          /\ pc[u] = "fetch" => res' # None /\ res'.by = u
    BY <2>1 DEF LockInv
  <2>6. mutex' # t
    BY <1>3, <2>1 DEF Number, LockInv, Ending
  <2>4. \A u \in Threads : sno_rand_num' # u
    BY <2>1, NoneIsNoThread
  <2>5. \A u \in Threads \ {t} : pc[u] \in {"draw", "number"} <=> sno_rand_num' = u
    BY <2>3, <2>4
  <2> QED BY <2>2, <2>3, <2>4, <2>5, <2>6, LockMove
<1>4. CASE LockQuery(t)
  <2>1. /\ pc[t] = "lock_query" /\ mutex = None /\ mutex' = t
        /\ UNCHANGED <<sno_rand_num, res>>
        /\ pc' = [pc EXCEPT ![t] = "query"]
    BY <1>4 DEF LockQuery
  <2>2. /\ sno_rand_num' # t
        /\ \A u \in Threads \ {t} : pc[u] \notin {"query", "fetch"} /\ mutex' # u
    BY <2>1, NoneIsNoThread DEF LockInv
  <2>3. \A u \in Threads \ {t} :
          /\ pc[u] \in {"draw", "number"} <=> sno_rand_num' = u
          /\ pc[u] \in {"query", "fetch"} => mutex' = u
          /\ mutex' = u => pc[u] \in {"query", "fetch"} \cup Ending
          /\ pc[u] = "fetch" => res' # None /\ res'.by = u
    BY <2>1, <2>2 DEF LockInv
  <2> QED BY <2>1, <2>2, <2>3, LockMove
<1>5. CASE QueryOk(t)
  <2>1. mutex = t /\ UNCHANGED <<mutex, sno_rand_num>> /\ pc[t] = "query"
    BY <1>5 DEF QueryOk, LockInv
  <2>2. res' # None /\ res'.by = t
    <3>1. HasRow(query[t]) \in BOOLEAN /\ Columns(query[t]) \in 0 .. 3
      BY DEF HasRow, Columns
    <3>2. res' = [by |-> t, row |-> HasRow(query[t]), cols |-> Columns(query[t])]
      BY <1>5 DEF QueryOk
    <3> QED BY <3>1, <3>2, ResultIsSome
  <2>3. pc' = [pc EXCEPT ![t] = "fetch"]
    BY <1>5 DEF QueryOk
  <2>4. \A u \in Threads \ {t} :
          /\ pc[u] \notin {"query", "fetch"}
          /\ pc[u] \in {"draw", "number"} <=> sno_rand_num' = u
    BY <2>1 DEF LockInv
  <2>5. sno_rand_num' # t
    BY <2>1 DEF LockInv
  <2> QED BY <2>1, <2>2, <2>3, <2>4, <2>5, LockMove
<1>6. CASE QueryFails(t)
  <2>1. /\ pc[t] = "query" /\ UNCHANGED <<sno_rand_num, mutex, res>>
        /\ pc' = [pc EXCEPT ![t] = "last"] /\ "last" \in Ending
    BY <1>6 DEF QueryFails, Ending
  <2>2. sno_rand_num' # t
    BY <2>1 DEF LockInv
  <2> QED BY <2>1, <2>2, LockMove DEF LockInv
<1>7. CASE Fetch(t)
  <2>1. mutex = t /\ UNCHANGED sno_rand_num /\ pc[t] = "fetch"
    BY <1>7 DEF Fetch, LockInv
  <2>2. pc' = [pc EXCEPT ![t] = "snd"]
    BY <1>7 DEF Fetch
  <2>3. \A u \in Threads \ {t} :
          /\ pc[u] \notin {"query", "fetch"}
          /\ pc[u] \in {"draw", "number"} <=> sno_rand_num' = u
    BY <2>1 DEF LockInv
  <2>4. sno_rand_num' # t
    BY <2>1 DEF LockInv
  <2>5. \A u \in Threads : mutex' # u
    BY <1>7, NoneIsNoThread DEF Fetch
  <2>6. \A u \in Threads \ {t} :
          /\ pc[u] \in {"draw", "number"} <=> sno_rand_num' = u
          /\ pc[u] \in {"query", "fetch"} => mutex' = u
          /\ mutex' = u => pc[u] \in {"query", "fetch"} \cup Ending
          /\ pc[u] = "fetch" => res' # None /\ res'.by = u
    BY <2>3, <2>5
  <2> QED BY <2>2, <2>4, <2>5, <2>6, LockMove
<1>8. CASE SndNums(t) \/ SndReply(t) \/ SndLast(t)
  BY <1>8, LockQuiet DEF SndNums, SndReply, SndLast, SendKills, AfterSnd, Locking, Ending
<1>9. CASE Rcv(t) \/ Recv(t) \/ RecvRest(t) \/ RecvEnd(t)
  BY <1>9, LockQuiet DEF Rcv, Recv, RecvRest, RecvEnd, Dispatch, Locking, Ending
<1>10. CASE Strtok(t) \/ StrtokNull(t) \/ CloseAndExit(t) \/ QueryCrashes(t)
  BY <1>10, LockQuiet DEF Strtok, StrtokNull, CloseAndExit, QueryCrashes, Locking, Ending
<1> QED BY <1>1, <1>2, <1>3, <1>4, <1>5, <1>6, <1>7, <1>8, <1>9, <1>10 DEF Session

LEMMA LockNext == TypeOK /\ SlotInv /\ LockInv /\ [Next]_vars => LockInv'
<1> SUFFICES ASSUME TypeOK, SlotInv, LockInv, [Next]_vars PROVE LockInv'
  OBVIOUS
<1>1. CASE ProcessEnds
  BY <1>1 DEF ProcessEnds, LockInv
<1>2. CASE UNCHANGED <<pc, sno_rand_num, mutex, res>>
  BY <1>2 DEF LockInv
<1>3. ASSUME NEW s \in Servers, Accept(s) \/ AcceptFails(s) PROVE LockInv'
  <2>1. <<s, cnt[s]>> \in Threads /\ pc[<<s, cnt[s]>>] = "free"
    BY <1>3, NextSlot DEF Accept, AcceptFails
  <2>2. \E l : l \notin Locking /\ pc' = [pc EXCEPT ![<<s, cnt[s]>>] = l]
    BY <1>3 DEF Accept, AcceptFails, Goto, Entry, Locking
  <2>3. UNCHANGED <<sno_rand_num, mutex, res>>
    BY <1>3 DEF Accept, AcceptFails
  <2> QED BY <2>1, <2>2, <2>3, LockQuiet DEF Locking, Ending
<1>4. ASSUME NEW s \in Servers, Join(s) \/ JoinFails(s), ~ProcessEnds PROVE LockInv'
  BY <1>2, <1>4 DEF Join, JoinFails
<1>5. ASSUME NEW s \in Servers, JoinsAnother(s) PROVE LockInv'
  <2>1. PICK u \in Threads : pc[u] = "exited" /\ pc' = [pc EXCEPT ![u] = "joined"]
    BY <1>5 DEF JoinsAnother, Goto
  <2>2. UNCHANGED <<sno_rand_num, mutex, res>>
    BY <1>5 DEF JoinsAnother
  <2> QED BY <2>1, <2>2, LockQuiet DEF Locking, Ending
<1>6. CASE Environment \/ Restart \/ UNCHANGED vars
  BY <1>2, <1>6 DEF Environment, Connect, Request, RemoteCloses, Restart, vars
<1> QED BY <1>1, <1>3, <1>4, <1>5, <1>6, LockSession DEF Next, Acceptor, MainReturns, Killed

\* The sections of the code between a lock and its unlock are never run by
\* two sessions at once, and a session reads the result of its own query.
THEOREM OneAtATime == Spec => []ResultIsOwn
<1>1. Init => SlotInv /\ LockInv
  BY DEF Init, SlotInv, LockInv, Threads
<1>2. LockInv => ResultIsOwn
  BY DEF LockInv, ResultIsOwn
<1> QED BY TypeCorrect, SlotNext, LockNext, <1>1, <1>2, PTL DEF Spec

-----------------------------------------------------------------------------
(* The joins. *)

\* An acceptor joins only when it has filled its slots, and what it has joined
\* has no session any more.
JoinInv ==
  /\ \A s \in Servers : jn[s] > 0 => cnt[s] = Slots
  /\ \A t \in Threads : t[2] < jn[t[1]] => pc[t] \in {"exited", "failed", "joined"}

LEMMA ThreadIsPair ==
  ASSUME NEW t \in Threads
  PROVE  t[1] \in Servers /\ t[2] \in 0 .. Slots - 1 /\ t = <<t[1], t[2]>>
  BY DEF Threads

LEMMA JoinQuiet ==
  ASSUME TypeOK, JoinInv, UNCHANGED <<cnt, jn>>,
         \A t \in Threads : pc'[t] # pc[t] =>
           pc[t] \in Active \/ (pc[t] = "exited" /\ pc'[t] = "joined")
  PROVE  JoinInv'
  BY DEF JoinInv, Active

LEMMA JoinNext == TypeOK /\ JoinInv /\ [Next]_vars => JoinInv'
<1> SUFFICES ASSUME TypeOK, JoinInv, [Next]_vars PROVE JoinInv'
  OBVIOUS
<1>1. CASE ProcessEnds
  <2>1. /\ \A s \in Servers : jn'[s] = 0
        /\ \A t \in Threads : pc'[t] = "free"
    BY <1>1 DEF ProcessEnds
  <2>2. \A t \in Threads : ~(t[2] < jn'[t[1]])
    BY <2>1, ThreadIsPair
  <2> QED BY <2>1, <2>2 DEF JoinInv
<1>2. ASSUME NEW t \in Threads, Session(t), ~ProcessEnds PROVE JoinInv'
  <2>1. UNCHANGED <<cnt, jn>> /\ pc[t] \in Active /\ \E l : pc' = [pc EXCEPT ![t] = l]
    BY <1>2, SessionStep
  <2> QED BY <2>1, Others, JoinQuiet
<1>3. ASSUME NEW s \in Servers, Accept(s) \/ AcceptFails(s) PROVE JoinInv'
  <2> DEFINE n == <<s, cnt[s]>>
  <2>0. /\ cnt[s] \in 0 .. Slots /\ cnt[s] < Slots /\ jn[s] \in 0 .. Slots
        /\ jn[s] > 0 => cnt[s] = Slots
    BY <1>3 DEF Accept, AcceptFails, Accepting, JoinInv, TypeOK, TypeSlots
  <2>1. cnt[s] \in 0 .. Slots - 1 /\ jn[s] = 0
    BY <2>0
  <2>2. n \in Threads /\ jn' = jn /\ cnt' = [cnt EXCEPT ![s] = cnt[s] + 1]
    BY <1>3, <2>1, SlotIsThread DEF Accept, AcceptFails
  <2>3. \A t \in Threads \ {n} : pc'[t] = pc[t]
    BY <1>3, <2>2, Others DEF Accept, AcceptFails, Goto
  <2>4. \A r \in Servers : jn'[r] > 0 => cnt'[r] = Slots
    BY <2>1, <2>2 DEF JoinInv, TypeOK, TypeSlots
  <2>5. ~(n[2] < jn'[n[1]])
    BY <2>1, <2>2
  <2> QED BY <2>2, <2>3, <2>4, <2>5 DEF JoinInv
<1>4. ASSUME NEW s \in Servers, Join(s) \/ JoinFails(s) \/ JoinsAnother(s), ~ProcessEnds
      PROVE  JoinInv'
  <2>1. /\ cnt' = cnt /\ cnt[s] = Slots
        /\ jn' = [jn EXCEPT ![s] = jn[s] + 1]
        /\ pc[<<s, jn[s]>>] \in {"exited", "failed", "joined"}
    BY <1>4 DEF Join, JoinFails, JoinsAnother, Joining
  <2>2. \A t \in Threads : pc'[t] = pc[t] \/ (pc[t] = "exited" /\ pc'[t] = "joined")
    BY <1>4, Others DEF Join, JoinFails, JoinsAnother, Goto
  <2>3. jn[s] \in 0 .. Slots - 1 /\ jn \in [Servers -> 0 .. Slots]
    BY <1>4 DEF Join, JoinFails, JoinsAnother, Joining, TypeOK, TypeSlots
  <2>4. ASSUME NEW t \in Threads, t[2] < jn'[t[1]]
        PROVE  pc[t] \in {"exited", "failed", "joined"}
    <3>1. t[2] < jn[t[1]] \/ t = <<s, jn[s]>>
      BY <2>1, <2>3, <2>4, ThreadIsPair
    <3> QED BY <2>1, <3>1 DEF JoinInv
  <2>5. \A r \in Servers : jn'[r] > 0 => cnt'[r] = Slots
    BY <2>1, <2>3 DEF JoinInv
  <2> QED BY <2>2, <2>4, <2>5 DEF JoinInv
<1>5. CASE Environment \/ Restart \/ UNCHANGED vars
  BY <1>5, JoinQuiet DEF Environment, Connect, Request, RemoteCloses, Restart, vars
<1> QED BY <1>1, <1>2, <1>3, <1>4, <1>5 DEF Next, Acceptor, MainReturns, Killed

\* Whatever became of accept(), pthread_create() and the join itself, no
\* acceptor counts a running session as joined.
THEOREM JoinedOver == Spec => []JoinedAreOver
<1>1. TypeOK /\ Init => JoinInv
  BY ThreadIsPair DEF Init, JoinInv
<1>2. JoinInv => JoinedAreOver
  BY DEF JoinInv, JoinedAreOver, Active
<1> QED BY TypeInit, TypeCorrect, JoinNext, <1>1, <1>2, PTL DEF Spec
=============================================================================
