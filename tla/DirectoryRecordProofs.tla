------------------------ MODULE DirectoryRecordProofs ------------------------
(***************************************************************************)
(* Proofs about the records between the directory and the other ends: who  *)
(* they come from, that what is written was granted, that no two are told  *)
(* the same number and that each request is answered once.                 *)
(***************************************************************************)
EXTENDS DirectoryNumberProofs

USE DEF net, shared, slots, locals

-----------------------------------------------------------------------------
(* The descriptors, until an acceptor starts to join. *)

NobodyJoined == \A s \in Servers : jn[s] = 0

\* SocketIsOwn, with the descriptor and the connection known to exist: this is
\* what makes the descriptor that accept() returns a new one.
SocketInv ==
  NobodyJoined =>
    /\ \A t \in Threads :
         pc[t] \in Active => sock[t] \in Fds /\ addr[t] \in Conns /\ fd[sock[t]] = addr[t]
    /\ \A t, u \in Threads :
         t # u /\ pc[t] \in Active /\ pc[u] \in Active => sock[t] # sock[u]

LEMMA NoneIsNoConn == None \notin Conns
  BY DirectoryAssumption

LEMMA SocketQuiet ==
  ASSUME SocketInv, UNCHANGED <<jn, sock, addr, fd>>,
         \A t \in Threads : pc'[t] \in Active => pc[t] \in Active
  PROVE  SocketInv'
  BY DEF SocketInv, NobodyJoined

LEMMA SocketAccept ==
  ASSUME TypeOK, SlotInv, SocketInv, NEW s \in Servers, Accept(s)
  PROVE  SocketInv'
<1> DEFINE n == <<s, cnt[s]>>
<1>1. n \in Threads
  BY NextSlot DEF Accept
<1>2. PICK f \in FreeFds, c \in Conns, l \in {Entry(s), "failed"} :
        /\ fd' = [fd EXCEPT ![f] = c]
        /\ sock' = [sock EXCEPT ![n] = f]
        /\ addr' = [addr EXCEPT ![n] = c]
        /\ pc' = [pc EXCEPT ![n] = l]
        /\ jn' = jn
  <2>1. Head(backlog["clients"]) \in Conns
    BY DEF TypeOK, TypeWorld, Accept
  <2> QED BY <2>1 DEF Accept, Goto
<1>3. /\ f \in Fds /\ fd[f] = None
      /\ fd'[f] = c /\ \A g \in Fds \ {f} : fd'[g] = fd[g]
  BY <1>2 DEF FreeFds, TypeOK, TypeWorld
<1>4. sock'[n] = f /\ addr'[n] = c
  BY <1>1, <1>2 DEF TypeOK, TypeSlots
<1>5. \A t \in Threads \ {n} : sock'[t] = sock[t] /\ addr'[t] = addr[t] /\ pc'[t] = pc[t]
  BY <1>1, <1>2, Others DEF TypeOK, TypeSlots
<1>6. NobodyJoined' => NobodyJoined
  BY <1>2 DEF NobodyJoined
<1>7. ASSUME NobodyJoined, NEW t \in Threads \ {n}, pc[t] \in Active
      PROVE  sock[t] \in Fds \ {f} /\ addr[t] \in Conns /\ fd'[sock[t]] = addr[t]
  BY <1>3, <1>7, NoneIsNoConn DEF SocketInv
<1>8. ASSUME NobodyJoined, NEW t \in Threads, pc'[t] \in Active
      PROVE  sock'[t] \in Fds /\ addr'[t] \in Conns /\ fd'[sock'[t]] = addr'[t]
  BY <1>3, <1>4, <1>5, <1>7, <1>8
<1>9. ASSUME NobodyJoined, NEW t \in Threads, NEW u \in Threads,
             t # u, pc'[t] \in Active, pc'[u] \in Active
      PROVE  sock'[t] # sock'[u]
  <2>1. CASE t = n
    BY <1>4, <1>5, <1>7, <1>9, <2>1
  <2>2. CASE u = n
    BY <1>4, <1>5, <1>7, <1>9, <2>2
  <2>3. CASE t # n /\ u # n
    BY <1>5, <1>9, <2>3 DEF SocketInv
  <2> QED BY <2>1, <2>2, <2>3
<1> QED BY <1>6, <1>8, <1>9 DEF SocketInv

LEMMA SocketClose ==
  ASSUME TypeOK, SocketInv, NEW t \in Threads, CloseAndExit(t)
  PROVE  SocketInv'
<1>1. UNCHANGED <<jn, sock, addr>> /\ pc[t] \in Active
  BY DEF CloseAndExit, Active, slots
<1>2. pc'[t] = "exited" /\ \A u \in Threads \ {t} : pc'[u] = pc[u]
  BY Others DEF CloseAndExit, Goto
<1>3. \A f \in Fds : f # sock[t] => fd'[f] = fd[f]
  BY DEF CloseAndExit, Closed
<1>4. "exited" \notin Active
  BY DEF Active
<1>5. ASSUME NobodyJoined, NEW u \in Threads, pc'[u] \in Active
      PROVE  u # t /\ pc[u] \in Active /\ sock[u] # sock[t] /\ fd'[sock[u]] = addr[u]
  BY <1>1, <1>2, <1>3, <1>4, <1>5 DEF SocketInv
<1> QED BY <1>1, <1>5 DEF SocketInv, NobodyJoined

LEMMA SocketNext == TypeOK /\ SlotInv /\ SocketInv /\ [Next]_vars => SocketInv'
<1> SUFFICES ASSUME TypeOK, SlotInv, SocketInv, [Next]_vars PROVE SocketInv'
  OBVIOUS
<1>1. CASE ProcessEnds
  <2>1. \A t \in Threads : pc'[t] \notin Active
    BY <1>1 DEF ProcessEnds, Active
  <2> QED BY <2>1 DEF SocketInv
<1>2. ASSUME NEW s \in Servers, AcceptFails(s) PROVE SocketInv'
  <2>1. <<s, cnt[s]>> \in Threads
    BY <1>2, NextSlot DEF AcceptFails
  <2>2. UNCHANGED <<jn, sock, addr, fd>> /\ pc' = [pc EXCEPT ![<<s, cnt[s]>>] = "failed"]
    BY <1>2 DEF AcceptFails, Goto
  <2>3. \A t \in Threads : pc'[t] \in Active => pc[t] \in Active
    BY <2>1, <2>2, Others DEF Active
  <2> QED BY <2>2, <2>3, SocketQuiet
<1>3. ASSUME NEW s \in Servers, Join(s) \/ JoinFails(s) \/ JoinsAnother(s), ~ProcessEnds
      PROVE  SocketInv'
  <2>1. jn'[s] = jn[s] + 1 /\ jn[s] \in 0 .. Slots
    BY <1>3 DEF Join, JoinFails, JoinsAnother, TypeOK, TypeSlots, slots
  <2>2. ~NobodyJoined'
    BY <2>1 DEF NobodyJoined
  <2> QED BY <2>2 DEF SocketInv
<1>4. ASSUME NEW t \in Threads, Session(t), ~ProcessEnds, ~CloseAndExit(t) PROVE SocketInv'
  <2>1. /\ pc[t] \in Active /\ \E l : pc' = [pc EXCEPT ![t] = l]
        /\ UNCHANGED <<jn, sock, addr>>
    BY <1>4, SessionStep DEF slots
  <2>2. UNCHANGED fd
    BY <1>4 DEF Session, LockSno, Draw, Number, SndNums, SendKills, Rcv, Recv, RecvRest, RecvEnd, Strtok,
                StrtokNull, LockQuery, QueryFails, QueryOk, Fetch, QueryCrashes, SndReply, SndLast
  <2> QED BY <2>1, <2>2, Others, SocketQuiet
<1>5. CASE Environment \/ Restart \/ UNCHANGED vars
  <2>1. UNCHANGED <<jn, sock, addr, fd, pc>>
    BY <1>5 DEF Environment, Connect, Request, RemoteCloses, Restart, vars, slots
  <2> QED BY <2>1, SocketQuiet
<1> QED BY <1>1, <1>2, <1>3, <1>4, <1>5, SocketAccept, SocketClose DEF Next, Acceptor, MainReturns, Killed

\* While nobody has joined a thread, no session can read from, write to or
\* close another session's connection.
THEOREM OwnSockets == Spec => []SocketIsOwn
<1>1. Init => SlotInv /\ SocketInv
  BY DEF Init, SlotInv, SocketInv, Active, Threads
<1>2. SocketInv => SocketIsOwn
  BY DEF SocketInv, SocketIsOwn, NobodyJoined, File
<1> QED BY TypeCorrect, SlotNext, SocketNext, <1>1, <1>2, PTL DEF Spec

-----------------------------------------------------------------------------
(* What stays open, also after acceptors have closed descriptors again. *)

Holds(t, f) == sock[t] = f /\ addr[t] = fd[f] /\ pc[t] \in Active \cup {"failed"}

\* A step that opens no descriptor and leaves alone those who hold the open
\* ones.
LEMMA HeldStays ==
  ASSUME OpenIsHeld, UNCHANGED <<sock, addr>>,
         \A f \in Fds : fd'[f] \in {None, fd[f]},
         \A t \in Threads, f \in Fds :
           fd'[f] # None /\ Holds(t, f) => pc'[t] \in Active \cup {"failed"}
  PROVE  OpenIsHeld'
  BY DEF OpenIsHeld, Holds

LEMMA ClosedFds ==
  ASSUME NEW d, fd' = Closed(d)
  PROVE  \A f \in Fds : fd'[f] = IF f = d THEN None ELSE fd[f]
  BY DEF Closed

LEMMA HeldAccept ==
  ASSUME TypeOK, SlotInv, OpenIsHeld, NEW s \in Servers, Accept(s)
  PROVE  OpenIsHeld'
<1> DEFINE n == <<s, cnt[s]>>
<1>1. n \in Threads /\ pc[n] = "free"
  BY NextSlot DEF Accept
<1>2. PICK f \in FreeFds, c \in Conns, l \in {Entry(s), "failed"} :
        /\ fd' = [fd EXCEPT ![f] = c]
        /\ sock' = [sock EXCEPT ![n] = f]
        /\ addr' = [addr EXCEPT ![n] = c]
        /\ pc' = [pc EXCEPT ![n] = l]
  <2>1. Head(backlog["clients"]) \in Conns
    BY DEF TypeOK, TypeWorld, Accept
  <2> QED BY <2>1 DEF Accept, Goto
<1>3. f \in Fds /\ fd'[f] = c /\ \A g \in Fds \ {f} : fd'[g] = fd[g]
  BY <1>2 DEF FreeFds, TypeOK, TypeWorld
<1>4. sock'[n] = f /\ addr'[n] = c /\ pc'[n] \in Active \cup {"failed"}
  BY <1>1, <1>2 DEF TypeOK, TypeSlots, TypeLocals, Entry, Active
<1>5. \A t \in Threads \ {n} : sock'[t] = sock[t] /\ addr'[t] = addr[t] /\ pc'[t] = pc[t]
  BY <1>1, <1>2, Others DEF TypeOK, TypeSlots
<1>6. "free" \notin Active \cup {"failed"}
  BY DEF Active
<1> HIDE DEF n
<1>7. ASSUME NEW g \in Fds, fd'[g] # None
      PROVE  \E t \in Threads : sock'[t] = g /\ addr'[t] = fd'[g] /\ pc'[t] \in Active \cup {"failed"}
  <2>1. CASE g = f
    BY <1>1, <1>3, <1>4, <2>1
  <2>2. CASE g # f
    <3>1. PICK t \in Threads : sock[t] = g /\ addr[t] = fd[g] /\ pc[t] \in Active \cup {"failed"}
      BY <1>3, <1>7, <2>2 DEF OpenIsHeld
    <3>2. t # n
      BY <1>1, <1>6, <3>1
    <3> QED BY <1>3, <1>5, <2>2, <3>1, <3>2
  <2> QED BY <2>1, <2>2
<1> QED BY <1>7 DEF OpenIsHeld

LEMMA HeldNext == TypeOK /\ SlotInv /\ OpenIsHeld /\ [Next]_vars => OpenIsHeld'
<1> SUFFICES ASSUME TypeOK, SlotInv, OpenIsHeld, [Next]_vars PROVE OpenIsHeld'
  OBVIOUS
<1>1. CASE ProcessEnds
  BY <1>1 DEF ProcessEnds, OpenIsHeld
<1>2. ASSUME NEW s \in Servers, AcceptFails(s) PROVE OpenIsHeld'
  <2>1. <<s, cnt[s]>> \in Threads
    BY <1>2, NextSlot DEF AcceptFails
  <2>2. UNCHANGED <<sock, addr, fd>> /\ pc' = [pc EXCEPT ![<<s, cnt[s]>>] = "failed"]
    BY <1>2 DEF AcceptFails, Goto
  <2>3. \A t \in Threads : pc[t] \in Active \cup {"failed"} => pc'[t] \in Active \cup {"failed"}
    BY <2>1, <2>2, Others
  <2> QED BY <2>2, <2>3, HeldStays DEF Holds
<1>3. ASSUME NEW s \in Servers, Join(s) \/ JoinFails(s), ~ProcessEnds PROVE OpenIsHeld'
  <2>1. UNCHANGED <<sock, addr, pc>> /\ (fd' = fd \/ \E d : fd' = Closed(d))
    BY <1>3 DEF Join, JoinFails
  <2>2. \A f \in Fds : fd'[f] \in {None, fd[f]}
    BY <2>1, ClosedFds
  <2> QED BY <2>1, <2>2, HeldStays DEF Holds
<1>4. ASSUME NEW s \in Servers, JoinsAnother(s) PROVE OpenIsHeld'
  <2>1. PICK u \in Threads : pc[u] = "exited" /\ pc' = [pc EXCEPT ![u] = "joined"]
    BY <1>4 DEF JoinsAnother, Goto
  <2>2. UNCHANGED <<sock, addr>> /\ \A f \in Fds : fd'[f] \in {None, fd[f]}
    BY <1>4, ClosedFds DEF JoinsAnother
  <2>3. \A t \in Threads : pc[t] \in Active \cup {"failed"} => pc'[t] = pc[t]
    BY <2>1, Others DEF Active
  <2> QED BY <2>2, <2>3, HeldStays DEF Holds
<1>5. ASSUME NEW t \in Threads, CloseAndExit(t), ~ProcessEnds PROVE OpenIsHeld'
  <2>1. UNCHANGED <<sock, addr>> /\ fd' = Closed(sock[t])
    BY <1>5 DEF CloseAndExit
  <2>2. \A f \in Fds : fd'[f] \in {None, fd[f]} /\ (fd'[f] # None => f # sock[t])
    BY <2>1, ClosedFds
  <2>3. \A u \in Threads \ {t} : pc'[u] = pc[u]
    BY <1>5, Others DEF CloseAndExit, Goto
  <2> QED BY <2>1, <2>2, <2>3, HeldStays DEF Holds
<1>6. ASSUME NEW t \in Threads, Session(t), ~ProcessEnds, ~CloseAndExit(t) PROVE OpenIsHeld'
  <2>1. /\ UNCHANGED <<sock, addr>> /\ \A u \in Threads \ {t} : pc'[u] = pc[u]
    BY <1>6, SessionStep, Others
  <2>2. UNCHANGED fd /\ pc'[t] \in Active
    BY <1>6 DEF Session, LockSno, Draw, Number, SndNums, SendKills, AfterSnd, Rcv, Recv, RecvRest,
                RecvEnd, Dispatch, Strtok, StrtokNull, LockQuery, QueryFails, QueryOk, Fetch,
                QueryCrashes, SndReply, SndLast, Goto, Active, TypeOK, TypeLocals
  <2> QED BY <2>1, <2>2, HeldStays DEF Holds
<1>7. CASE Environment \/ Restart \/ UNCHANGED vars
  <2>1. UNCHANGED <<sock, addr, fd, pc>>
    BY <1>7 DEF Environment, Connect, Request, RemoteCloses, Restart, vars
  <2> QED BY <2>1, HeldStays DEF Holds
<1> QED BY <1>1, <1>2, <1>3, <1>4, <1>5, <1>6, <1>7, HeldAccept
     DEF Next, Acceptor, MainReturns, Killed

\* No session that is over leaves a descriptor open, whatever else was closed
\* by mistake: what stays open without a session is a slot whose thread could
\* not be started.
THEOREM OpenHeld == Spec => []OpenIsHeld
<1>1. Init => SlotInv /\ OpenIsHeld
  BY DEF Init, SlotInv, OpenIsHeld, Threads
<1> QED BY TypeCorrect, SlotNext, HeldNext, <1>1, PTL DEF Spec

-----------------------------------------------------------------------------
(* The rows. *)

Inserts == [op : {"insert"}, nums : Nums]

\* The numbers that reached peers.
Told == {told[c] : c \in Peers} \ {None}

\* A request that is on its way or somewhere in the directory.
Asked(q) ==
  \/ \E c \in Conns : \E i \in 1 .. Len(inbox[c]) : inbox[c][i] = q
  \/ \E t \in Threads : cmd[t] = q \/ query[t] = q
  \/ tok = q

\* Every row, written or to be written, carries numbers some peer was told,
\* and in the first life a session still holds all numbers that were told.
RowInv ==
  /\ \A q \in Inserts : Asked(q) => q.nums \in Told
  /\ peers \subseteq Told
  /\ up /\ life = 1 =>
       \A c \in Conns : told[c] # None => \E t \in PeerThreads : nums[t] = told[c]

LEMMA PartsAreNoInserts ==
  /\ None \notin Inserts /\ Cut \notin Inserts /\ Remainder \notin Inserts
  /\ \A q \in Inserts : q.op = "insert" /\ q.nums \in Nums
<1>1. Inserts \subseteq Requests
  BY DEF Inserts, Requests
<1>2. None \notin Inserts
  BY <1>1, DirectoryAssumption
<1>3. \A q \in Inserts : q.op = "insert" /\ q.nums \in Nums
  BY DEF Inserts
<1>4. Cut.op # "insert" /\ Remainder.op # "insert"
  BY DEF Cut, Remainder
<1> QED BY <1>2, <1>3, <1>4

\* What a queue holds when its first record was read in part or as a whole.
LEMMA LeftElements ==
  ASSUME NEW q \in Seq(Requests), q # <<>>, NEW left \in {<<>>, <<Remainder>>}
  PROVE  \A i \in 1 .. Len(left \o Tail(q)) :
           \/ (left \o Tail(q))[i] = Remainder
           \/ \E j \in 1 .. Len(q) : (left \o Tail(q))[i] = q[j]
<1>1. /\ Tail(q) \in Seq(Requests) /\ <<>> \o Tail(q) = Tail(q)
      /\ \A i \in 1 .. Len(Tail(q)) : Tail(q)[i] = q[i + 1] /\ i + 1 \in 1 .. Len(q)
  BY TailElements
<1>2. CASE left = <<>>
  BY <1>1, <1>2
<1>3. CASE left = <<Remainder>>
  <2>1. /\ Len(left \o Tail(q)) = Len(Tail(q)) + 1 /\ Len(Tail(q)) \in Nat
        /\ (left \o Tail(q))[1] = Remainder
        /\ \A i \in 2 .. Len(Tail(q)) + 1 : (left \o Tail(q))[i] = Tail(q)[i - 1]
    BY <1>1, <1>3, PartsAreRequests
  <2> SUFFICES ASSUME NEW i \in 1 .. Len(left \o Tail(q)), i # 1
               PROVE  \E j \in 1 .. Len(q) : (left \o Tail(q))[i] = q[j]
    BY <2>1
  <2>2. i - 1 \in 1 .. Len(Tail(q)) /\ i \in 2 .. Len(Tail(q)) + 1
    BY <2>1
  <2> QED BY <1>1, <2>1, <2>2
<1> QED BY <1>2, <1>3

LEMMA InsertsAre ==
  ASSUME NEW q \in Requests, q.op = "insert" PROVE q \in Inserts
  BY DEF Requests, Inserts

\* A step that writes no row, tells nobody anything and takes up no request.
LEMMA RowQuiet ==
  ASSUME RowInv, UNCHANGED <<told, peers, nums>>,
         up' /\ life' = 1 => up /\ life = 1,
         \A q \in Inserts : Asked(q)' => Asked(q) \/ q.nums \in Told
  PROVE  RowInv'
  BY DEF RowInv, Told

LEMMA RowEnds == RowInv /\ ProcessEnds => RowInv'
<1> SUFFICES ASSUME RowInv, ProcessEnds PROVE RowInv'
  OBVIOUS
<1>1. \A q \in Inserts : ~Asked(q)'
  BY PartsAreNoInserts DEF ProcessEnds, OfNone, Asked
<1>2. Told' = Told /\ peers' = peers /\ ~up'
  BY DEF ProcessEnds, Told
<1> QED BY <1>1, <1>2 DEF RowInv

LEMMA RowSndNums ==
  ASSUME TypeOK, NumberInv, RowInv, NEW t \in Threads, SndNums(t), ~ProcessEnds
  PROVE  RowInv'
<1>1. /\ told' = [c \in Conns |-> IF c = File(t) /\ told[c] = None /\ remote[c] = "open"
                                    THEN nums[t] ELSE told[c]]
      /\ UNCHANGED <<up, life, inbox, cmd, query, tok, peers, nums>>
      /\ pc[t] = "snd_nums"
  BY DEF SndNums, SendKills, NumsText
<1>2. nums[t] # None /\ t \in PeerThreads
  BY <1>1 DEF TypeOK, LocalsReady, NumberInv, GrantInv
<1>3. \A c \in Conns : told'[c] = told[c] \/ (told[c] = None /\ told'[c] = nums[t])
  BY <1>1
<1>4. Told \subseteq Told'
  <2>1. Peers \subseteq Conns
    BY DirectoryAssumption
  <2> QED BY <1>3, <2>1 DEF Told
<1>5. \A q : Asked(q)' <=> Asked(q)
  BY <1>1 DEF Asked
<1> QED BY <1>1, <1>2, <1>3, <1>4, <1>5 DEF RowInv

LEMMA RowNumber ==
  ASSUME TypeOK, NumberInv, RowInv, NEW t \in Threads, Number(t)
  PROVE  RowInv'
<1>1. /\ nums[t] = None
      /\ \A u \in Threads \ {t} : nums'[u] = nums[u]
      /\ UNCHANGED <<up, life, inbox, cmd, query, tok, peers, told>>
  BY DEF Number, NumberInv, GrantInv, Early, TypeOK, TypeLocals
<1>2. \A q : Asked(q)' <=> Asked(q)
  BY <1>1 DEF Asked
<1>3. ASSUME up, life = 1, NEW c \in Conns, told[c] # None
      PROVE  \E u \in PeerThreads : nums'[u] = told[c]
  <2>1. PICK u \in PeerThreads : nums[u] = told[c]
    BY <1>3 DEF RowInv
  <2>2. u \in Threads /\ u # t
    BY <1>1, <1>3, <2>1, PeerThreadsFinite
  <2> QED BY <1>1, <2>1, <2>2
<1> QED BY <1>1, <1>2, <1>3 DEF RowInv, Told

LEMMA RowQueryOk ==
  ASSUME TypeOK, RowInv, NEW t \in Threads, QueryOk(t)
  PROVE  RowInv'
<1>1. /\ UNCHANGED <<up, life, inbox, cmd, query, tok, nums, told>>
      /\ query[t] \in Requests
      /\ peers' = IF query[t].op = "insert" THEN peers \cup {query[t].nums} ELSE peers
  BY DEF QueryOk, TypeOK, TypeLocals, Requested
<1>2. \A q : Asked(q)' <=> Asked(q)
  BY <1>1 DEF Asked
<1>3. query[t].op = "insert" => query[t].nums \in Told
  BY <1>1, InsertsAre DEF RowInv, Asked
<1> QED BY <1>1, <1>2, <1>3 DEF RowInv, Told

LEMMA RowSession ==
  ASSUME TypeOK, NumberInv, RowInv, NEW t \in Threads, Session(t), ~ProcessEnds
  PROVE  RowInv'
<1> USE PartsAreNoInserts
<1>1. CASE LockSno(t) \/ Draw(t) \/ Rcv(t) \/ RecvRest(t) \/ RecvEnd(t) \/ LockQuery(t)
           \/ QueryFails(t) \/ QueryCrashes(t) \/ SndReply(t) \/ SndLast(t) \/ CloseAndExit(t)
  <2>1. UNCHANGED <<up, life, inbox, cmd, query, tok, nums, told, peers>>
    BY <1>1 DEF LockSno, Draw, Rcv, RecvRest, RecvEnd, LockQuery, QueryFails, QueryCrashes,
                SndReply, SndLast, SendKills, CloseAndExit
  <2> QED BY <2>1, RowQuiet DEF Asked
<1>2. CASE Recv(t)
  <2> DEFINE c == on[t]
             old == inbox[c]
  <2>1. PICK got \in Arrivals(Head(inbox[on[t]])) :
          /\ cmd' = [cmd EXCEPT ![t] = got.text]
          /\ inbox' = [inbox EXCEPT ![on[t]] = got.left \o Tail(inbox[on[t]])]
          /\ UNCHANGED <<up, life, query, tok, nums, told, peers>>
    BY <1>2 DEF Recv
  <2>2. c \in Conns /\ old \in Seq(Requests) /\ old # <<>>
    BY <1>2 DEF Recv, TypeOK, LocalsReady, TypeLocals, TypeNet
  <2>3. got.text \in {Head(old), Cut} /\ got.left \in {<<>>, <<Remainder>>}
    BY DEF Arrivals
  <2>4. Head(old) = old[1] /\ 1 \in 1 .. Len(old)
    BY <2>2
  <2>5. inbox'[c] = got.left \o Tail(old) /\ \A d \in Conns \ {c} : inbox'[d] = inbox[d]
    BY <2>1, <2>2 DEF TypeOK, TypeNet
  <2>6. \A i \in 1 .. Len(inbox'[c]) :
          inbox'[c][i] = Remainder \/ \E j \in 1 .. Len(old) : inbox'[c][i] = old[j]
    <3>1. \A i \in 1 .. Len(got.left \o Tail(old)) :
            \/ (got.left \o Tail(old))[i] = Remainder
            \/ \E j \in 1 .. Len(old) : (got.left \o Tail(old))[i] = old[j]
      <4> HIDE DEF old
      <4> QED BY <2>2, <2>3, LeftElements
    <3> QED BY <2>5, <3>1
  <2>7. \A u \in Threads \ {t} : cmd'[u] = cmd[u]
    BY <2>1 DEF TypeOK, TypeLocals
  <2>8. cmd'[t] \in {old[1], Cut}
    BY <2>1, <2>3, <2>4 DEF TypeOK, TypeLocals
  <2>9. ASSUME NEW q \in Inserts, Asked(q)' PROVE Asked(q)
    <3>1. CASE \E d \in Conns : \E i \in 1 .. Len(inbox'[d]) : inbox'[d][i] = q
      <4>1. PICK d \in Conns : \E i \in 1 .. Len(inbox'[d]) : inbox'[d][i] = q
        BY <3>1
      <4>2. CASE d = c
        <5>1. \E j \in 1 .. Len(inbox[c]) : inbox[c][j] = q
          BY <2>6, <4>1, <4>2
        <5> QED BY <2>2, <5>1 DEF Asked
      <4>3. CASE d # c
        BY <2>5, <4>1, <4>3 DEF Asked
      <4> QED BY <4>2, <4>3
    <3>2. CASE \E u \in Threads : cmd'[u] = q \/ query'[u] = q
      BY <2>1, <2>2, <2>4, <2>7, <2>8, <3>2 DEF Asked
    <3>3. CASE tok' = q
      BY <2>1, <3>3 DEF Asked
    <3> QED BY <2>9, <3>1, <3>2, <3>3 DEF Asked
  <2> QED BY <2>1, <2>9, RowQuiet
<1>3. CASE Strtok(t)
  <2>1. /\ tok' \in {None, cmd[t]}
        /\ UNCHANGED <<up, life, inbox, cmd, query, nums, told, peers>>
    BY <1>3 DEF Strtok
  <2>2. \A q \in Inserts : Asked(q)' => Asked(q)
    BY <2>1 DEF Asked
  <2> QED BY <2>1, <2>2, RowQuiet
<1>4. CASE StrtokNull(t)
  <2>1. /\ tok' = None /\ query' = [query EXCEPT ![t] = tok]
        /\ UNCHANGED <<up, life, inbox, cmd, nums, told, peers>>
    BY <1>4 DEF StrtokNull
  <2>2. \A q \in Inserts : Asked(q)' => Asked(q)
    BY <2>1 DEF Asked, TypeOK, TypeLocals
  <2> QED BY <2>1, <2>2, RowQuiet
<1>5. CASE Fetch(t)
  <2>1. /\ cmd' = [cmd EXCEPT ![t] = None] /\ query' = [query EXCEPT ![t] = None]
        /\ UNCHANGED <<up, life, inbox, tok, nums, told, peers>>
    BY <1>5 DEF Fetch
  <2>2. \A q \in Inserts : Asked(q)' => Asked(q)
    BY <2>1 DEF Asked, TypeOK, TypeLocals
  <2> QED BY <2>1, <2>2, RowQuiet
<1> QED BY <1>1, <1>2, <1>3, <1>4, <1>5, RowNumber, RowSndNums, RowQueryOk DEF Session

LEMMA RowRequest ==
  ASSUME TypeOK, RowInv, NEW c \in Conns, Request(c)
  PROVE  RowInv'
<1>1. PICK req \in Asks(c) :
        /\ inbox' = [inbox EXCEPT ![c] = Append(inbox[c], req)]
        /\ UNCHANGED <<up, life, cmd, query, tok, nums, told, peers>>
  BY DEF Request
<1>2. req \in Inserts => req.nums \in Told
  BY DEF Asks, Inserts, Told
<1>3. inbox[c] \in Seq(Requests)
  BY DEF TypeOK, TypeNet
<1>4. /\ inbox'[c] = Append(inbox[c], req)
      /\ \A d \in Conns \ {c} : inbox'[d] = inbox[d]
  BY <1>1 DEF TypeOK, TypeNet
<1>5. \A i \in 1 .. Len(inbox'[c]) :
        inbox'[c][i] = req \/ (i \in 1 .. Len(inbox[c]) /\ inbox'[c][i] = inbox[c][i])
  BY <1>3, <1>4
<1>6. \A q \in Inserts : Asked(q)' => Asked(q) \/ q = req
  BY <1>1, <1>4, <1>5 DEF Asked
<1> QED BY <1>1, <1>2, <1>6, RowQuiet

LEMMA RowNext == TypeOK /\ NumberInv /\ RowInv /\ [Next]_vars => RowInv'
<1> SUFFICES ASSUME TypeOK, NumberInv, RowInv, [Next]_vars, ~ProcessEnds PROVE RowInv'
  BY RowEnds
<1>1. ASSUME NEW s \in Servers, Acceptor(s) PROVE RowInv'
  <2>1. UNCHANGED <<up, life, inbox, cmd, query, tok, nums, told, peers>>
    BY <1>1 DEF Acceptor, Accept, AcceptFails, Join, JoinFails, JoinsAnother
  <2> QED BY <2>1, RowQuiet DEF Asked
<1>2. CASE Restart
  <2>1. UNCHANGED <<inbox, cmd, query, tok, nums, told, peers>> /\ life' # 1
    BY <1>2 DEF Restart, TypeOK, TypeWorld
  <2> QED BY <2>1, RowQuiet DEF Asked
<1>3. ASSUME NEW c \in Conns, Connect(c) \/ RemoteCloses(c) PROVE RowInv'
  <2>1. UNCHANGED <<up, life, inbox, cmd, query, tok, nums, told, peers>>
    BY <1>3 DEF Connect, RemoteCloses
  <2> QED BY <2>1, RowQuiet DEF Asked
<1>4. CASE UNCHANGED vars
  BY <1>4, RowQuiet DEF vars, Asked
<1> QED BY <1>1, <1>2, <1>3, <1>4, RowSession, RowRequest
        DEF Next, Environment, MainReturns, Killed

\* Whichever session a query ends up in and however its record was split, the
\* table only gets numbers that the directory gave to a peer.
THEOREM GrantedRows == Spec => []RowsWereGranted
<1>1. Init => RowInv
  BY PartsAreNoInserts DEF Init, RowInv, Asked, OfNone
<1>2. RowInv => RowsWereGranted
  <2> SUFFICES ASSUME RowInv, NEW p \in peers
               PROVE  /\ \E c \in Peers : told[c] = p
                      /\ up /\ life = 1 => \E t \in PeerThreads : nums[t] = p
    BY DEF RowsWereGranted
  <2>1. PICK c \in Peers : told[c] = p /\ p # None
    BY DEF RowInv, Told
  <2>2. c \in Conns
    BY DirectoryAssumption
  <2> QED BY <2>1, <2>2 DEF RowInv
<1> QED BY Invariant, RowNext, <1>1, <1>2, PTL DEF Spec

-----------------------------------------------------------------------------
(* What is told. *)

\* A process that is gone has no thread.
DownInv == ~up => \A t \in Threads : pc[t] = "free"

LEMMA DownNext == TypeOK /\ DownInv /\ [Next]_vars => DownInv'
<1> SUFFICES ASSUME TypeOK, DownInv, [Next]_vars PROVE DownInv'
  OBVIOUS
<1>1. CASE ProcessEnds
  BY <1>1 DEF ProcessEnds, DownInv
<1>2. ASSUME NEW s \in Servers, Acceptor(s), ~ProcessEnds PROVE DownInv'
  BY <1>2 DEF Acceptor, Accept, AcceptFails, Join, JoinFails, JoinsAnother, Accepting, Joining, DownInv
<1>3. ASSUME NEW t \in Threads, Session(t), ~ProcessEnds PROVE DownInv'
  <2>1. pc[t] # "free" /\ up' = up
    BY <1>3, SessionStep DEF Active
  <2> QED BY <2>1 DEF DownInv
<1>4. CASE Restart \/ Environment \/ UNCHANGED vars
  BY <1>4 DEF Restart, Environment, Connect, Request, RemoteCloses, vars, DownInv
<1> QED BY <1>1, <1>2, <1>3, <1>4 DEF Next, MainReturns, Killed

Untold == Early \cup {"snd_nums"}

\* Each connection that was told numbers got them in some life of the process,
\* and no serial number was told twice in one life.  What that rests on: the
\* numbers told in this life are those of a session which has them behind it,
\* so the next session to tell its numbers is another one.
ToldIn(in_life) ==
  /\ \A c, d \in Conns :
       c # d /\ told[c] # None /\ told[d] # None /\ told[c].sno = told[d].sno
         => in_life[c] # in_life[d]
  /\ up => \A c \in Conns :
       told[c] # None /\ in_life[c] = life =>
         \E u \in PeerThreads : nums[u] = told[c] /\ pc[u] \notin Untold

ToldInv == \E in_life \in [Conns -> 1 .. life] : ToldIn(in_life)

\* A step that tells nobody anything and takes no session back.
LEMMA ToldQuiet ==
  ASSUME ToldInv, UNCHANGED <<told, life>>, up' => up,
         \A u \in PeerThreads : pc[u] \notin Untold => nums'[u] = nums[u] /\ pc'[u] \notin Untold
  PROVE  ToldInv'
<1>1. PICK in_life \in [Conns -> 1 .. life] : ToldIn(in_life)
  BY DEF ToldInv
<1>2. ToldIn(in_life)'
  BY <1>1 DEF ToldIn
<1> QED BY <1>2 DEF ToldInv

LEMMA ToldSndNums ==
  ASSUME TypeOK, DownInv, NumberInv, ToldInv, NEW t \in Threads, SndNums(t), ~ProcessEnds
  PROVE  ToldInv'
<1>1. /\ told' = [c \in Conns |-> IF c = File(t) /\ told[c] = None /\ remote[c] = "open"
                                    THEN nums[t] ELSE told[c]]
      /\ UNCHANGED <<up, life, nums>> /\ pc[t] = "snd_nums"
  BY DEF SndNums, SendKills, NumsText
<1>2. pc'[t] \notin Untold /\ \A u \in Threads \ {t} : pc'[u] = pc[u]
  <2>1. PICK l \in {"last", "rcv"} : pc' = [pc EXCEPT ![t] = l]
    BY DEF SndNums, SendKills, AfterSnd, Goto
  <2> QED BY <2>1, Others DEF Untold, Early
<1>3. nums[t] # None /\ t \in PeerThreads
  BY <1>1 DEF TypeOK, LocalsReady, NumberInv, GrantInv
<1>4. \A c \in Conns : told'[c] = told[c] \/ (c = File(t) /\ told'[c] = nums[t])
  BY <1>1
<1>5. PICK in_life \in [Conns -> 1 .. life] : ToldIn(in_life)
  BY DEF ToldInv
<1>6. up /\ life \in Nat /\ life >= 1
  BY <1>1 DEF DownInv, TypeOK, TypeWorld
<1> DEFINE now == [c \in Conns |-> IF told'[c] = told[c] THEN in_life[c] ELSE life]
<1>7. now \in [Conns -> 1 .. life']
  BY <1>1, <1>5, <1>6
<1>8. ASSUME NEW c \in Conns, told[c] # None, in_life[c] = life
      PROVE  /\ told[c].sno # nums[t].sno
             /\ \E u \in PeerThreads \ {t} : nums[u] = told[c] /\ pc[u] \notin Untold
  <2>1. PICK u \in PeerThreads : nums[u] = told[c] /\ pc[u] \notin Untold
    BY <1>5, <1>6, <1>8 DEF ToldIn
  <2>2. u # t
    BY <1>1, <2>1 DEF Untold
  <2> QED BY <1>3, <1>8, <2>1, <2>2, PeerThreadsFinite DEF NumberInv, HeldInv
<1>9. ASSUME NEW c \in Conns, NEW d \in Conns, c # d,
             told'[c] # None, told'[d] # None, told'[c].sno = told'[d].sno
      PROVE  now[c] # now[d]
  <2>1. CASE told'[c] = told[c] /\ told'[d] = told[d]
    BY <1>5, <1>9, <2>1 DEF ToldIn
  <2>2. CASE told'[c] # told[c] /\ told'[d] = told[d]
    <3>1. told'[c] = nums[t] /\ now[c] = life /\ now[d] = in_life[d]
      BY <1>4, <2>2
    <3> QED BY <1>8, <1>9, <2>2, <3>1
  <2>3. CASE told'[c] = told[c] /\ told'[d] # told[d]
    <3>1. told'[d] = nums[t] /\ now[d] = life /\ now[c] = in_life[c]
      BY <1>4, <2>3
    <3> QED BY <1>8, <1>9, <2>3, <3>1
  <2> QED BY <1>4, <1>9, <2>1, <2>2, <2>3
<1>10. ASSUME NEW c \in Conns, told'[c] # None, now[c] = life'
       PROVE  \E u \in PeerThreads : nums'[u] = told'[c] /\ pc'[u] \notin Untold
  <2>1. CASE told'[c] = told[c]
    <3>1. told[c] # None /\ in_life[c] = life
      BY <1>1, <1>10, <2>1
    <3>2. PICK u \in PeerThreads \ {t} : nums[u] = told[c] /\ pc[u] \notin Untold
      BY <1>8, <3>1
    <3> QED BY <1>1, <1>2, <2>1, <3>2, PeerThreadsFinite
  <2>2. CASE told'[c] # told[c]
    BY <1>1, <1>2, <1>3, <1>4, <2>2
  <2> QED BY <2>1, <2>2
<1> HIDE DEF now
<1>11. PICK f \in [Conns -> 1 .. life'] : f = now
  BY <1>7
<1>12. ToldIn(f)'
  BY <1>9, <1>10, <1>11 DEF ToldIn
<1> QED BY <1>12 DEF ToldInv

LEMMA ToldSession ==
  ASSUME TypeOK, DownInv, NumberInv, ToldInv, NEW t \in Threads, Session(t), ~ProcessEnds
  PROVE  ToldInv'
<1>0. /\ UNCHANGED <<up, life>>
      /\ \A u \in Threads \ {t} : pc'[u] = pc[u]
  BY SessionStep, Others
<1>1. CASE SndNums(t)
  BY <1>1, ToldSndNums
<1>2. CASE ~SndNums(t)
  <2>1. UNCHANGED told
    BY <1>2 DEF Session, LockSno, Draw, Number, Rcv, Recv, RecvRest, RecvEnd, Strtok, StrtokNull,
                LockQuery, QueryFails, QueryOk, Fetch, QueryCrashes, SndReply, SendKills, SndLast,
                CloseAndExit
  <2>2. \A u \in Threads \ {t} : nums'[u] = nums[u]
    BY <1>2 DEF Session, LockSno, Draw, Number, Rcv, Recv, RecvRest, RecvEnd, Strtok, StrtokNull,
                LockQuery, QueryFails, QueryOk, Fetch, QueryCrashes, SndReply, SendKills, SndLast,
                CloseAndExit, TypeOK, TypeLocals
  <2>3. pc[t] \notin Untold => nums'[t] = nums[t] /\ pc'[t] \notin Untold
    BY <1>2 DEF Session, LockSno, Draw, Number, Rcv, Recv, RecvRest, RecvEnd, Dispatch, Strtok,
                StrtokNull, LockQuery, QueryFails, QueryOk, Fetch, QueryCrashes, SndReply, SendKills,
                AfterSnd, SndLast, CloseAndExit, Goto, Untold, Early, TypeOK, TypeLocals
  <2> QED BY <1>0, <2>1, <2>2, <2>3, PeerThreadsFinite, ToldQuiet
<1> QED BY <1>1, <1>2

LEMMA ToldNext ==
  TypeOK /\ SlotInv /\ DownInv /\ NumberInv /\ ToldInv /\ [Next]_vars => ToldInv'
<1> SUFFICES ASSUME TypeOK, SlotInv, DownInv, NumberInv, ToldInv, [Next]_vars PROVE ToldInv'
  OBVIOUS
<1>1. CASE ProcessEnds
  <2>1. ~up' /\ UNCHANGED <<life, told>>
    BY <1>1 DEF ProcessEnds
  <2>2. PICK in_life \in [Conns -> 1 .. life] : ToldIn(in_life)
    BY DEF ToldInv
  <2>3. ToldIn(in_life)'
    BY <2>1, <2>2 DEF ToldIn
  <2> QED BY <2>1, <2>3 DEF ToldInv
<1>2. ASSUME NEW s \in Servers, Accept(s) \/ AcceptFails(s) PROVE ToldInv'
  <2>1. <<s, cnt[s]>> \in Threads /\ pc[<<s, cnt[s]>>] = "free"
    BY <1>2, NextSlot DEF Accept, AcceptFails
  <2>2. \A u \in Threads \ {<<s, cnt[s]>>} : pc'[u] = pc[u]
    BY <1>2, <2>1, Others DEF Accept, AcceptFails, Goto
  <2>3. UNCHANGED <<up, life, nums, told>>
    BY <1>2 DEF Accept, AcceptFails
  <2> QED BY <2>1, <2>2, <2>3, PeerThreadsFinite, ToldQuiet DEF Untold, Early
<1>3. ASSUME NEW s \in Servers, Join(s) \/ JoinFails(s), ~ProcessEnds PROVE ToldInv'
  BY <1>3, ToldQuiet DEF Join, JoinFails
<1>4. ASSUME NEW s \in Servers, JoinsAnother(s) PROVE ToldInv'
  <2>1. PICK u \in Threads : pc[u] = "exited" /\ pc' = [pc EXCEPT ![u] = "joined"]
    BY <1>4 DEF JoinsAnother, Goto
  <2>2. UNCHANGED <<up, life, nums, told>>
    BY <1>4 DEF JoinsAnother
  <2>3. pc'[u] = "joined" /\ \A v \in Threads \ {u} : pc'[v] = pc[v]
    BY <2>1, Others
  <2> QED BY <2>2, <2>3, PeerThreadsFinite, ToldQuiet DEF Untold, Early
<1>5. CASE Restart
  <2>1. life' = life + 1 /\ UNCHANGED told /\ life \in Nat
    BY <1>5 DEF Restart, TypeOK, TypeWorld
  <2>2. PICK in_life \in [Conns -> 1 .. life] : ToldIn(in_life)
    BY DEF ToldInv
  <2>3. in_life \in [Conns -> 1 .. life'] /\ \A c \in Conns : in_life[c] # life'
    BY <2>1, <2>2
  <2>4. ToldIn(in_life)'
    BY <2>1, <2>2, <2>3 DEF ToldIn
  <2> QED BY <2>3, <2>4 DEF ToldInv
<1>6. CASE Environment \/ UNCHANGED vars
  BY <1>6, ToldQuiet DEF Environment, Connect, Request, RemoteCloses, vars
<1> QED BY <1>1, <1>2, <1>3, <1>4, <1>5, <1>6, ToldSession DEF Next, Acceptor, MainReturns, Killed

\* In no life does a serial number reach two connections, although a session's
\* descriptor may lead anywhere by then, and so the table gets at most one row
\* with it for each life, however often the directory is started.
THEOREM OnceTold == Spec => []ToldOnce
<1>1. Init => RowInv /\ DownInv /\ ToldInv
  <2> SUFFICES ASSUME Init PROVE RowInv /\ DownInv /\ ToldInv
    OBVIOUS
  <2>1. RowInv /\ DownInv
    BY PartsAreNoInserts DEF Init, RowInv, DownInv, Asked, OfNone
  <2>2. [c \in Conns |-> 1] \in [Conns -> 1 .. life] /\ \A c \in Conns : told[c] = None
    BY DEF Init
  <2>3. ToldIn([c \in Conns |-> 1])
    BY <2>2 DEF ToldIn
  <2> QED BY <2>1, <2>2, <2>3 DEF ToldInv
<1>2. RowInv /\ ToldInv => ToldOnce
  <2> SUFFICES ASSUME RowInv, ToldInv PROVE ToldOnce
    OBVIOUS
  <2>1. PICK in_life \in [Conns -> 1 .. life] : ToldIn(in_life)
    BY DEF ToldInv
  <2> DEFINE Owner(p) == CHOOSE c \in Conns : told[c] = p
  <2>2. ASSUME NEW p \in peers PROVE p # None /\ Owner(p) \in Conns /\ told[Owner(p)] = p
    <3>1. PICK c \in Peers : told[c] = p /\ p # None
      BY DEF RowInv, Told
    <3>2. c \in Conns
      BY DirectoryAssumption
    <3> QED BY <3>1, <3>2
  <2> DEFINE row_life == [p \in peers |-> in_life[Owner(p)]]
  <2> HIDE DEF Owner
  <2>3. row_life \in [peers -> 1 .. life]
    BY <2>1, <2>2
  <2>4. ASSUME NEW p \in peers, NEW q \in peers, p # q, p.sno = q.sno
        PROVE  row_life[p] # row_life[q]
    BY <2>1, <2>2, <2>4 DEF ToldIn
  <2> HIDE DEF row_life
  <2> QED BY <2>1, <2>3, <2>4 DEF ToldOnce, ToldIn
<1> QED BY Invariant, RowNext, DownNext, ToldNext, <1>1, <1>2, PTL DEF Spec

-----------------------------------------------------------------------------
(* Requests and replies. *)

Backlog == backlog["clients"]

\* No connection is accepted twice: it waits at one place of the queue, then
\* it belongs to one slot, and only a new one joins the queue.
AddrInv ==
  /\ \A t, u \in Threads : t # u /\ addr[t] # None => addr[t] # addr[u]
  /\ \A t \in Threads : addr[t] # None =>
       /\ remote[addr[t]] # "idle"
       /\ \A i \in 1 .. Len(Backlog) : Backlog[i] # addr[t]
  /\ \A i \in 1 .. Len(Backlog) : remote[Backlog[i]] # "idle"
  /\ \A i, j \in 1 .. Len(Backlog) : Backlog[i] = Backlog[j] => i = j

LEMMA AddrQuiet ==
  ASSUME AddrInv, TypeOK, UNCHANGED <<addr, backlog>>,
         \A c \in Conns : remote[c] # "idle" => remote'[c] # "idle"
  PROVE  AddrInv'
<1>1. \A i \in 1 .. Len(Backlog) : Backlog[i] \in Conns
  BY DEF Backlog, TypeOK, TypeWorld
<1>2. \A t \in Threads : addr[t] # None => addr[t] \in Conns
  BY DEF TypeOK, TypeSlots
<1>3. Backlog' = Backlog
  BY DEF Backlog
<1> QED BY <1>1, <1>2, <1>3 DEF AddrInv

\* The first of the queue is taken, by slot n or by none.
LEMMA AddrTakes ==
  ASSUME TypeOK, AddrInv, Backlog # <<>>, Backlog' = Tail(Backlog), remote' = remote
  PROVE  /\ \A i \in 1 .. Len(Backlog') : Backlog'[i] = Backlog[i + 1] /\ Backlog'[i] # Head(Backlog)
         /\ \A i, j \in 1 .. Len(Backlog') : Backlog'[i] = Backlog'[j] => i = j
         /\ \A i \in 1 .. Len(Backlog') : i + 1 \in 1 .. Len(Backlog)
         /\ Head(Backlog) \in Conns /\ remote[Head(Backlog)] # "idle"
         /\ \A t \in Threads : addr[t] # Head(Backlog)
<1>1. Backlog \in Seq(Conns)
  BY DEF Backlog, TypeOK, TypeWorld
<1>2. /\ Len(Backlog) \in Nat /\ Len(Backlog) >= 1
      /\ Head(Backlog) = Backlog[1] /\ Head(Backlog) \in Conns
      /\ Len(Tail(Backlog)) = Len(Backlog) - 1
      /\ \A i \in 1 .. Len(Tail(Backlog)) : Tail(Backlog)[i] = Backlog[i + 1]
  BY <1>1
<1>3. \A i \in 1 .. Len(Tail(Backlog)) : i + 1 \in 1 .. Len(Backlog) /\ i + 1 # 1
  BY <1>2
<1>4. \A i, j \in 1 .. Len(Backlog) : Backlog[i] = Backlog[j] => i = j
  BY DEF AddrInv
<1>5. \A i \in 1 .. Len(Backlog') : Backlog'[i] = Backlog[i + 1] /\ Backlog'[i] # Head(Backlog)
  BY <1>2, <1>3, <1>4
<1>6. \A i, j \in 1 .. Len(Backlog') : Backlog'[i] = Backlog'[j] => i = j
  <2> SUFFICES ASSUME NEW i \in 1 .. Len(Backlog'), NEW j \in 1 .. Len(Backlog'),
                      Backlog'[i] = Backlog'[j]
               PROVE  i = j
    OBVIOUS
  <2>1. i + 1 = j + 1
    BY <1>3, <1>4, <1>5
  <2>2. i \in Int /\ j \in Int
    BY <1>2
  <2> QED BY <2>1, <2>2
<1>7. remote[Head(Backlog)] # "idle"
  BY <1>2 DEF AddrInv
<1>8. \A t \in Threads : addr[t] # Head(Backlog)
  BY <1>2, DirectoryAssumption DEF AddrInv
<1> QED BY <1>2, <1>3, <1>5, <1>6, <1>7, <1>8

LEMMA AddrAccept ==
  ASSUME TypeOK, SlotInv, AddrInv, NEW s \in Servers, Accept(s)
  PROVE  AddrInv'
<1> DEFINE n == <<s, cnt[s]>>
           c == Head(Backlog)
<1>1. n \in Threads
  BY NextSlot DEF Accept
<1>2. /\ Backlog # <<>> /\ Backlog' = Tail(Backlog) /\ remote' = remote
      /\ addr' = [addr EXCEPT ![n] = c]
  BY DEF Accept, Backlog, TypeOK, TypeWorld
<1>3. /\ \A i \in 1 .. Len(Backlog') : Backlog'[i] = Backlog[i + 1] /\ Backlog'[i] # c
      /\ \A i, j \in 1 .. Len(Backlog') : Backlog'[i] = Backlog'[j] => i = j
      /\ \A i \in 1 .. Len(Backlog') : i + 1 \in 1 .. Len(Backlog)
      /\ c \in Conns /\ remote[c] # "idle"
      /\ \A t \in Threads : addr[t] # c
  BY <1>2, AddrTakes
<1> HIDE DEF c
<1>4. addr'[n] = c /\ \A t \in Threads \ {n} : addr'[t] = addr[t]
  BY <1>1, <1>2 DEF TypeOK, TypeSlots
<1>5. \A t, u \in Threads : t # u /\ addr'[t] # None => addr'[t] # addr'[u]
  BY <1>3, <1>4 DEF AddrInv
<1>6. \A t \in Threads : addr'[t] # None =>
        remote'[addr'[t]] # "idle" /\ \A i \in 1 .. Len(Backlog') : Backlog'[i] # addr'[t]
  <2> SUFFICES ASSUME NEW t \in Threads, addr'[t] # None
               PROVE  /\ remote'[addr'[t]] # "idle"
                      /\ \A i \in 1 .. Len(Backlog') : Backlog'[i] # addr'[t]
    OBVIOUS
  <2>1. CASE t = n
    <3>1. addr'[t] = c /\ remote'[c] = remote[c]
      BY <1>2, <1>4, <2>1
    <3> QED BY <1>3, <3>1
  <2>2. CASE t # n
    <3>1. /\ addr'[t] = addr[t] /\ remote[addr[t]] # "idle"
          /\ \A i \in 1 .. Len(Backlog) : Backlog[i] # addr[t]
      BY <1>4, <2>2 DEF AddrInv
    <3> QED BY <1>2, <1>3, <3>1
  <2> QED BY <2>1, <2>2
<1>7. \A i \in 1 .. Len(Backlog') : remote'[Backlog'[i]] # "idle"
  BY <1>2, <1>3 DEF AddrInv
<1> QED BY <1>3, <1>5, <1>6, <1>7 DEF AddrInv

LEMMA AddrAcceptFails ==
  ASSUME TypeOK, AddrInv, NEW s \in Servers, AcceptFails(s)
  PROVE  AddrInv'
<1>1. remote' = remote /\ addr' = addr
  BY DEF AcceptFails
<1>2. CASE backlog' = backlog
  BY <1>1, <1>2, AddrQuiet
<1>3. CASE backlog' # backlog
  <2>1. Backlog # <<>> /\ Backlog' = Tail(Backlog)
    BY <1>3 DEF AcceptFails, Backlog, TypeOK, TypeWorld
  <2>2. /\ \A i \in 1 .. Len(Backlog') : Backlog'[i] = Backlog[i + 1]
        /\ \A i, j \in 1 .. Len(Backlog') : Backlog'[i] = Backlog'[j] => i = j
        /\ \A i \in 1 .. Len(Backlog') : i + 1 \in 1 .. Len(Backlog)
    BY <1>1, <2>1, AddrTakes
  <2>3. \A i \in 1 .. Len(Backlog') : remote'[Backlog'[i]] # "idle"
    BY <1>1, <2>2 DEF AddrInv
  <2>4. \A t \in Threads : addr'[t] # None =>
          remote'[addr'[t]] # "idle" /\ \A i \in 1 .. Len(Backlog') : Backlog'[i] # addr'[t]
    BY <1>1, <2>2 DEF AddrInv
  <2> QED BY <1>1, <2>2, <2>3, <2>4 DEF AddrInv
<1> QED BY <1>2, <1>3

LEMMA AddrConnect ==
  ASSUME TypeOK, AddrInv, NEW c \in Conns, Connect(c)
  PROVE  AddrInv'
<1>1. PICK p \in Ports : backlog' = [backlog EXCEPT ![p] = Append(@, c)]
  BY DEF Connect
<1>2. /\ remote[c] = "idle" /\ addr' = addr
      /\ remote'[c] = "open" /\ \A d \in Conns : remote[d] # "idle" => remote'[d] # "idle"
  BY DEF Connect, TypeOK, TypeNet
<1>3. Backlog \in Seq(Conns)
  BY DEF Backlog, TypeOK, TypeWorld
<1>4. CASE p = "clients"
  <2>1. Backlog' = Append(Backlog, c)
    BY <1>1, <1>4 DEF Backlog, TypeOK, TypeWorld
  <2>2. /\ Len(Backlog') = Len(Backlog) + 1 /\ Len(Backlog) \in Nat
        /\ Backlog'[Len(Backlog) + 1] = c
        /\ \A i \in 1 .. Len(Backlog) : Backlog'[i] = Backlog[i] /\ Backlog[i] \in Conns
    BY <1>3, <2>1
  <2>3. \A i \in 1 .. Len(Backlog) : Backlog'[i] # c
    BY <1>2, <2>2 DEF AddrInv
  <2>4. \A i \in 1 .. Len(Backlog') : i \in 1 .. Len(Backlog) \/ i = Len(Backlog) + 1
    BY <2>2
  <2>5. \A i, j \in 1 .. Len(Backlog') : Backlog'[i] = Backlog'[j] => i = j
    BY <2>2, <2>3, <2>4 DEF AddrInv
  <2>6. \A i \in 1 .. Len(Backlog') : remote'[Backlog'[i]] # "idle"
    BY <1>2, <2>2, <2>4 DEF AddrInv
  <2>7. \A t \in Threads : addr'[t] # None =>
          remote'[addr'[t]] # "idle" /\ \A i \in 1 .. Len(Backlog') : Backlog'[i] # addr'[t]
    BY <1>2, <2>2, <2>4 DEF AddrInv, TypeOK, TypeSlots
  <2> QED BY <1>2, <2>5, <2>6, <2>7 DEF AddrInv
<1>5. CASE p # "clients"
  <2>1. Backlog' = Backlog
    BY <1>1, <1>5 DEF Backlog, TypeOK, TypeWorld
  <2>2. \A i \in 1 .. Len(Backlog) : Backlog[i] \in Conns
    BY <1>3
  <2>3. \A t \in Threads : addr[t] # None => addr[t] \in Conns
    BY DEF TypeOK, TypeSlots
  <2> QED BY <1>2, <2>1, <2>2, <2>3 DEF AddrInv
<1> QED BY <1>4, <1>5

LEMMA AddrNext == TypeOK /\ SlotInv /\ AddrInv /\ [Next]_vars => AddrInv'
<1> SUFFICES ASSUME TypeOK, SlotInv, AddrInv, [Next]_vars PROVE AddrInv'
  OBVIOUS
<1>1. CASE ProcessEnds
  <2>1. (\A t \in Threads : addr'[t] = None) /\ Backlog' = <<>>
    BY <1>1 DEF ProcessEnds, OfNone, Backlog
  <2> QED BY <2>1 DEF AddrInv
<1>2. ASSUME NEW t \in Threads, Session(t), ~ProcessEnds PROVE AddrInv'
  <2>1. UNCHANGED <<addr, backlog>>
    BY <1>2, SessionStep
  <2>2. UNCHANGED remote
    BY <1>2 DEF Session, LockSno, Draw, Number, SndNums, SendKills, Rcv, Recv, RecvRest, RecvEnd,
                Strtok, StrtokNull, LockQuery, QueryFails, QueryOk, Fetch, QueryCrashes, SndReply,
                SndLast, CloseAndExit
  <2> QED BY <2>1, <2>2, AddrQuiet
<1>3. ASSUME NEW s \in Servers, Join(s) \/ JoinFails(s) \/ JoinsAnother(s), ~ProcessEnds
      PROVE  AddrInv'
  BY <1>3, AddrQuiet DEF Join, JoinFails, JoinsAnother
<1>4. ASSUME NEW c \in Conns, Request(c) \/ RemoteCloses(c) PROVE AddrInv'
  <2>1. UNCHANGED <<addr, backlog>> /\ \A d \in Conns : remote[d] # "idle" => remote'[d] # "idle"
    BY <1>4 DEF Request, RemoteCloses, TypeOK, TypeNet
  <2> QED BY <2>1, AddrQuiet
<1>5. CASE Restart \/ UNCHANGED vars
  BY <1>5, AddrQuiet DEF Restart, vars
<1> QED BY <1>1, <1>2, <1>3, <1>4, <1>5, AddrAccept, AddrAcceptFails, AddrConnect
        DEF Next, Acceptor, Environment, MainReturns, Killed

\* Places before a request is received, the last two after every reply too.
Idle == {"lock_sno", "draw", "number", "snd_nums", "rcv", "recv"}

\* RepliesAreAwaited, and what it rests on: a session receives from its own
\* connection, and as long as it goes on receiving, what the other end has no
\* reply to is what the session has not received.
ReplyInv ==
  "text" \notin ShortReads /\ NobodyJoined =>
    /\ \A t \in Threads : pc[t] = "recv" => on[t] = addr[t]
    /\ \A t \in Threads : pc[t] \in Working => owed[addr[t]] = Len(inbox[addr[t]]) + 1
    /\ \A t \in Threads : pc[t] \in Idle => owed[addr[t]] = Len(inbox[addr[t]])
    /\ \A c \in Conns :
         (\A t \in Threads : pc[t] # "free" => addr[t] # c) => owed[c] = Len(inbox[c])

LEMMA ReplyQuiet ==
  ASSUME ReplyInv, NobodyJoined' => NobodyJoined, UNCHANGED <<addr, owed, inbox>>,
         \A t \in Threads : pc'[t] = "recv" => pc[t] = "recv" /\ on'[t] = on[t],
         \A t \in Threads : pc'[t] \in Working => pc[t] \in Working,
         \A t \in Threads : pc'[t] \in Idle => pc[t] \in Idle,
         \A t \in Threads : pc[t] # "free" => pc'[t] # "free"
  PROVE  ReplyInv'
  BY DEF ReplyInv

\* A session's connection is nobody else's.
LEMMA ApartFrom ==
  ASSUME TypeOK, SocketInv, AddrInv, NobodyJoined,
         NEW t \in Threads, pc[t] \in Active
  PROVE  /\ addr[t] \in Conns /\ File(t) = addr[t]
         /\ \A u \in Threads \ {t} : addr[u] # addr[t]
BY NoneIsNoConn DEF SocketInv, AddrInv, File

LEMMA ReplySession ==
  ASSUME TypeOK, SocketInv, AddrInv, ReplyInv, NEW t \in Threads, Session(t), ~ProcessEnds
  PROVE  ReplyInv'
<1>0. /\ pc[t] \in Active /\ UNCHANGED <<jn, addr>>
      /\ \A u \in Threads \ {t} : pc'[u] = pc[u]
      /\ pc'[t] # "free" /\ pc[t] # "free"
  BY SessionStep, Others DEF Active
<1> SUFFICES ASSUME "text" \notin ShortReads, NobodyJoined
             PROVE  /\ \A u \in Threads : pc'[u] = "recv" => on'[u] = addr[u]
                    /\ \A u \in Threads : pc'[u] \in Working => owed'[addr[u]] = Len(inbox'[addr[u]]) + 1
                    /\ \A u \in Threads : pc'[u] \in Idle => owed'[addr[u]] = Len(inbox'[addr[u]])
                    /\ \A c \in Conns : (\A u \in Threads : pc'[u] # "free" => addr[u] # c)
                                          => owed'[c] = Len(inbox'[c])
  BY <1>0 DEF ReplyInv, NobodyJoined
<1>1. addr[t] \in Conns /\ File(t) = addr[t] /\ \A u \in Threads \ {t} : addr[u] # addr[t]
  BY <1>0, ApartFrom
<1>2. /\ \A u \in Threads : pc[u] = "recv" => on[u] = addr[u]
      /\ \A u \in Threads : pc[u] \in Working => owed[addr[u]] = Len(inbox[addr[u]]) + 1
      /\ \A u \in Threads : pc[u] \in Idle => owed[addr[u]] = Len(inbox[addr[u]])
      /\ \A c \in Conns : (\A u \in Threads : pc[u] # "free" => addr[u] # c)
                            => owed[c] = Len(inbox[c])
  BY DEF ReplyInv
\* The other sessions and connections keep what they have, if no more than
\* this session's connection is touched.
<1>3. ASSUME \A c \in Conns \ {addr[t]} : owed'[c] = owed[c] /\ inbox'[c] = inbox[c],
             \A u \in Threads \ {t} : on'[u] = on[u]
      PROVE  /\ \A u \in Threads \ {t} : pc'[u] = "recv" => on'[u] = addr[u]
             /\ \A u \in Threads \ {t} :
                  pc'[u] \in Working => owed'[addr[u]] = Len(inbox'[addr[u]]) + 1
             /\ \A u \in Threads \ {t} :
                  pc'[u] \in Idle => owed'[addr[u]] = Len(inbox'[addr[u]])
             /\ \A c \in Conns : (\A u \in Threads : pc'[u] # "free" => addr[u] # c)
                                   => owed'[c] = Len(inbox'[c])
  <2>1. \A u \in Threads \ {t} : pc[u] \in Working \cup Idle => addr[u] \in Conns \ {addr[t]}
    BY <1>1, ApartFrom DEF Active, Working, Idle
  <2>2. ASSUME NEW c \in Conns, \A u \in Threads : pc'[u] # "free" => addr[u] # c
        PROVE  c # addr[t] /\ \A u \in Threads : pc[u] # "free" => addr[u] # c
    BY <1>0, <2>2
  <2> QED BY <1>0, <1>2, <1>3, <2>1, <2>2
<1> USE <1>0, <1>1, <1>2 DEF Goto, Working, Idle
<1>4. CASE Rcv(t)
  <2>1. /\ on' = [on EXCEPT ![t] = addr[t]] /\ UNCHANGED <<owed, inbox>>
        /\ pc' = [pc EXCEPT ![t] = IF addr[t] = None THEN "last" ELSE "recv"]
        /\ pc[t] = "rcv"
    BY <1>4 DEF Rcv
  <2>2. pc'[t] \in {"last", "recv"} /\ on'[t] = addr[t] /\ \A u \in Threads \ {t} : on'[u] = on[u]
    BY <2>1 DEF TypeOK, TypeLocals
  <2> QED BY <1>3, <2>1, <2>2
<1>5. CASE Recv(t)
  <2>1. pc[t] = "recv" /\ on[t] = addr[t] /\ inbox[addr[t]] # <<>>
    BY <1>5 DEF Recv
  <2>2. PICK l \in {"last", "strtok"} :
          /\ pc' = [pc EXCEPT ![t] = l] /\ on' = [on EXCEPT ![t] = None]
          /\ inbox' = [inbox EXCEPT ![addr[t]] = <<>> \o Tail(inbox[addr[t]])]
          /\ UNCHANGED owed
    BY <1>5, <2>1 DEF Recv, Arrivals, Dispatch
  <2>3. /\ pc'[t] = l /\ inbox'[addr[t]] = <<>> \o Tail(inbox[addr[t]])
        /\ \A u \in Threads \ {t} : on'[u] = on[u]
        /\ \A c \in Conns \ {addr[t]} : inbox'[c] = inbox[c]
    BY <2>2 DEF TypeOK, TypeLocals, TypeNet
  <2>4. inbox[addr[t]] \in Seq(Requests) /\ owed[addr[t]] = Len(inbox[addr[t]])
    BY <2>1 DEF TypeOK, TypeNet
  <2>5. Len(inbox'[addr[t]]) = Len(inbox[addr[t]]) - 1 /\ Len(inbox[addr[t]]) \in Nat
    BY <2>1, <2>3, <2>4, TailElements
  <2>6. owed'[addr[t]] = Len(inbox'[addr[t]]) + 1
    BY <2>2, <2>4, <2>5
  <2> QED BY <1>3, <2>2, <2>3, <2>6
<1>6. CASE SndReply(t)
  <2>1. PICK l \in {"rcv", "last"} :
          /\ pc' = [pc EXCEPT ![t] = l] /\ UNCHANGED <<on, inbox>>
          /\ owed' = [c \in Conns |-> IF c = addr[t] /\ owed[c] > 0 THEN owed[c] - 1 ELSE owed[c]]
    BY <1>6 DEF SndReply, SendKills, AfterSnd
  <2>2. pc[t] = "snd" /\ pc'[t] = l /\ inbox[addr[t]] \in Seq(Requests)
    BY <1>6, <2>1 DEF SndReply, TypeOK, TypeLocals, TypeNet
  <2>3. Len(inbox[addr[t]]) \in Nat /\ owed[addr[t]] = Len(inbox[addr[t]]) + 1
    BY <2>2
  <2>4. owed'[addr[t]] = Len(inbox[addr[t]])
    BY <2>1, <2>3
  <2>5. \A c \in Conns \ {addr[t]} : owed'[c] = owed[c]
    BY <2>1
  <2> QED BY <1>3, <2>1, <2>2, <2>4, <2>5
<1>7. CASE ~Rcv(t) /\ ~Recv(t) /\ ~SndReply(t)
  <2>1. UNCHANGED <<owed, inbox>>
    BY <1>7 DEF Session, LockSno, Draw, Number, SndNums, SendKills, RecvRest, RecvEnd, Strtok,
                StrtokNull, LockQuery, QueryFails, QueryOk, Fetch, QueryCrashes, SndLast, CloseAndExit
  <2>2. pc'[t] # "recv" /\ \A u \in Threads \ {t} : on'[u] = on[u]
    BY <1>7 DEF Session, LockSno, Draw, Number, SndNums, SendKills, AfterSnd, RecvRest, RecvEnd, Strtok,
                StrtokNull, LockQuery, QueryFails, QueryOk, Fetch, QueryCrashes, SndLast, CloseAndExit,
                TypeOK, TypeLocals
  <2>3. (pc'[t] \in Working => pc[t] \in Working) /\ (pc'[t] \in Idle => pc[t] \in Idle)
    BY <1>7 DEF Session, LockSno, Draw, Number, SndNums, SendKills, AfterSnd, RecvRest, RecvEnd, Strtok,
                StrtokNull, LockQuery, QueryFails, QueryOk, Fetch, QueryCrashes, SndLast, CloseAndExit,
                TypeOK, TypeLocals
  <2> QED BY <1>3, <2>1, <2>2, <2>3
<1> QED BY <1>4, <1>5, <1>6, <1>7

LEMMA ReplyRequest ==
  ASSUME TypeOK, SocketInv, ReplyInv, NEW c \in Conns, Request(c)
  PROVE  ReplyInv'
<1>1. PICK req \in Asks(c) : /\ inbox' = [inbox EXCEPT ![c] = Append(inbox[c], req)]
                             /\ owed' = [owed EXCEPT ![c] = owed[c] + 1]
                             /\ UNCHANGED <<jn, pc, on, addr>>
  BY DEF Request
<1>2. /\ owed'[c] = owed[c] + 1 /\ Len(inbox'[c]) = Len(inbox[c]) + 1
      /\ \A d \in Conns \ {c} : owed'[d] = owed[d] /\ inbox'[d] = inbox[d]
  BY <1>1 DEF TypeOK, TypeNet
<1>3. \A d \in Conns : owed[d] \in Nat /\ Len(inbox[d]) \in Nat
  BY DEF TypeOK, TypeNet
<1>4. \A d \in Conns :
        /\ owed[d] = Len(inbox[d]) => owed'[d] = Len(inbox'[d])
        /\ owed[d] = Len(inbox[d]) + 1 => owed'[d] = Len(inbox'[d]) + 1
  BY <1>2, <1>3
<1>5. ASSUME NobodyJoined, NEW t \in Threads, pc[t] \in Working \cup Idle
      PROVE  addr[t] \in Conns
  BY <1>5 DEF SocketInv, Working, Idle, Active
<1> QED BY <1>1, <1>4, <1>5 DEF ReplyInv, NobodyJoined

LEMMA ReplyAccept ==
  ASSUME TypeOK, SlotInv, SocketInv, AddrInv, ReplyInv, NEW s \in Servers, Accept(s)
  PROVE  ReplyInv'
<1> DEFINE n == <<s, cnt[s]>>
           c == Head(Backlog)
<1>1. n \in Threads /\ pc[n] = "free"
  BY NextSlot DEF Accept
<1>2. /\ Backlog # <<>> /\ Backlog' = Tail(Backlog) /\ remote' = remote
      /\ addr' = [addr EXCEPT ![n] = c]
      /\ UNCHANGED <<jn, on, owed, inbox>>
  BY DEF Accept, Backlog, TypeOK, TypeWorld
<1>3. c \in Conns /\ \A t \in Threads : addr[t] # c
  BY <1>2, AddrTakes
<1>4. PICK l \in {"lock_sno", "rcv", "failed"} : pc' = [pc EXCEPT ![n] = l]
  BY DEF Accept, Goto, Entry
<1> HIDE DEF n, c
<1>5. /\ addr'[n] = c /\ \A t \in Threads \ {n} : addr'[t] = addr[t]
      /\ pc'[n] = l /\ \A t \in Threads \ {n} : pc'[t] = pc[t]
  BY <1>1, <1>2, <1>4, Others DEF TypeOK, TypeSlots
<1> SUFFICES ASSUME "text" \notin ShortReads, NobodyJoined PROVE ReplyInv'
  BY <1>2 DEF ReplyInv, NobodyJoined
<1>6. owed[c] = Len(inbox[c])
  BY <1>3 DEF ReplyInv
<1>7. \A d \in Conns : (\A t \in Threads : pc'[t] # "free" => addr'[t] # d)
                         => owed[d] = Len(inbox[d])
  BY <1>1, <1>5 DEF ReplyInv
<1>8. l \notin Working /\ l # "recv"
  BY DEF Working
<1>9. \A t \in Threads : pc'[t] = "recv" => on'[t] = addr'[t]
  BY <1>2, <1>5, <1>8 DEF ReplyInv
<1>10. \A t \in Threads : pc'[t] \in Working => owed[addr'[t]] = Len(inbox[addr'[t]]) + 1
  BY <1>5, <1>8 DEF ReplyInv
<1>11. \A t \in Threads : pc'[t] \in Idle => owed[addr'[t]] = Len(inbox[addr'[t]])
  BY <1>5, <1>6 DEF ReplyInv
<1> QED BY <1>2, <1>7, <1>9, <1>10, <1>11 DEF ReplyInv

LEMMA ReplyNext ==
  TypeOK /\ SlotInv /\ SocketInv /\ AddrInv /\ ReplyInv /\ [Next]_vars => ReplyInv'
<1> SUFFICES ASSUME TypeOK, SlotInv, SocketInv, AddrInv, ReplyInv, [Next]_vars PROVE ReplyInv'
  OBVIOUS
<1>1. CASE ProcessEnds
  <2>1. /\ \A t \in Threads : pc'[t] = "free"
        /\ \A c \in Conns : inbox'[c] = <<>> /\ owed'[c] = 0
    BY <1>1 DEF ProcessEnds
  <2> QED BY <2>1 DEF ReplyInv, Working, Idle
<1>2. ASSUME NEW s \in Servers, AcceptFails(s) PROVE ReplyInv'
  <2> DEFINE n == <<s, cnt[s]>>
  <2>1. n \in Threads /\ pc[n] = "free"
    BY <1>2, NextSlot DEF AcceptFails
  <2>2. pc'[n] = "failed" /\ \A t \in Threads \ {n} : pc'[t] = pc[t]
    BY <1>2, <2>1, Others DEF AcceptFails, Goto
  <2>3. UNCHANGED <<jn, on, addr, owed, inbox>>
    BY <1>2 DEF AcceptFails
  <2> QED BY <2>1, <2>2, <2>3, ReplyQuiet DEF Working, Idle, NobodyJoined
<1>3. ASSUME NEW s \in Servers, Join(s) \/ JoinFails(s) \/ JoinsAnother(s), ~ProcessEnds
      PROVE  ReplyInv'
  <2>1. jn'[s] = jn[s] + 1 /\ jn[s] \in 0 .. Slots
    BY <1>3 DEF Join, JoinFails, JoinsAnother, TypeOK, TypeSlots
  <2>2. ~NobodyJoined'
    BY <2>1 DEF NobodyJoined
  <2> QED BY <2>2 DEF ReplyInv
<1>4. ASSUME NEW c \in Conns, Connect(c) \/ RemoteCloses(c) PROVE ReplyInv'
  BY <1>4, ReplyQuiet DEF Connect, RemoteCloses, NobodyJoined
<1>5. CASE Restart \/ UNCHANGED vars
  BY <1>5, ReplyQuiet DEF Restart, vars, NobodyJoined
<1> QED BY <1>1, <1>2, <1>3, <1>4, <1>5, ReplyAccept, ReplySession, ReplyRequest
        DEF Next, Acceptor, Environment, MainReturns, Killed

\* While nobody has joined a thread, a session works on one request of its own
\* connection, and the other end waits for that reply and for those to the
\* requests that are still on their way.
THEOREM AwaitedReplies == Spec => []RepliesAreAwaited
<1>1. Init => SlotInv /\ SocketInv /\ AddrInv /\ ReplyInv
  <2> SUFFICES ASSUME Init PROVE SlotInv /\ SocketInv /\ AddrInv /\ ReplyInv
    OBVIOUS
  <2>1. /\ \A t \in Threads : pc[t] = "free" /\ addr[t] = None
        /\ \A c \in Conns : inbox[c] = <<>> /\ owed[c] = 0
        /\ Backlog = <<>>
    BY DEF Init, OfNone, Backlog
  <2>2. SlotInv /\ SocketInv
    BY <2>1 DEF SlotInv, SocketInv, Active, Threads
  <2> QED BY <2>1, <2>2 DEF AddrInv, ReplyInv, Working, Idle
<1>2. ReplyInv => RepliesAreAwaited
  BY DEF ReplyInv, RepliesAreAwaited, NobodyJoined
<1> QED BY TypeCorrect, SlotNext, SocketNext, AddrNext, ReplyNext, <1>1, <1>2, PTL DEF Spec
=============================================================================
