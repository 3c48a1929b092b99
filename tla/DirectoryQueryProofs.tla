------------------------ MODULE DirectoryQueryProofs ------------------------
(***************************************************************************)
(* Proofs about query_db(): what a session may do with a lock in hand, what *)
(* a query that failed leaves behind, and that queries are run as the      *)
(* database promises.                                                      *)
(***************************************************************************)
EXTENDS DirectoryProofs

USE DEF net, shared, slots, locals

LEMMA QueryInvariant == Spec => [](TypeOK /\ SlotInv /\ LockInv)
<1>1. Init => SlotInv /\ LockInv
  BY NoneIsNoThread DEF Init, SlotInv, LockInv, Threads
<1> QED BY TypeCorrect, SlotNext, LockNext, <1>1, PTL DEF Spec

\* Nobody waits for anything with a lock in hand, but for a session whose query
\* failed; so the only way to wait for ever for a lock is that one.
THEOREM NoHolderWaits == Spec => []HoldersNeverWait
<1>1. LockInv => HoldersNeverWait
  BY DEF LockInv, HoldersNeverWait, Lost
<1> QED BY QueryInvariant, <1>1, PTL

-----------------------------------------------------------------------------
(* The session that holds the lock and will not release it. *)

\* The session that lost the lock goes on to its end, and nobody else gets at
\* the lock or at what it guards.
LEMMA LostStays ==
  ASSUME TypeOK, SlotInv, LockInv, NEW t \in Threads, mutex = t, pc[t] \in Ending,
         Next, ~ProcessEnds
  PROVE  mutex' = t /\ pc'[t] \in Ending /\ UNCHANGED <<peers, res>>
<1>1. pc[t] \notin {"free", "query", "fetch"}
  BY DEF Ending
<1>2. mutex # None /\ \A u \in Threads : pc[u] \notin {"query", "fetch"}
  BY <1>1, NoneIsNoThread DEF LockInv
<1>3. ASSUME NEW u \in Threads, Session(u)
      PROVE  mutex' = t /\ pc'[t] \in Ending /\ UNCHANGED <<peers, res>>
  <2>1. UNCHANGED <<mutex, peers, res>>
    BY <1>2, <1>3 DEF Session, LockSno, Draw, Number, SndNums, SendKills, Rcv, Recv, RecvRest,
                      RecvEnd, Strtok, StrtokNull, LockQuery, QueryFails, QueryOk, Fetch,
                      QueryCrashes, SndReply, SndLast, CloseAndExit
  <2>2. CASE u = t
    <3>1. SndLast(t) \/ CloseAndExit(t)
      BY <1>3, <2>2 DEF Session, LockSno, Draw, Number, SndNums, Rcv, Recv, RecvRest, RecvEnd,
                        Strtok, StrtokNull, LockQuery, QueryFails, QueryOk, Fetch, QueryCrashes,
                        SndReply, Ending
    <3>2. PICK l \in {"close", "exited"} : pc' = [pc EXCEPT ![t] = l]
      BY <3>1 DEF SndLast, SendKills, CloseAndExit, Goto
    <3> QED BY <2>1, <3>2, Others DEF Ending
  <2>3. CASE u # t
    <3>1. PICK l : pc' = [pc EXCEPT ![u] = l]
      BY <1>3, SessionStep
    <3>2. pc'[t] = pc[t]
      BY <2>3, <3>1, Others
    <3> QED BY <2>1, <3>2
  <2> QED BY <2>2, <2>3
<1>4. ASSUME NEW s \in Servers, Accept(s) \/ AcceptFails(s)
      PROVE  mutex' = t /\ pc'[t] \in Ending /\ UNCHANGED <<peers, res>>
  <2>1. <<s, cnt[s]>> \in Threads /\ pc[<<s, cnt[s]>>] = "free"
    BY <1>4, NextSlot DEF Accept, AcceptFails
  <2>2. \E l : pc' = [pc EXCEPT ![<<s, cnt[s]>>] = l]
    BY <1>4 DEF Accept, AcceptFails, Goto
  <2>3. \A u \in Threads \ {<<s, cnt[s]>>} : pc'[u] = pc[u]
    BY <2>1, <2>2, Others
  <2>4. pc'[t] = pc[t]
    BY <1>1, <2>1, <2>3
  <2> QED BY <1>4, <2>4 DEF Accept, AcceptFails
<1>5. ASSUME NEW s \in Servers, Join(s) \/ JoinFails(s)
      PROVE  mutex' = t /\ pc'[t] \in Ending /\ UNCHANGED <<peers, res>>
  BY <1>5 DEF Join, JoinFails
<1>6. ASSUME NEW s \in Servers, JoinsAnother(s)
      PROVE  mutex' = t /\ pc'[t] \in Ending /\ UNCHANGED <<peers, res>>
  <2>1. PICK u \in Threads : pc[u] = "exited" /\ pc' = [pc EXCEPT ![u] = "joined"]
    BY <1>6 DEF JoinsAnother, Goto
  <2>2. pc'[t] \in Ending
    BY <2>1, Others DEF Ending
  <2> QED BY <1>6, <2>2 DEF JoinsAnother
<1>7. CASE Environment \/ Restart
  BY <1>7 DEF Environment, Connect, Request, RemoteCloses, Restart
<1> QED BY <1>3, <1>4, <1>5, <1>6, <1>7 DEF Next, Acceptor, MainReturns, Killed

\* One query that failed is the last one of the process: from then on no step
\* but its end changes the table or gives a session a result.
THEOREM LostLockStays == Spec => LostForGood
<1>1. TypeOK /\ SlotInv /\ LockInv /\ [Next]_vars
        => [Lost /\ up' => Lost' /\ UNCHANGED <<peers, res>>]_vars
  <2> SUFFICES ASSUME TypeOK, SlotInv, LockInv, Next, Lost, up'
               PROVE  Lost' /\ UNCHANGED <<peers, res>>
    OBVIOUS
  <2>1. ~ProcessEnds
    BY DEF ProcessEnds
  <2> QED BY <2>1, LostStays DEF Lost
<1> QED BY QueryInvariant, <1>1, PTL DEF LostForGood, Spec

-----------------------------------------------------------------------------
(* Refinement: queries are run as the database promises. *)

Answer == [t \in Threads |-> Found(t)]

LEMMA AnswerInit == Init => DB!Init
  BY DEF Init, DB!Init, DB!Nothing, Found

LEMMA AnswerEnds == ProcessEnds => DB!Forget
  BY DEF ProcessEnds, DB!Forget, DB!Nothing, Found

\* A step that runs no query and fetches no result.
LEMMA AnswerQuiet ==
  ASSUME UNCHANGED <<peers, res>>,
         \A t \in Threads : pc'[t] = "fetch" <=> pc[t] = "fetch"
  PROVE  UNCHANGED DB!vars
<1>1. \A t \in Threads : Found(t)' = Found(t)
  BY DEF Found
<1>2. Answer' = Answer
  BY <1>1 DEF Answer
<1> QED BY <1>2 DEF DB!vars, Answer

\* The session that has the query lock is the only one with an answer.
LEMMA OneAnswer ==
  ASSUME LockInv, NEW t \in Threads, mutex = t
  PROVE  \A u \in Threads \ {t} : pc[u] # "fetch" /\ Found(u) = None
  BY DEF LockInv, Found

LEMMA QueryAnswers ==
  ASSUME TypeOK, LockInv, NEW t \in Threads, QueryOk(t)
  PROVE  DB!Query(t)
<1> DEFINE q == query[t]
           a == [by |-> t, row |-> HasRow(q), cols |-> Columns(q)]
<1>1. /\ pc[t] = "query" /\ mutex = t /\ res' = a
      /\ peers' = IF q.op = "insert" THEN peers \cup {q.nums} ELSE peers
      /\ ~Duplicate(q) /\ pc' = [pc EXCEPT ![t] = "fetch"]
  BY DEF QueryOk, LockInv, Goto
<1>2. q \in Requests
  BY DEF QueryOk, TypeOK, TypeLocals, Requested
<1>3. pc'[t] = "fetch" /\ \A u \in Threads \ {t} : pc'[u] = pc[u]
  BY <1>1, Others
<1>4. Found(t) = None /\ Found(t)' = a
  BY <1>1, <1>3 DEF Found
<1>5. \A u \in Threads \ {t} : Found(u)' = Found(u)
  BY <1>1, <1>3, OneAnswer DEF Found
<1>6. Answer' = [Answer EXCEPT ![t] = a]
  <2> HIDE DEF a
  <2> QED BY <1>4, <1>5 DEF Answer
<1>7. Answer[t] = None
  BY <1>4 DEF Answer
<1>8. ASSUME NEW b, NEW n, HasRow(q) = b, Columns(q) = n PROVE DB!Gets(t, b, n)
  BY <1>6, <1>7, <1>8 DEF DB!Gets, Answer
<1> HIDE DEF q, a
<1>9. CASE q.op = "insert"
  <2>1. q.nums \in Nums
    BY <1>2, <1>9 DEF Requests
  <2>2. peers' = peers \cup {q.nums} /\ \A p \in peers : p.id # q.nums.id
    BY <1>1, <1>9 DEF Duplicate
  <2>3. DB!Gets(t, FALSE, 0)
    BY <1>8, <1>9 DEF HasRow, Columns
  <2>4. DB!Insert(t)
    BY <2>1, <2>2, <2>3 DEF DB!Insert
  <2> QED BY <2>4 DEF DB!Query
<1>10. CASE q.op = "select"
  <2>1. q.sno \in LookedUp
    BY <1>2, <1>10 DEF Requests
  <2>2. Columns(q) = 3 /\ HasRow(q) = (\E p \in peers : p.sno = q.sno)
    BY <1>10 DEF HasRow, Columns
  <2>3. peers' = peers
    BY <1>1, <1>10
  <2>4. DB!Gets(t, \E p \in peers : p.sno = q.sno, 3)
    BY <1>8, <2>2
  <2>5. DB!Select(t, q.sno)
    BY <2>3, <2>4 DEF DB!Select
  <2> QED BY <2>1, <2>5 DEF DB!Query
<1>11. CASE q.op = "count"
  <2>1. DB!Gets(t, TRUE, 1) /\ peers' = peers
    BY <1>1, <1>8, <1>11 DEF HasRow, Columns
  <2> QED BY <2>1 DEF DB!Count, DB!Query
<1>12. CASE q.op \notin {"insert", "select", "count"}
  <2>1. DB!Gets(t, FALSE, 0) /\ peers' = peers
    BY <1>1, <1>8, <1>12 DEF HasRow, Columns
  <2> QED BY <2>1 DEF DB!Update, DB!Query
<1> QED BY <1>9, <1>10, <1>11, <1>12

LEMMA FetchTakes ==
  ASSUME TypeOK, LockInv, NEW t \in Threads, Fetch(t)
  PROVE  DB!Take(t)
<1>1. /\ pc[t] = "fetch" /\ mutex = t /\ res # None /\ peers' = peers
      /\ pc' = [pc EXCEPT ![t] = "snd"]
  BY DEF Fetch, LockInv, Goto
<1>2. pc'[t] = "snd" /\ \A u \in Threads \ {t} : pc'[u] = pc[u]
  BY <1>1, Others
<1>3. Found(t) # None /\ Found(t)' = None
  BY <1>1, <1>2 DEF Found
<1>4. \A u \in Threads \ {t} : Found(u)' = Found(u)
  <2>1. \A u \in Threads \ {t} : pc[u] # "fetch" /\ pc'[u] # "fetch"
    BY <1>1, <1>2, OneAnswer
  <2> QED BY <2>1 DEF Found
<1>5. Answer' = [Answer EXCEPT ![t] = None]
  <2>1. \A u \in Threads : Found(u)' = IF u = t THEN None ELSE Found(u)
    BY <1>3, <1>4
  <2>2. Answer' = [u \in Threads |-> IF u = t THEN None ELSE Found(u)]
    BY <2>1 DEF Answer
  <2> QED BY <2>2 DEF Answer
<1>6. Answer[t] # None
  BY <1>3 DEF Answer
<1> QED BY <1>1, <1>5, <1>6 DEF DB!Take, Answer

LEMMA SessionAnswers ==
  ASSUME TypeOK, LockInv, NEW t \in Threads, Session(t), ~ProcessEnds
  PROVE  [DB!Next]_DB!vars
<1>1. CASE QueryOk(t)
  BY <1>1, QueryAnswers DEF DB!Next
<1>2. CASE Fetch(t)
  BY <1>2, FetchTakes DEF DB!Next
<1>3. CASE ~QueryOk(t) /\ ~Fetch(t)
  <2>1. UNCHANGED <<peers, res>>
    BY <1>3 DEF Session, LockSno, Draw, Number, SndNums, SendKills, Rcv, Recv, RecvRest, RecvEnd,
                Strtok, StrtokNull, LockQuery, QueryFails, QueryCrashes, SndReply, SndLast, CloseAndExit
  <2>2. PICK l : /\ pc' = [pc EXCEPT ![t] = l] /\ l # "fetch"
                 /\ pc[t] # "fetch"
    BY <1>3 DEF Session, LockSno, Draw, Number, SndNums, SendKills, AfterSnd, Rcv, Recv, RecvRest,
                RecvEnd, Dispatch, Strtok, StrtokNull, LockQuery, QueryFails, QueryCrashes, SndReply,
                SndLast, CloseAndExit, Goto
  <2>3. \A u \in Threads : pc'[u] = "fetch" <=> pc[u] = "fetch"
    BY <2>2, Others
  <2> QED BY <2>1, <2>3, AnswerQuiet
<1> QED BY <1>1, <1>2, <1>3

\* Every step of the directory is a step of the database or none at all: each
\* query sees the table whole, no id gets a second row, and what a session
\* fetches from the global result set is what its own query found.
THEOREM ImplementsDatabase == Spec => QueriesAreAtomic
<1>1. TypeOK /\ SlotInv /\ LockInv /\ [Next]_vars => [DB!Next]_DB!vars
  <2> SUFFICES ASSUME TypeOK, SlotInv, LockInv, [Next]_vars PROVE [DB!Next]_DB!vars
    OBVIOUS
  <2>1. CASE ProcessEnds
    BY <2>1, AnswerEnds DEF DB!Next
  <2>2. ASSUME NEW s \in Servers, Accept(s) \/ AcceptFails(s) PROVE UNCHANGED DB!vars
    <3>1. <<s, cnt[s]>> \in Threads /\ pc[<<s, cnt[s]>>] = "free"
      BY <2>2, NextSlot DEF Accept, AcceptFails
    <3>2. PICK l \in {"lock_sno", "rcv", "failed"} : pc' = [pc EXCEPT ![<<s, cnt[s]>>] = l]
      BY <2>2 DEF Accept, AcceptFails, Goto, Entry
    <3>3. \A u \in Threads : pc'[u] = "fetch" <=> pc[u] = "fetch"
      BY <3>1, <3>2, Others
    <3>4. UNCHANGED <<peers, res>>
      BY <2>2 DEF Accept, AcceptFails
    <3> QED BY <3>3, <3>4, AnswerQuiet
  <2>3. ASSUME NEW s \in Servers, Join(s) \/ JoinFails(s), ~ProcessEnds PROVE UNCHANGED DB!vars
    BY <2>3, AnswerQuiet DEF Join, JoinFails
  <2>4. ASSUME NEW s \in Servers, JoinsAnother(s) PROVE UNCHANGED DB!vars
    <3>1. PICK u \in Threads : pc[u] = "exited" /\ pc' = [pc EXCEPT ![u] = "joined"]
      BY <2>4 DEF JoinsAnother, Goto
    <3>2. \A v \in Threads : pc'[v] = "fetch" <=> pc[v] = "fetch"
      BY <3>1, Others
    <3> QED BY <2>4, <3>2, AnswerQuiet DEF JoinsAnother
  <2>5. CASE Environment \/ Restart \/ UNCHANGED vars
    BY <2>5, AnswerQuiet DEF Environment, Connect, Request, RemoteCloses, Restart, vars
  <2> QED BY <2>1, <2>2, <2>3, <2>4, <2>5, SessionAnswers DEF Next, Acceptor, MainReturns, Killed
<1> QED BY AnswerInit, QueryInvariant, <1>1, PTL DEF QueriesAreAtomic, DB!Spec, Spec
=============================================================================
