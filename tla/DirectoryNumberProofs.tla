----------------------- MODULE DirectoryNumberProofs -----------------------
(***************************************************************************)
(* Proofs about the numbers the directory hands out: no two are the same,  *)
(* there is always room for another, and they are those of the registry.   *)
(***************************************************************************)
EXTENDS DirectoryProofs, FiniteSetTheorems, SequenceTheorems

GrantedTo == {t \in PeerThreads : nums[t] # None}

Early == {"free", "failed", "lock_sno", "draw", "number"}
Allocating == {"lock_sno", "draw", "number"}

\* The ids stored are distinct, and there is one for every serial number and
\* one more while a thread has drawn but not yet numbered.
ArrayInv ==
  /\ \A i, j \in 1 .. Len(rand_num_arr) : rand_num_arr[i] = rand_num_arr[j] => i = j
  /\ \A t \in Threads : pc[t] = "number" =>
       Len(rand_num_arr) = sno + 1 /\ rand_num[t] = rand_num_arr[sno + 1]
  /\ (\A t \in Threads : pc[t] # "number") => Len(rand_num_arr) = sno

\* What a thread holds is its serial number and the id stored for it.
HeldInv ==
  /\ \A t \in Threads : nums[t] # None =>
       nums[t].sno < sno /\ nums[t].id = rand_num_arr[nums[t].sno + 1]
  /\ \A t, u \in Threads :
       t # u /\ nums[t] # None /\ nums[u] # None => nums[t].sno # nums[u].sno

\* Only sessions of the peers' acceptor are given numbers, each once.
GrantInv ==
  /\ \A t \in Threads : pc[t] \in Early => nums[t] = None
  /\ \A t \in Threads \ PeerThreads : pc[t] \notin Allocating /\ nums[t] = None
  /\ Cardinality(GrantedTo) = sno

NumberInv == ArrayInv /\ HeldInv /\ GrantInv

LEMMA PeerThreadsFinite ==
  /\ PeerThreads \subseteq Threads
  /\ IsFiniteSet(PeerThreads) /\ Cardinality(PeerThreads) = Slots
<1>1. IsFiniteSet({"peer_server"}) /\ Cardinality({"peer_server"}) = 1
  BY FS_Singleton
<1>2. IsFiniteSet(0 .. Slots - 1) /\ Cardinality(0 .. Slots - 1) = Slots
  <2>1. Slots \in Nat \ {0}
    BY DirectoryAssumption
  <2>2. Slots - 1 \in Int /\ ~(0 > Slots - 1) /\ (Slots - 1) - 0 + 1 = Slots
    BY <2>1
  <2> QED BY <2>2, FS_Interval
<1>3. PeerThreads \subseteq Threads
  BY DEF PeerThreads, Threads, Servers
<1>4. IsFiniteSet(PeerThreads) /\ Cardinality(PeerThreads) = 1 * Slots
  <2> DEFINE S == {"peer_server"}
             T == 0 .. Slots - 1
  <2>1. /\ IsFiniteSet(S) /\ Cardinality(S) = 1
        /\ IsFiniteSet(T) /\ Cardinality(T) = Slots
    BY <1>1, <1>2
  <2>2. PeerThreads = S \X T
    BY DEF PeerThreads
  <2> HIDE DEF S, T
  <2> QED BY <2>1, <2>2, FS_Product
<1> QED BY <1>3, <1>4, DirectoryAssumption

LEMMA NumberInit == Init => NumberInv
<1> SUFFICES ASSUME Init PROVE NumberInv
  OBVIOUS
<1>1. \A t \in Threads : nums[t] = None /\ pc[t] = "free"
  BY DEF Init, OfNone
<1>2. GrantedTo = {}
  BY <1>1, PeerThreadsFinite DEF GrantedTo
<1>3. rand_num_arr = <<>> /\ sno = 0
  BY DEF Init
<1> QED BY <1>1, <1>2, <1>3, FS_EmptySet
        DEF NumberInv, ArrayInv, HeldInv, GrantInv, Allocating

LEMMA NumberEnds == ProcessEnds => NumberInv'
<1> SUFFICES ASSUME ProcessEnds PROVE NumberInv'
  OBVIOUS
<1>1. \A t \in Threads : nums'[t] = None /\ pc'[t] = "free"
  BY DEF ProcessEnds, OfNone
<1>2. GrantedTo' = {}
  BY <1>1, PeerThreadsFinite DEF GrantedTo
<1>3. rand_num_arr' = <<>> /\ sno' = 0
  BY DEF ProcessEnds, ResetsAllocator
<1> QED BY <1>1, <1>2, <1>3, FS_EmptySet
        DEF NumberInv, ArrayInv, HeldInv, GrantInv, Allocating

\* A step outside the allocator's critical section.
LEMMA NumberQuiet ==
  ASSUME TypeOK, NumberInv, NEW t \in Threads, NEW l,
         pc' = [pc EXCEPT ![t] = l],
         pc[t] # "number", l # "number",
         l \in Early => pc[t] \in Early,
         l \in Allocating => t \in PeerThreads,
         UNCHANGED <<rand_num_arr, sno, rand_num, nums>>
  PROVE  NumberInv'
<1>1. pc'[t] = l /\ \A u \in Threads \ {t} : pc'[u] = pc[u]
  BY Others
<1>2. ArrayInv'
  <2>1. \A u \in Threads : pc'[u] = "number" <=> pc[u] = "number"
    BY <1>1
  <2> QED BY <2>1 DEF NumberInv, ArrayInv
<1>3. HeldInv'
  BY DEF NumberInv, HeldInv
<1>4. GrantedTo' = GrantedTo
  BY DEF GrantedTo
<1>5. GrantInv'
  BY <1>1, <1>4 DEF NumberInv, GrantInv
<1> QED BY <1>2, <1>3, <1>5 DEF NumberInv

LEMMA NumberDraw ==
  ASSUME TypeOK, LockInv, NumberInv, NEW t \in Threads, Draw(t)
  PROVE  NumberInv'
<1>1. /\ pc[t] = "draw" /\ pc'[t] = "number"
      /\ \A u \in Threads \ {t} : pc'[u] = pc[u]
  BY Others DEF Draw, Goto
<1>2. \A u \in Threads : pc[u] # "number"
  BY <1>1 DEF LockInv
<1>3. \A u \in Threads \ {t} : pc'[u] # "number"
  BY <1>1, <1>2
<1>4. rand_num_arr \in Seq(RandIds) /\ Len(rand_num_arr) = sno /\ sno \in Nat
  BY <1>2 DEF NumberInv, ArrayInv, TypeOK, TypeShared
<1>5. PICK r \in RandIds : /\ r \notin ToSet(rand_num_arr)
                           /\ rand_num_arr' = Append(rand_num_arr, r)
                           /\ rand_num' = [rand_num EXCEPT ![t] = r]
                           /\ UNCHANGED <<sno, nums>>
  BY DEF Draw, Fresh
<1>6. /\ Len(rand_num_arr') = sno + 1 /\ rand_num_arr'[sno + 1] = r
      /\ \A i \in 1 .. sno : rand_num_arr'[i] = rand_num_arr[i] /\ rand_num_arr[i] # r
  BY <1>4, <1>5 DEF ToSet
<1>7. rand_num'[t] = r
  BY <1>5 DEF TypeOK, TypeLocals
<1>8. ArrayInv'
  <2>1. ASSUME NEW i \in 1 .. sno + 1, NEW j \in 1 .. sno + 1,
               rand_num_arr'[i] = rand_num_arr'[j]
        PROVE  i = j
    <3>1. CASE i \in 1 .. sno /\ j \in 1 .. sno
      BY <1>4, <1>6, <2>1, <3>1 DEF NumberInv, ArrayInv
    <3>2. CASE i = sno + 1 \/ j = sno + 1
      BY <1>4, <1>6, <2>1, <3>2
    <3> QED BY <1>4, <3>1, <3>2
  <2> QED BY <1>1, <1>3, <1>5, <1>6, <1>7, <2>1 DEF ArrayInv
<1>9. HeldInv'
  <2>1. \A u \in Threads : nums[u] # None => nums[u].sno \in Nat
    BY DEF TypeOK, TypeLocals, Nums
  <2>2. \A u \in Threads : nums[u] # None => nums[u].sno + 1 \in 1 .. sno
    BY <1>4, <2>1 DEF NumberInv, HeldInv
  <2> QED BY <1>5, <1>6, <2>2 DEF NumberInv, HeldInv
<1>10. GrantInv'
  <2>1. GrantedTo' = GrantedTo
    BY <1>5 DEF GrantedTo
  <2> QED BY <1>1, <1>5, <2>1 DEF NumberInv, GrantInv, Early, Allocating
<1> QED BY <1>8, <1>9, <1>10 DEF NumberInv

LEMMA NumberNumber ==
  ASSUME TypeOK, LockInv, NumberInv, NEW t \in Threads, Number(t)
  PROVE  NumberInv'
<1>1. /\ pc[t] = "number" /\ pc'[t] = "snd_nums"
      /\ \A u \in Threads \ {t} : pc'[u] = pc[u]
  BY Others DEF Number, Goto
<1>2. \A u \in Threads : pc'[u] # "number"
  BY <1>1 DEF LockInv
<1>3. /\ sno \in Nat /\ sno' = sno + 1 /\ Len(rand_num_arr) = sno + 1
      /\ rand_num_arr' = rand_num_arr
      /\ rand_num[t] = rand_num_arr[sno + 1]
  BY <1>1 DEF Number, NumberInv, ArrayInv, TypeOK, TypeShared
<1>4. /\ nums'[t] = [sno |-> sno, id |-> rand_num[t]]
      /\ \A u \in Threads \ {t} : nums'[u] = nums[u]
  BY DEF Number, TypeOK, TypeLocals
<1>5. nums'[t].sno = sno /\ nums'[t].id = rand_num_arr[sno + 1] /\ nums'[t] # None
  <2>1. rand_num[t] \in RandIds
    BY <1>1 DEF TypeOK, TypeLocals, LocalsReady
  <2>2. nums'[t] \in Nums
    BY <1>3, <1>4, <2>1 DEF Nums
  <2> QED BY <1>3, <1>4, <2>2, DirectoryAssumption
<1>6. ArrayInv'
  BY <1>2, <1>3 DEF NumberInv, ArrayInv
<1>7. HeldInv'
  <2>1. \A u \in Threads \ {t} : nums[u] # None => nums[u].sno \in Nat /\ nums[u].sno < sno
    BY DEF NumberInv, HeldInv, TypeOK, TypeLocals, Nums
  <2>2. \A u \in Threads : nums'[u] # None =>
          nums'[u].sno < sno' /\ nums'[u].id = rand_num_arr'[nums'[u].sno + 1]
    BY <1>3, <1>4, <1>5, <2>1 DEF NumberInv, HeldInv
  <2>3. \A u, v \in Threads :
          u # v /\ nums'[u] # None /\ nums'[v] # None => nums'[u].sno # nums'[v].sno
    BY <1>3, <1>4, <1>5, <2>1 DEF NumberInv, HeldInv
  <2> QED BY <2>2, <2>3 DEF HeldInv
<1>8. GrantInv'
  <2>1. t \in PeerThreads /\ nums[t] = None
    BY <1>1 DEF NumberInv, GrantInv, Early, Allocating
  <2>2. GrantedTo' = GrantedTo \cup {t} /\ t \notin GrantedTo
    BY <1>4, <1>5, <2>1, PeerThreadsFinite DEF GrantedTo
  <2>3. IsFiniteSet(GrantedTo)
    BY PeerThreadsFinite, FS_Subset DEF GrantedTo
  <2>4. Cardinality(GrantedTo') = Cardinality(GrantedTo) + 1
    BY <2>2, <2>3, FS_AddElement
  <2>5. Cardinality(GrantedTo') = sno'
    BY <1>3, <2>4 DEF NumberInv, GrantInv
  <2> QED BY <1>1, <1>4, <2>1, <2>5 DEF NumberInv, GrantInv, Early, Allocating
<1> QED BY <1>6, <1>7, <1>8 DEF NumberInv

LEMMA NumberSession ==
  ASSUME TypeOK, LockInv, NumberInv, NEW t \in Threads, Session(t), ~ProcessEnds
  PROVE  NumberInv'
<1>1. CASE LockSno(t)
  <2>1. t \in PeerThreads
    BY <1>1 DEF LockSno, NumberInv, GrantInv, Allocating
  <2> QED BY <1>1, <2>1, NumberQuiet DEF LockSno, Goto, Early, locals
<1>2. CASE Rcv(t) \/ Recv(t) \/ RecvRest(t) \/ RecvEnd(t)
  <2>1. PICK l \in {"last", "recv", "strtok"} :
          pc' = [pc EXCEPT ![t] = l] /\ pc[t] \notin {"number"}
    BY <1>2 DEF Rcv, Recv, RecvRest, RecvEnd, Dispatch, Goto
  <2>2. UNCHANGED <<rand_num_arr, sno, rand_num, nums>>
    BY <1>2 DEF Rcv, Recv, RecvRest, RecvEnd, shared
  <2> QED BY <2>1, <2>2, NumberQuiet DEF Early, Allocating
<1>3. CASE SndNums(t) \/ SndReply(t) \/ SndLast(t)
  <2>1. PICK l \in {"last", "rcv", "close"} :
          pc' = [pc EXCEPT ![t] = l] /\ pc[t] \notin {"number"}
    BY <1>3 DEF SndNums, SndReply, SndLast, SendKills, AfterSnd, Goto
  <2>2. UNCHANGED <<rand_num_arr, sno, rand_num, nums>>
    BY <1>3 DEF SndNums, SndReply, SndLast, SendKills, shared, locals
  <2> QED BY <2>1, <2>2, NumberQuiet DEF Early, Allocating
<1>4. CASE Strtok(t) \/ StrtokNull(t) \/ LockQuery(t) \/ QueryFails(t) \/ QueryOk(t) \/ Fetch(t)
           \/ CloseAndExit(t)
  <2>1. PICK l \in {"strtok_null", "lock_query", "query", "last", "fetch", "snd", "exited"} :
          pc' = [pc EXCEPT ![t] = l] /\ pc[t] \notin {"number"}
    BY <1>4 DEF Strtok, StrtokNull, LockQuery, QueryFails, QueryOk, Fetch, CloseAndExit, Goto
  <2>2. UNCHANGED <<rand_num_arr, sno, rand_num, nums>>
    BY <1>4 DEF Strtok, StrtokNull, LockQuery, QueryFails, QueryOk, Fetch, CloseAndExit, shared, locals
  <2> QED BY <2>1, <2>2, NumberQuiet DEF Early, Allocating
<1>5. CASE QueryCrashes(t)
  BY <1>5 DEF QueryCrashes
<1> QED BY <1>1, <1>2, <1>3, <1>4, <1>5, NumberDraw, NumberNumber DEF Session

LEMMA NumberNext ==
  TypeOK /\ SlotInv /\ LockInv /\ NumberInv /\ [Next]_vars => NumberInv'
<1> SUFFICES ASSUME TypeOK, SlotInv, LockInv, NumberInv, [Next]_vars, ~ProcessEnds
             PROVE  NumberInv'
  BY NumberEnds
<1>1. CASE UNCHANGED <<pc, rand_num_arr, sno, rand_num, nums>>
  BY <1>1 DEF NumberInv, ArrayInv, HeldInv, GrantInv, GrantedTo
<1>2. ASSUME NEW s \in Servers, Accept(s) \/ AcceptFails(s) PROVE NumberInv'
  <2>1. <<s, cnt[s]>> \in Threads /\ pc[<<s, cnt[s]>>] = "free"
    BY <1>2, NextSlot DEF Accept, AcceptFails
  <2>2. PICK l \in {Entry(s), "failed"} : pc' = [pc EXCEPT ![<<s, cnt[s]>>] = l]
    BY <1>2 DEF Accept, AcceptFails, Goto
  <2>3. l \in Allocating => <<s, cnt[s]>> \in PeerThreads
    BY <2>1, <2>2 DEF Entry, Allocating, Threads, PeerThreads
  <2>4. l # "number"
    BY <2>2 DEF Entry
  <2>5. UNCHANGED <<rand_num_arr, sno, rand_num, nums>>
    BY <1>2 DEF Accept, AcceptFails, shared, locals
  <2> QED BY <2>1, <2>2, <2>3, <2>4, <2>5, NumberQuiet DEF Early
<1>3. ASSUME NEW s \in Servers, Join(s) \/ JoinFails(s) PROVE NumberInv'
  BY <1>1, <1>3 DEF Join, JoinFails, shared, locals
<1>4. ASSUME NEW s \in Servers, JoinsAnother(s) PROVE NumberInv'
  <2>1. PICK u \in Threads : pc[u] = "exited" /\ pc' = [pc EXCEPT ![u] = "joined"]
    BY <1>4 DEF JoinsAnother, Goto
  <2>2. UNCHANGED <<rand_num_arr, sno, rand_num, nums>>
    BY <1>4 DEF JoinsAnother, shared, locals
  <2> QED BY <2>1, <2>2, NumberQuiet DEF Early, Allocating
<1>5. CASE Environment \/ Restart \/ UNCHANGED vars
  BY <1>1, <1>5 DEF Environment, Connect, Request, RemoteCloses, Restart, vars, shared, locals
<1> QED BY <1>2, <1>3, <1>4, <1>5, NumberSession DEF Next, Acceptor, MainReturns, Killed

LEMMA Invariant == Spec => [](TypeOK /\ SlotInv /\ LockInv /\ NumberInv)
<1>1. Init => SlotInv /\ LockInv
  BY NoneIsNoThread DEF Init, SlotInv, LockInv, Threads
<1> QED BY TypeCorrect, SlotNext, LockNext, NumberInit, NumberNext, <1>1, PTL DEF Spec

\* No two sessions of one life hold the same serial number or the same id.
THEOREM DistinctNumbers == Spec => []NumbersDistinct
<1>1. TypeOK /\ NumberInv => NumbersDistinct
  <2> SUFFICES ASSUME TypeOK, NumberInv, NEW t \in Threads, NEW u \in Threads,
                      t # u, nums[t] # None, nums[u] # None
               PROVE  nums[t].sno # nums[u].sno /\ nums[t].id # nums[u].id
    BY DEF NumbersDistinct
  <2>1. nums[t].sno \in Nat /\ nums[u].sno \in Nat /\ nums[t].sno # nums[u].sno
    BY DEF TypeOK, TypeLocals, Nums, NumberInv, HeldInv
  <2>2. sno <= Len(rand_num_arr) /\ sno \in Nat /\ Len(rand_num_arr) \in Nat
    BY DEF NumberInv, ArrayInv, TypeOK, TypeShared
  <2>3. /\ nums[t].sno + 1 \in 1 .. Len(rand_num_arr)
        /\ nums[u].sno + 1 \in 1 .. Len(rand_num_arr)
    BY <2>1, <2>2 DEF NumberInv, HeldInv
  <2>4. /\ nums[t].id = rand_num_arr[nums[t].sno + 1]
        /\ nums[u].id = rand_num_arr[nums[u].sno + 1]
    BY DEF NumberInv, HeldInv
  <2>5. nums[t].sno + 1 # nums[u].sno + 1
    BY <2>1
  <2>6. \A i, j \in 1 .. Len(rand_num_arr) : rand_num_arr[i] = rand_num_arr[j] => i = j
    BY DEF NumberInv, ArrayInv
  <2>7. rand_num_arr[nums[t].sno + 1] # rand_num_arr[nums[u].sno + 1]
    BY <2>3, <2>5, <2>6
  <2> QED BY <2>1, <2>4, <2>7
<1> QED BY <1>1, Invariant, PTL

\* There is an id that is not stored while fewer are stored than there are ids.
LEMMA IdLeft ==
  ASSUME rand_num_arr \in Seq(RandIds), Len(rand_num_arr) < ArrSize
  PROVE  Fresh # {}
<1> DEFINE n == Len(rand_num_arr)
           I == 1 .. n
           S == ToSet(rand_num_arr)
<1>1. n \in Nat /\ ArrSize \in Nat /\ IsFiniteSet(RandIds) /\ ArrSize <= Cardinality(RandIds)
  BY DirectoryAssumption
<1>2. IsFiniteSet(I) /\ Cardinality(I) = n
  <2>1. 1 \in Int /\ n \in Int /\ (1 > n => n = 0) /\ n - 1 + 1 = n
    BY <1>1
  <2> QED BY <2>1, FS_Interval
<1>3. rand_num_arr \in Surjection(I, S)
  <2>1. rand_num_arr \in [I -> RandIds]
    OBVIOUS
  <2>2. S = {rand_num_arr[i] : i \in I}
    BY <2>1 DEF ToSet
  <2> QED BY <2>1, <2>2 DEF Surjection
<1>4. IsFiniteSet(S) /\ Cardinality(S) <= n
  <2> HIDE DEF I, S, n
  <2> QED BY <1>2, <1>3, FS_Surjection
<1>5. Cardinality(S) \in Nat /\ Cardinality(RandIds) \in Nat
  BY <1>1, <1>4, FS_CardinalityType
<1>6. ~(RandIds \subseteq S)
  <2>1. RandIds \subseteq S => Cardinality(RandIds) <= Cardinality(S)
    BY <1>4, FS_Subset
  <2>2. Cardinality(S) < Cardinality(RandIds)
    BY <1>1, <1>4, <1>5
  <2> QED BY <1>5, <2>1, <2>2
<1> QED BY <1>6 DEF Fresh

\* A thread in the drawing loop has a place left to store what it draws, and
\* an id that is not stored yet: those who were served before it are other
\* slots of the same acceptor, and there are fewer of them than places and
\* fewer places than ids.
THEOREM RoomToDraw == Spec => []AllocatorHasRoom
<1>1. TypeOK /\ LockInv /\ NumberInv => AllocatorHasRoom
  <2> SUFFICES ASSUME TypeOK, LockInv, NumberInv, NEW t \in Threads, pc[t] = "draw"
               PROVE  Fresh # {}
    BY DEF AllocatorHasRoom
  <2>1. \A u \in Threads : pc[u] # "number"
    BY DEF LockInv
  <2>2. Len(rand_num_arr) = Cardinality(GrantedTo)
    BY <2>1 DEF NumberInv, ArrayInv, GrantInv
  <2>3. t \in PeerThreads /\ t \notin GrantedTo
    BY DEF NumberInv, GrantInv, Early, Allocating, GrantedTo
  <2>4. IsFiniteSet(GrantedTo) /\ GrantedTo \cup {t} \subseteq PeerThreads
    BY <2>3, PeerThreadsFinite, FS_Subset DEF GrantedTo
  <2>5. Cardinality(GrantedTo \cup {t}) = Cardinality(GrantedTo) + 1
    BY <2>3, <2>4, FS_AddElement
  <2>6. Cardinality(GrantedTo \cup {t}) <= Slots
    BY <2>4, PeerThreadsFinite, FS_Subset
  <2>7. Cardinality(GrantedTo) \in Nat
    BY <2>4, FS_CardinalityType
  <2>8. Len(rand_num_arr) < ArrSize
    BY <2>2, <2>5, <2>6, <2>7, DirectoryAssumption
  <2> QED BY <2>8, IdLeft DEF TypeOK, TypeShared
<1> QED BY <1>1, Invariant, PTL

-----------------------------------------------------------------------------
(* Refinement: the numbers are handed out as the registry promises. *)

Granted == SubSeq(rand_num_arr, 1, sno)
Held == [t \in PeerThreads |-> nums[t]]

LEMMA GrantedOf ==
  ASSUME TypeOK, NumberInv
  PROVE  /\ Granted \in Seq(RandIds) /\ Len(Granted) = sno
         /\ \A i \in 1 .. sno : Granted[i] = rand_num_arr[i]
<1>1. sno \in Nat /\ rand_num_arr \in Seq(RandIds) /\ sno <= Len(rand_num_arr)
  BY DEF TypeOK, TypeShared, NumberInv, ArrayInv
<1>2. \A i \in 1 .. sno : rand_num_arr[i] \in RandIds
  BY <1>1
<1> QED BY <1>1, <1>2, SubSeqProperties DEF Granted

LEMMA RefinesInit == Init => R!Init
<1> SUFFICES ASSUME Init PROVE R!Init
  OBVIOUS
<1>1. SubSeq(rand_num_arr, 1, sno) = <<>>
  BY SubSeqEmpty DEF Init
<1>2. \A t \in PeerThreads : nums[t] = None
  BY PeerThreadsFinite DEF Init, OfNone
<1> QED BY <1>1, <1>2 DEF R!Init, R!Nothing

LEMMA RefinesEnds == ProcessEnds => R!Forget
<1> SUFFICES ASSUME ProcessEnds PROVE R!Forget
  OBVIOUS
<1>1. SubSeq(rand_num_arr', 1, sno') = <<>>
  BY SubSeqEmpty DEF ProcessEnds, ResetsAllocator
<1>2. \A t \in PeerThreads : nums'[t] = None
  BY PeerThreadsFinite DEF ProcessEnds, OfNone
<1> QED BY <1>1, <1>2 DEF R!Forget, R!Nothing

LEMMA RefinesNumber ==
  ASSUME TypeOK, LockInv, NumberInv, NEW t \in Threads, Number(t)
  PROVE  \E h \in PeerThreads, r \in RandIds : R!Grant(h, r)
<1>1. TypeOK' /\ NumberInv'
  BY TypeSession, NumberNumber DEF Session
<1>2. t \in PeerThreads /\ nums[t] = None /\ rand_num[t] \in RandIds
  BY DEF Number, NumberInv, GrantInv, Early, Allocating, TypeOK, TypeLocals, LocalsReady
<1>3. /\ sno \in Nat /\ sno' = sno + 1 /\ rand_num_arr' = rand_num_arr
      /\ Len(rand_num_arr) = sno + 1 /\ rand_num[t] = rand_num_arr[sno + 1]
  BY DEF Number, NumberInv, ArrayInv, TypeOK, TypeShared
<1>4. /\ Granted \in Seq(RandIds) /\ Len(Granted) = sno
      /\ \A i \in 1 .. sno : Granted[i] = rand_num_arr[i]
  BY GrantedOf
<1>5. /\ Granted' \in Seq(RandIds) /\ Len(Granted') = sno + 1
      /\ \A i \in 1 .. sno + 1 : Granted'[i] = rand_num_arr[i]
  <2>1. \A i \in 1 .. sno' : rand_num_arr'[i] \in RandIds
    BY <1>3 DEF TypeOK, TypeShared
  <2>2. /\ SubSeq(rand_num_arr', 1, sno') \in Seq(RandIds)
        /\ Len(SubSeq(rand_num_arr', 1, sno')) = sno'
        /\ \A i \in 1 .. sno' : SubSeq(rand_num_arr', 1, sno')[i] = rand_num_arr'[i]
    BY <1>3, <2>1, SubSeqProperties
  <2> QED BY <1>3, <2>2 DEF Granted
<1>6. Granted' = Append(Granted, rand_num[t])
  <2>1. Append(Granted, rand_num[t]) \in Seq(RandIds)
    BY <1>2, <1>4
  <2>2. Len(Append(Granted, rand_num[t])) = sno + 1
    BY <1>4
  <2>3. \A i \in 1 .. sno + 1 : Append(Granted, rand_num[t])[i] = rand_num_arr[i]
    BY <1>3, <1>4
  <2> QED BY <1>3, <1>5, <2>1, <2>2, <2>3, SeqEqual
<1>7. rand_num[t] \notin R!ToSet(Granted)
  <2>1. \A i \in 1 .. sno : rand_num_arr[i] # rand_num_arr[sno + 1]
    BY <1>3 DEF NumberInv, ArrayInv
  <2> QED BY <1>3, <1>4, <2>1 DEF R!ToSet
<1>8. Held' = [Held EXCEPT ![t] = [sno |-> Len(Granted), id |-> rand_num[t]]]
  <2>1. nums' = [nums EXCEPT ![t] = [sno |-> sno, id |-> rand_num[t]]]
    BY DEF Number
  <2> QED BY <1>2, <1>4, <2>1, PeerThreadsFinite DEF Held, TypeOK, TypeLocals
<1>9. PICK r \in RandIds : r = rand_num[t]
  BY <1>2
<1>10. R!Grant(t, r)
  BY <1>2, <1>6, <1>7, <1>8, <1>9 DEF R!Grant, Granted, Held
<1> QED BY <1>2, <1>10

LEMMA RefinesStutter ==
  ASSUME UNCHANGED <<rand_num_arr, sno, nums>>
  PROVE  UNCHANGED R!vars
  BY DEF R!vars

LEMMA RefinesDraw ==
  ASSUME TypeOK, LockInv, NumberInv, NEW t \in Threads, Draw(t)
  PROVE  UNCHANGED R!vars
<1>1. TypeOK' /\ NumberInv'
  BY TypeSession, NumberDraw DEF Session
<1>2. sno' = sno /\ nums' = nums /\ sno \in Nat
  BY DEF Draw, TypeOK, TypeShared
<1>3. \A i \in 1 .. sno : rand_num_arr'[i] = rand_num_arr[i]
  BY DEF Draw, NumberInv, ArrayInv, TypeOK, TypeShared
<1>4. /\ Granted \in Seq(RandIds) /\ Len(Granted) = sno
      /\ \A i \in 1 .. sno : Granted[i] = rand_num_arr[i]
  BY GrantedOf
<1>5. /\ Granted' \in Seq(RandIds) /\ Len(Granted') = sno
      /\ \A i \in 1 .. sno : Granted'[i] = rand_num_arr'[i]
  <2>1. \A i \in 1 .. sno' : rand_num_arr'[i] \in RandIds
    BY <1>2, <1>3, <1>4 DEF TypeOK, TypeShared, NumberInv, ArrayInv
  <2>2. /\ SubSeq(rand_num_arr', 1, sno') \in Seq(RandIds)
        /\ Len(SubSeq(rand_num_arr', 1, sno')) = sno'
        /\ \A i \in 1 .. sno' : SubSeq(rand_num_arr', 1, sno')[i] = rand_num_arr'[i]
    BY <1>2, <2>1, SubSeqProperties
  <2> QED BY <1>2, <2>2 DEF Granted
<1>6. Granted' = Granted
  BY <1>2, <1>3, <1>4, <1>5, SeqEqual
<1> QED BY <1>2, <1>6 DEF R!vars, Granted

LEMMA RefinesSession ==
  ASSUME TypeOK, LockInv, NumberInv, NEW t \in Threads, Session(t), ~ProcessEnds
  PROVE  [R!Next]_R!vars
<1>1. CASE Draw(t)
  BY <1>1, RefinesDraw
<1>2. CASE Number(t)
  BY <1>2, RefinesNumber DEF R!Next
<1>3. CASE ~Draw(t) /\ ~Number(t)
  <2>1. UNCHANGED <<rand_num_arr, sno, nums>>
    BY <1>3 DEF Session, LockSno, SndNums, SendKills, Rcv, Recv, RecvRest, RecvEnd, Strtok, StrtokNull,
       LockQuery, QueryFails, QueryOk, Fetch, QueryCrashes, SndReply, SndLast, CloseAndExit,
       locals, shared
  <2> QED BY <2>1, RefinesStutter
<1> QED BY <1>1, <1>2, <1>3

\* Every step of the directory is a step of the registry or none at all: what
\* was handed out never repeats, is never taken back while the process lives,
\* and numbers the peers 0, 1, 2, ... in the order in which they drew.
THEOREM ImplementsRegistry == Spec => HandsOutAsRegistry
<1>1. TypeOK /\ LockInv /\ NumberInv /\ [Next]_vars => [R!Next]_R!vars
  <2> SUFFICES ASSUME TypeOK, LockInv, NumberInv, [Next]_vars PROVE [R!Next]_R!vars
    OBVIOUS
  <2>1. CASE ProcessEnds
    BY <2>1, RefinesEnds DEF R!Next
  <2>2. ASSUME NEW s \in Servers, Acceptor(s), ~ProcessEnds PROVE UNCHANGED R!vars
    <3>1. UNCHANGED <<rand_num_arr, sno, nums>>
      BY <2>2 DEF Acceptor, Accept, AcceptFails, Join, JoinFails, JoinsAnother, locals, shared
    <3> QED BY <3>1, RefinesStutter
  <2>3. CASE Environment \/ Restart \/ UNCHANGED vars
    <3>1. UNCHANGED <<rand_num_arr, sno, nums>>
      BY <2>3 DEF Environment, Connect, Request, RemoteCloses, Restart, vars, locals, shared
    <3> QED BY <3>1, RefinesStutter
  <2> QED BY <2>1, <2>2, <2>3, RefinesSession DEF Next, MainReturns, Killed
<1> QED BY RefinesInit, Invariant, <1>1, PTL DEF HandsOutAsRegistry, R!Spec, Spec
=============================================================================
