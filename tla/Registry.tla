------------------------------ MODULE Registry ------------------------------
(***************************************************************************)
(* What the directory promises about the numbers it hands out              *)
(* (snd_sno_rand_id, src/dbinterface.d/peer_run.c): during one life of the *)
(* process the serial numbers are 0, 1, 2, ... without gaps or repeats,    *)
(* the random ids never repeat, and a holder keeps what it got.  When the  *)
(* process ends, everything granted so far is forgotten.                   *)
(***************************************************************************)
EXTENDS Naturals, Sequences, SequencesExt

CONSTANTS Holders, RandIds, None

VARIABLES ids,    \* the random ids granted in this life, in order of grant
          held    \* what each holder was granted, None before

vars == <<ids, held>>

Nothing == [h \in Holders |-> None]

Init == ids = <<>> /\ held = Nothing

Grant(h, r) ==
  /\ held[h] = None
  /\ r \notin ToSet(ids)
  /\ held' = [held EXCEPT ![h] = [sno |-> Len(ids), id |-> r]]
  /\ ids' = Append(ids, r)

Forget == ids' = <<>> /\ held' = Nothing

Next == Forget \/ \E h \in Holders, r \in RandIds : Grant(h, r)

Spec == Init /\ [][Next]_vars
=============================================================================
