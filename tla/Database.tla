------------------------------- MODULE Database -------------------------------
(***************************************************************************)
(* What query_db() promises the sessions of the directory                  *)
(* (src/dbinterface.d/query_db.c): each has the table peers as if to       *)
(* itself.  A query is one step on the table and gives its session an      *)
(* answer, which nobody else's query changes until the session takes it.   *)
(* Rows only come, and no two have the same id, the primary key of         *)
(* src/db/anon.sql.  When the process ends, the answers not taken are lost *)
(* and the table is not.                                                   *)
(*                                                                         *)
(* An answer is whose query it belongs to, whether there is a row and how  *)
(* many columns it has.                                                    *)
(***************************************************************************)
EXTENDS Naturals

CONSTANTS Sessions, Rows, Snos, None    \* Snos are the numbers looked up

VARIABLES table,    \* the rows
          answer    \* what a session's query found, None if it has no query

vars == <<table, answer>>

Nothing == [s \in Sessions |-> None]

Init == table = {} /\ answer = Nothing

Gets(s, row, cols) ==
  /\ answer[s] = None
  /\ answer' = [answer EXCEPT ![s] = [by |-> s, row |-> row, cols |-> cols]]

\* The row is the one that is new in the table.
Insert(s) ==
  /\ \E r \in table' :
       /\ r \in Rows /\ \A q \in table : q.id # r.id
       /\ table' = table \cup {r}
  /\ Gets(s, FALSE, 0)

Update(s) == UNCHANGED table /\ Gets(s, FALSE, 0)

Select(s, n) == UNCHANGED table /\ Gets(s, \E r \in table : r.sno = n, 3)

Count(s) == UNCHANGED table /\ Gets(s, TRUE, 1)

Take(s) ==
  /\ answer[s] # None
  /\ answer' = [answer EXCEPT ![s] = None]
  /\ UNCHANGED table

Forget == answer' = Nothing /\ UNCHANGED table

Query(s) == Insert(s) \/ Update(s) \/ Count(s) \/ \E n \in Snos : Select(s, n)

Next == Forget \/ \E s \in Sessions : Query(s) \/ Take(s)

Spec == Init /\ [][Next]_vars
=============================================================================
